-------------------------- MODULE InstructionQueue --------------------------
(***************************************************************************)
(* The instruction queue (crates/uniterm-core/src/instruction.rs) and what  *)
(* the server does to it: human commands, cooperative ready events, process *)
(* groups that come and go under a Pane, Panes closed, and a crash whose    *)
(* restart replays the log.                                                 *)
(*                                                                         *)
(* The log is kept as the queue it replays to: "recorded" by the events     *)
(* appended, "written" by those on disk.  A process group is a number, 1    *)
(* the Pane's shell and 0 None; groups are not reused.  An item's id and    *)
(* created_sequence are allocated together and grow together, so the sort   *)
(* by (created_sequence, id) is the sort by id.  All agents are of one      *)
(* provider, except that a verdict may name another one.                    *)
(***************************************************************************)
EXTENDS Integers, Sequences, FiniteSets, FiniteSetTheorems, TLAPS

CONSTANTS Panes,
          MaxWorkspace,  \* MAX_WORKSPACE_INSTRUCTIONS
          MaxInvocation, \* MAX_INVOCATION_INSTRUCTIONS
          MaxAsked,      \* bound: instructions accepted from humans
          MaxDelivery,   \* where next_delivery_id saturates, u64::MAX in the code
          MaxPid,        \* bound: process groups per Pane
          MaxVerdicts,   \* bound: screen evidence under way per Pane
          MaxCrashes     \* bound: crashes of the server

VARIABLES
  queue,    \* the live queue: items in order, next_id, next_delivery_id
  recorded, \* the queue that the events appended so far replay to
  written,  \* the queue that the events on disk replay to
  failed,   \* durability_error is set
  panes,    \* per Pane: binding, cached and kernel foreground group, evidence under way
  asked,    \* history: instructions accepted so far
  given,    \* history: instructions that reached a Pane
  sent,     \* history: the delivery attempted by the last step
  crashes   \* history: crashes so far

vars == <<queue, recorded, written, failed, panes, asked, given, sent, crashes>>

New == [items |-> <<>>, next |-> 1, nextDelivery |-> 1]
Shell == [live |-> TRUE, agent |-> FALSE, pid |-> 0, fg |-> 0, own |-> 1, shell |-> 1,
          alive |-> {1}, last |-> 1, watch |-> 0, dead |-> 0, verdicts |-> <<>>]

Init ==
  /\ queue = New /\ recorded = New /\ written = New /\ failed = FALSE
  /\ panes = [p \in Panes |-> Shell]
  /\ asked = 0 /\ given = {} /\ sent = {} /\ crashes = 0

\* Slip: the Pane's child stands for the foreground group.
InvocationOfChild(pane) == IF ~pane.live \/ ~pane.agent THEN 0 ELSE pane.shell
\* instruction_invocation: None while the agent's group does not own the terminal.
Invocation(pane) ==
  IF ~pane.live \/ ~pane.agent \/ (pane.pid # 0 /\ pane.fg # 0 /\ pane.pid # pane.fg) THEN 0
  ELSE IF pane.pid # 0 THEN pane.pid ELSE pane.fg

-----------------------------------------------------------------------------
(* The queue.                                                              *)

Items(q) == {q.items[i] : i \in DOMAIN q.items}
Of(q, p) == {x \in Items(q) : x.pane = p}
\* "origin" and "edited" are history: the request an item carries, and whether
\* the item replaced another one.
Item(id, p, inv, origin, edited) ==
  [id |-> id, pane |-> p, inv |-> inv, origin |-> origin, edited |-> edited]

\* next_id and next_delivery_id, past an id that was seen.
Beyond(next, id) == IF next > id THEN next ELSE id + 1

\* The k-th smallest of a set of integers.
Nth(S, k) == CHOOSE i \in S : Cardinality({j \in S : j < i}) = k - 1

\* retain: what is at the positions "at", in the old order.
Retain(s, at) == [k \in 1 .. Cardinality(at) |-> s[Nth(at, k)]]

\* sort_by_key, of items that differ in their ids.
SortById(S) ==
  LET ids == {x.id : x \in S} IN [k \in 1 .. Cardinality(ids) |-> CHOOSE x \in S : x.id = Nth(ids, k)]

\* insert: the whole queue is sorted again.
Insert(q, item) ==
  [q EXCEPT !.items = SortById({x \in Items(q) : x.id # item.id} \cup {item}),
            !.next  = Beyond(@, item.id)]

\* replace, in the place of the item replaced.
Replace(q, old, item) ==
  [q EXCEPT !.items = [i \in DOMAIN @ |-> IF @[i].id = old THEN item ELSE @[i]],
            !.next  = Beyond(@, item.id)]

\* remove.
Remove(q, ids) == [q EXCEPT !.items = Retain(@, {i \in DOMAIN @ : @[i].id \notin ids})]

\* next_for: the first item of the invocation.
NextFor(q, p, inv) ==
  LET mine == {i \in DOMAIN q.items : q.items[i].pane = p /\ q.items[i].inv = inv}
  IN  {q.items[i] : i \in {j \in mine : \A k \in mine : j <= k}}

\* can_enqueue.
CanEnqueue(q, p, inv) ==
  Len(q.items) < MaxWorkspace /\ Cardinality({x \in Of(q, p) : x.inv = inv}) < MaxInvocation

\* InstructionReplaced, replayed.
ReplayReplaced(q, old, item) ==
  IF \E x \in Items(q) : x.id = old THEN Replace(q, old, item) ELSE Insert(q, item)

-----------------------------------------------------------------------------
(* Changes of the live queue with the events they append.                  *)

Now == [q |-> queue, r |-> recorded]
Publish(w) == queue' = w.q /\ recorded' = w.r

\* InstructionCanceled, one event per item.
Cancelled(w, items) ==
  LET ids == {x.id : x \in items} IN [q |-> Remove(w.q, ids), r |-> Remove(w.r, ids)]

\* Slip: direction never goes stale.
StaleNever(w, p, inv) == {}
\* cancel_stale_instructions.
Stale(w, p, inv) == {x \in Of(w.q, p) : x.inv # inv}

Saturated(n) == IF n > MaxDelivery THEN MaxDelivery ELSE n

\* deliver_instruction for an item of the current invocation; ok: the Pane's input
\* queue had room.  The item leaves when it was accepted, live and replayed.
Attempt(w, item, ok) ==
  LET d == w.q.nextDelivery
      settled(q) == IF ok THEN Remove(q, {item.id}) ELSE q
  IN  [q |-> settled([w.q EXCEPT !.nextDelivery = Saturated(d + 1)]),
       r |-> settled([w.r EXCEPT !.nextDelivery = Saturated(Beyond(@, d))])]
Delivery(w, item, ok, pane, by) ==
  [item |-> item, delivery |-> w.q.nextDelivery, ok |-> ok, to |-> pane.own, by |-> by]

Deliver(w, items, ok, pane, by) ==
  /\ Publish(IF items = {} THEN w ELSE Attempt(w, CHOOSE x \in items : TRUE, ok))
  /\ sent'  = {Delivery(w, x, ok, pane, by) : x \in items}
  /\ given' = given \cup (IF ok THEN {x.origin : x \in items} ELSE {})

Quiet == sent' = {} /\ UNCHANGED given
Elsewhere == UNCHANGED <<written, failed, asked, crashes>>
SetPane(p, pane) == panes' = [panes EXCEPT ![p] = pane]

-----------------------------------------------------------------------------
(* instruction_command.  A command refused changes nothing.                *)

Add(p) ==
  LET inv  == Invocation(panes[p])
      item == Item(queue.next, p, inv, asked + 1, FALSE)
  IN  /\ ~failed /\ asked < MaxAsked
      /\ inv # 0 /\ CanEnqueue(queue, p, inv)
      /\ Publish([q |-> Insert([queue EXCEPT !.next = @ + 1], item), r |-> Insert(recorded, item)])
      /\ asked' = asked + 1
      /\ UNCHANGED <<written, failed, panes, crashes>> /\ Quiet

ReplaceItem(old) ==
  LET item == Item(queue.next, old.pane, old.inv, old.origin, TRUE)
  IN  /\ ~failed /\ asked < MaxAsked
      /\ Invocation(panes[old.pane]) = old.inv
      /\ Publish([q |-> Replace([queue EXCEPT !.next = @ + 1], old.id, item),
                  r |-> ReplayReplaced(recorded, old.id, item)])
      /\ asked' = asked + 1
      /\ UNCHANGED <<written, failed, panes, crashes>> /\ Quiet

Cancel(x) ==
  /\ ~failed
  /\ Publish(Cancelled(Now, {x}))
  /\ UNCHANGED panes /\ Elsewhere /\ Quiet

SendNow(x, ok) ==
  /\ ~failed
  /\ \/ /\ Invocation(panes[x.pane]) # x.inv
        /\ Publish(Cancelled(Now, {x})) /\ Quiet
     \/ /\ Invocation(panes[x.pane]) = x.inv
        /\ Deliver(Now, {x}, ok, panes[x.pane], "now")
  /\ UNCHANGED panes /\ Elsewhere

Command ==
  \/ \E p \in Panes : Add(p)
  \/ \E x \in Items(queue) :
       ReplaceItem(x) \/ Cancel(x) \/ \E ok \in BOOLEAN : SendNow(x, ok)

-----------------------------------------------------------------------------
(* Panes.                                                                  *)

\* The kernel: a new job, an earlier one, or the shell takes the terminal; the job
\* that had it may be over.
ForegroundChanges(p) ==
  LET pane == panes[p]
  IN  /\ pane.live
      /\ \E to \in pane.alive \cup {pane.last + 1}, over \in BOOLEAN :
           /\ to # pane.own /\ to <= MaxPid
           /\ over => pane.own # pane.shell
           /\ SetPane(p, [pane EXCEPT
                !.own = to, !.last = IF to > @ THEN to ELSE @,
                !.alive = (@ \cup {to}) \ (IF over THEN {pane.own} ELSE {})])
      /\ UNCHANGED <<queue, recorded>> /\ Elsewhere /\ Quiet

\* One OSC 777 envelope: a status, "ready" (idle), or "end".
Envelope(b, ev) ==
  LET pane  == b.pane
      other == pane.agent /\ pane.pid # 0 /\ pane.pid # pane.own
  IN  IF ev = "end"
      THEN [b EXCEPT !.pane.agent = FALSE, !.pane.pid = 0, !.ended = TRUE,
                   !.pane.dead = IF pane.agent THEN 0 ELSE @]
      ELSE [b EXCEPT !.ready = @ \/ ev = "ready",
                     !.pane.agent = TRUE,
                     !.pane.pid = IF ~pane.agent \/ other \/ @ = 0 THEN pane.own ELSE @]

Reports == {"status", "ready", "end"}
Batches == {<<>>} \cup {<<e>> : e \in Reports} \cup {<<e, f>> : e \in Reports, f \in Reports}

\* The tail of on_pane_readable: what the batch made stale.
AfterOutput(w, p, b, changed) ==
  IF b.ended THEN Cancelled(w, Of(w.q, p))
  ELSE IF changed THEN Cancelled(w, Stale(w, p, b.pane.own))
  ELSE w

\* on_pane_readable: output with a batch of envelopes, and the screen evidence it
\* sends to the runtime when the group or the agent changed (a redrawn screen alone
\* sends the group already known).
Output(p, batch, ok) ==
  LET pane == panes[p]
      b0   == [pane |-> pane, ready |-> FALSE, ended |-> FALSE]
      b    == CASE Len(batch) = 0 -> b0
                [] Len(batch) = 1 -> Envelope(b0, batch[1])
                [] OTHER -> Envelope(Envelope(b0, batch[1]), batch[2])
      changed == pane.fg # pane.own
      seen == [b.pane EXCEPT !.fg = pane.own]
      w    == AfterOutput(Now, p, b, changed)
      inv  == Invocation(seen)
      w2   == Cancelled(w, Stale(w, p, inv))
      evidence == changed \/ batch # <<>>
  IN  /\ pane.live
      /\ evidence => Len(pane.verdicts) < MaxVerdicts
      /\ SetPane(p, [seen EXCEPT !.verdicts = IF evidence THEN Append(@, pane.own) ELSE @])
      /\ IF b.ready /\ ~b.ended /\ ~failed
         THEN Deliver(w2, NextFor(w2.q, p, inv), ok, seen, "ready")
         ELSE Publish(w) /\ Quiet
      /\ Elsewhere

\* The runtime has no verdict on the evidence.
NoVerdict(p) ==
  /\ panes[p].live /\ panes[p].verdicts # <<>>
  /\ SetPane(p, [panes[p] EXCEPT !.verdicts = Tail(@)])
  /\ UNCHANGED <<queue, recorded>> /\ Elsewhere /\ Quiet

\* apply_agent_detection: a verdict on evidence sent earlier names the bound
\* provider, or another one whose executable was verified.
Detected(p, other) ==
  LET group == Head(panes[p].verdicts)
      pane  == [panes[p] EXCEPT !.verdicts = Tail(@),
                                !.watch = IF group \in panes[p].alive THEN group ELSE 0]
      bind  == ~pane.agent \/ pane.pid = 0 \/ other
  IN  /\ panes[p].live /\ panes[p].verdicts # <<>>
      /\ SetPane(p, IF group # pane.own \/ group = pane.dead THEN pane
                    ELSE [pane EXCEPT !.fg = group, !.agent = TRUE,
                                      !.pid = IF bind THEN group ELSE @])
      /\ UNCHANGED <<queue, recorded>> /\ Elsewhere /\ Quiet

\* bind_agent: an agent launched in the Pane.
Launched(p) ==
  /\ panes[p].live
  /\ SetPane(p, [panes[p] EXCEPT !.agent = TRUE, !.pid = panes[p].own])
  /\ UNCHANGED <<queue, recorded>> /\ Elsewhere /\ Quiet

\* on_process_exit.
ProcessExit(p) ==
  LET pane == panes[p]
  IN  /\ pane.live /\ pane.watch \notin pane.alive \cup {0}
      /\ SetPane(p, [pane EXCEPT !.watch = 0, !.agent = FALSE, !.pid = 0,
                                 !.dead = IF pane.agent THEN pane.watch ELSE @])
      /\ UNCHANGED <<queue, recorded>> /\ Elsewhere /\ Quiet

\* close_pane: cancel_pane_instructions.
ClosePane(p) ==
  /\ panes[p].live
  /\ SetPane(p, [Shell EXCEPT !.live = FALSE])
  /\ Publish(Cancelled(Now, Of(queue, p)))
  /\ Elsewhere /\ Quiet

-----------------------------------------------------------------------------
(* The log.                                                                *)

Flush ==
  /\ ~failed /\ written' = recorded
  /\ crashes < MaxCrashes \* bound: nothing reads the disk after the last crash
  /\ UNCHANGED <<queue, recorded, failed, panes, asked, crashes>> /\ Quiet

WriteFails ==
  /\ failed' = TRUE
  /\ UNCHANGED <<queue, recorded, written, panes, asked, crashes>> /\ Quiet

\* Slip: the binding of the snapshot is trusted.
RevivedBound(pane) == pane
\* A restored Pane: a new shell and no agent.
Revived(pane) ==
  LET n == pane.last + 1
  IN  IF pane.live THEN [Shell EXCEPT !.own = n, !.shell = n, !.alive = {n}, !.last = n] ELSE pane

\* recover_workspace after a crash: the replayed queue, less what belongs to no
\* invocation bound to its Pane.
Restart ==
  LET back == [p \in Panes |-> Revived(panes[p])]
      w == [q |-> written, r |-> written]
  IN  /\ crashes < MaxCrashes /\ crashes' = crashes + 1
      /\ \A p \in Panes : panes[p].last < MaxPid
      /\ panes' = back
      /\ Publish(Cancelled(w, {x \in Items(written) :
                                ~(back[x.pane].agent /\ back[x.pane].pid = x.inv)}))
      /\ failed' = FALSE
      /\ UNCHANGED <<written, asked>> /\ Quiet

PaneStep(p) ==
  \/ ForegroundChanges(p) \/ Launched(p) \/ ProcessExit(p) \/ ClosePane(p)
  \/ NoVerdict(p) \/ \E other \in BOOLEAN : Detected(p, other)
  \/ \E batch \in Batches, ok \in BOOLEAN : Output(p, batch, ok)

Next == Command \/ (\E p \in Panes : PaneStep(p)) \/ Flush \/ WriteFails \/ Restart

Spec == Init /\ [][Next]_vars

\* Panes keep producing output and verdicts come back.  AgentsReportReady adds what
\* only cooperating agents do: idle events keep coming while the Pane accepts input.
Observed(p) == \E batch \in Batches, ok \in BOOLEAN : Output(p, batch, ok)
Judged(p) == NoVerdict(p) \/ \E other \in BOOLEAN : Detected(p, other)
LiveSpec == Spec /\ \A p \in Panes : WF_vars(Observed(p)) /\ WF_vars(Judged(p))
Ready(p) == \E batch \in {<<"ready">>} : Output(p, batch, TRUE)
AgentsReportReady == \A p \in Panes : SF_vars(Ready(p))

-----------------------------------------------------------------------------
(* Properties.                                                             *)

QueueType(q) ==
  /\ q.next \in Nat \ {0} /\ q.nextDelivery \in Nat \ {0}
  /\ \A x \in Items(q) : x.pane \in Panes /\ x.inv \in 1 .. MaxPid /\ x.id < q.next
  /\ \A i, j \in DOMAIN q.items : q.items[i].id = q.items[j].id => i = j
  /\ Len(q.items) <= MaxWorkspace
  /\ \A x \in Items(q) : Cardinality({y \in Of(q, x.pane) : y.inv = x.inv}) <= MaxInvocation

\* Types, with the limits of can_enqueue for the live queue and for what a replay
\* would rebuild: ids below the allocator, no id twice, no list over its limit.
TypeOK ==
  /\ QueueType(queue) /\ QueueType(recorded) /\ QueueType(written)
  /\ failed \in BOOLEAN /\ asked \in 0 .. MaxAsked /\ given \subseteq 1 .. MaxAsked
  /\ \A p \in Panes : panes[p].own \in panes[p].alive

\* The events appended so far replay to the live queue: same items in the same
\* order, same allocators, whatever was replaced, cancelled, rejected or delivered.
ReplayAgrees == recorded = queue

\* What a cooperative ready event delivers reaches the process group the human
\* wrote it for, by the kernel's account and not only the server's: the binding and
\* the cached group it is matched against may both be old.
ReadyReachesItsInvocation == \A d \in sent : d.by = "ready" => d.to = d.item.inv

FirstDelivery == \A d \in sent' \ sent : d.ok => d.item.origin \notin given

\* A request is typed into a Pane at most once, through replacements, retries after
\* a full input queue, and a crash that loses the record of the delivery.
DeliveredOnce == [][FirstDelivery]_vars

EarliestDelivered ==
  \A d \in sent' \ sent :
    d.by = "ready" /\ ~d.item.edited =>
      \A x \in Items(queue') :
        x.pane = d.item.pane /\ x.inv = d.item.inv /\ ~x.edited => x.id >= d.item.id

\* Direction reaches an invocation in the order it was given: a ready event never
\* delivers a request ahead of an earlier one that still waits (requests that were
\* replaced aside).
InOrder == [][EarliestDelivered]_vars

\* replace's contract (instruction.rs: "Replace an item in place in the queue
\* ordering"): the items of an invocation stay in the order of the requests they carry.
ReplacementKeepsPlace ==
  \A i, j \in DOMAIN queue.items :
    i < j /\ queue.items[i].pane = queue.items[j].pane /\ queue.items[i].inv = queue.items[j].inv
      => queue.items[i].origin < queue.items[j].origin

Queued(n) == \E x \in Items(queue) : x.origin = n

\* Where agents keep reporting idle and the log can be written, every request leaves the queue: delivered,
\* cancelled, or stale.
DirectionResolves ==
  AgentsReportReady /\ []~failed => \A n \in 1 .. MaxAsked : Queued(n) ~> ~Queued(n)

-----------------------------------------------------------------------------
(***************************************************************************)
(* Proofs.  Restarts, replacements and retries keep the live queue and what *)
(* the log replays to equal, in the limits and in order; a request that was *)
(* typed is in neither.  The theorems assume only Bounds of the constants.  *)
(***************************************************************************)

-----------------------------------------------------------------------------
(* Positions and orders.                                                   *)

\* How many members of the set come before i.
Rank(S, i) == Cardinality({j \in S : j < i})

\* The ranks of a finite set of n integers are 0 to n - 1, in the order of the set.
LEMMA Ranks ==
  ASSUME NEW S \in SUBSET Int, IsFiniteSet(S)
  PROVE  /\ Cardinality(S) \in Nat
         /\ \A i \in S : Rank(S, i) \in 0 .. Cardinality(S) - 1
         /\ \A i, j \in S : i < j => Rank(S, i) < Rank(S, j)
         /\ \A r \in 0 .. Cardinality(S) - 1 : \E i \in S : Rank(S, i) = r
<1> DEFINE n == Cardinality(S)
           below(i) == {j \in S : j < i}
<1>1. n \in Nat
  BY FS_CardinalityType
<1>2. ASSUME NEW i \in S PROVE Rank(S, i) \in 0 .. n - 1
  <2>1. below(i) \in SUBSET S /\ i \notin below(i)
    OBVIOUS
  <2>2. IsFiniteSet(below(i)) /\ Cardinality(below(i)) <= n /\ Cardinality(below(i)) # n
    BY <2>1, FS_Subset
  <2>3. Cardinality(below(i)) \in Nat
    BY <2>2, FS_CardinalityType
  <2> QED
    BY <1>1, <2>2, <2>3 DEF Rank
<1>3. ASSUME NEW i \in S, NEW j \in S, i < j PROVE Rank(S, i) < Rank(S, j)
  <2>1. below(j) \in SUBSET S
    OBVIOUS
  <2>2. IsFiniteSet(below(j))
    BY <2>1, FS_Subset
  <2>3. below(i) \in SUBSET below(j) /\ i \in below(j) /\ i \notin below(i)
    <3>1. i \in Int /\ j \in Int
      OBVIOUS
    <3>2. ASSUME NEW x \in below(i) PROVE x \in below(j)
      <4>1. x \in Int /\ x \in S /\ x < i
        OBVIOUS
      <4> QED BY <1>3, <3>1, <4>1
    <3>3. i \in below(j) /\ i \notin below(i)
      BY <1>3, <3>1
    <3> HIDE DEF below
    <3> QED BY Zenon, <3>2, <3>3
  <2>4. Cardinality(below(i)) <= Cardinality(below(j)) /\ Cardinality(below(i)) # Cardinality(below(j))
    BY <2>2, <2>3, FS_Subset
  <2>5. Rank(S, i) \in Int /\ Rank(S, j) \in Int
    BY <1>1, <1>2
  <2> QED
    BY <2>4, <2>5 DEF Rank
<1>4. ASSUME NEW r \in 0 .. n - 1 PROVE \E i \in S : Rank(S, i) = r
  <2> DEFINE T == 0 .. n - 1
             f == [i \in S |-> Rank(S, i)]
  <2>1. IsFiniteSet(T) /\ Cardinality(T) = n
    <3>1. 0 \in Int /\ n - 1 \in Int
      BY <1>1
    <3> HIDE DEF n
    <3>2. IsFiniteSet(0 .. n - 1) /\ Cardinality(0 .. n - 1) = IF 0 > n - 1 THEN 0 ELSE (n - 1) - 0 + 1
      BY Zenon, <3>1, FS_Interval
    <3> QED BY <1>1, <3>2
  <2>2. f \in Injection(S, T)
    <3>1. f \in [S -> T]
      BY <1>2
    <3>2. ASSUME NEW i \in S, NEW j \in S, f[i] = f[j] PROVE i = j
      <4>1. Rank(S, i) = Rank(S, j) /\ Rank(S, i) \in Int
        BY <3>2, <1>2, <1>1
      <4>2. ~(i < j) /\ ~(j < i)
        BY <4>1, <1>3, <1>2
      <4> QED BY <4>2
    <3> QED
      BY <3>1, <3>2 DEF Injection, IsInjective
  <2>3. f \in Surjection(S, T)
    BY <2>1, <2>2, FS_Injection
  <2> QED
    BY Zenon, <2>3 DEF Surjection
<1> QED
  BY <1>1, <1>2, <1>3, <1>4

\* Nth enumerates the set in ascending order.
LEMMA NthAscends ==
  ASSUME NEW S \in SUBSET Int, IsFiniteSet(S)
  PROVE  /\ Cardinality(S) \in Nat
         /\ \A k \in 1 .. Cardinality(S) : Nth(S, k) \in S
         /\ \A k, l \in 1 .. Cardinality(S) : k < l => Nth(S, k) < Nth(S, l)
         /\ \A i \in S : \E k \in 1 .. Cardinality(S) : Nth(S, k) = i
<1> DEFINE n == Cardinality(S)
<1>1. n \in Nat
  BY Ranks
<1>2. ASSUME NEW k \in 1 .. n PROVE Nth(S, k) \in S /\ Rank(S, Nth(S, k)) = k - 1
  <2>1. k - 1 \in 0 .. n - 1
    BY <1>1
  <2>2. PICK i \in S : Rank(S, i) = k - 1
    BY <2>1, Ranks
  <2> QED
    BY <2>2 DEF Nth, Rank
<1>3. ASSUME NEW k \in 1 .. n, NEW l \in 1 .. n, k < l PROVE Nth(S, k) < Nth(S, l)
  <2>1. Nth(S, k) \in Int /\ Nth(S, l) \in Int /\ Nth(S, k) \in S /\ Nth(S, l) \in S
    BY Zenon, <1>2
  <2>2. Rank(S, Nth(S, k)) < Rank(S, Nth(S, l))
    BY <1>2, <1>3
  <2>3. Nth(S, k) # Nth(S, l) /\ ~(Nth(S, l) < Nth(S, k))
    <3>1. Rank(S, Nth(S, k)) \in Int /\ Rank(S, Nth(S, l)) \in Int
      BY <1>2
    <3> QED BY <2>1, <2>2, <3>1, Ranks
  <2> QED
    BY <2>1, <2>3
<1>4. ASSUME NEW i \in S PROVE \E k \in 1 .. n : Nth(S, k) = i
  <2> DEFINE k == Rank(S, i) + 1
  <2>1. k \in 1 .. n
    BY <1>1, Ranks
  <2>2. Nth(S, k) \in S /\ Rank(S, Nth(S, k)) = Rank(S, i)
    <3> Rank(S, i) \in 0 .. n - 1
      BY Ranks
    <3> QED BY <1>1, <1>2, <2>1
  <2>3. ~(i < Nth(S, k)) /\ ~(Nth(S, k) < i)
    <3> HIDE DEF k
    <3>1. Rank(S, i) \in Int
      BY <1>1, Ranks
    <3>2. ~(Rank(S, i) < Rank(S, Nth(S, k))) /\ ~(Rank(S, Nth(S, k)) < Rank(S, i))
      BY <2>2, <3>1
    <3> QED BY Zenon, <2>2, <3>2, Ranks
  <2>4. i \in Int /\ Nth(S, k) \in Int
    BY Zenon, <2>2
  <2> QED
    BY <2>1, <2>3, <2>4
<1> QED
  BY <1>1, <1>2, <1>3, <1>4

-----------------------------------------------------------------------------
(* Queues.                                                                 *)

\* What is assumed of the constants: MaxDelivery and the groups start at 1.
Bounds ==
  /\ MaxWorkspace \in Nat /\ MaxInvocation \in Nat /\ MaxAsked \in Nat
  /\ MaxDelivery \in Nat \ {0} /\ MaxPid \in Nat \ {0}

\* InstructionItem, with its history.
Records == [id : Nat, pane : Panes, inv : 1 .. MaxPid, origin : Nat, edited : BOOLEAN]

\* Distinct items have distinct ids and carry distinct requests.
Distinct(s) == \A i, j \in 1 .. Len(s) : s[i].id = s[j].id \/ s[i].origin = s[j].origin => i = j

\* What was never replaced is in the order it was given.
Ordered(s) ==
  \A i, j \in 1 .. Len(s) : i < j /\ ~s[i].edited /\ ~s[j].edited => s[i].id < s[j].id

\* What waits for an invocation of a Pane.
Mine(q, p, inv) == {x \in Of(q, p) : x.inv = inv}

\* The limits of can_enqueue.
Limited(q) ==
  /\ Len(q.items) <= MaxWorkspace
  /\ \A p, inv : Cardinality(Mine(q, p, inv)) <= MaxInvocation

\* A queue as it should be: ids allocated from it, distinct, ordered, in the limits.
Sound(q) ==
  /\ q = [items |-> q.items, next |-> q.next, nextDelivery |-> q.nextDelivery]
  /\ q.items \in Seq(Records)
  /\ q.next \in Nat \ {0} /\ q.nextDelivery \in Nat \ {0}
  /\ \A x \in Items(q) : x.id < q.next
  /\ Distinct(q.items) /\ Ordered(q.items) /\ Limited(q)

\* A queue has finitely many items, no more than places.
LEMMA FiniteItems ==
  ASSUME NEW q, q.items \in Seq(Records)
  PROVE  /\ IsFiniteSet(Items(q)) /\ Cardinality(Items(q)) <= Len(q.items)
         /\ Items(q) \subseteq Records
         /\ \A p, inv : IsFiniteSet(Mine(q, p, inv))
<1> DEFINE s == q.items
           n == Len(s)
<1>1. n \in Nat /\ DOMAIN s = 1 .. n /\ \A i \in 1 .. n : s[i] \in Records
  OBVIOUS
<1>2. s \in Surjection(1 .. n, Items(q))
  <2>1. s = [i \in 1 .. n |-> s[i]]
    OBVIOUS
  <2>2. \A i \in 1 .. n : s[i] \in Items(q)
    BY <1>1 DEF Items
  <2>3. s \in [1 .. n -> Items(q)]
    <3> HIDE DEF s, n
    <3> QED BY <2>1, <2>2
  <2>4. \A x \in Items(q) : \E i \in 1 .. n : s[i] = x
    BY <1>1 DEF Items
  <2> QED
    BY <2>3, <2>4 DEF Surjection
<1>3. IsFiniteSet(1 .. n) /\ Cardinality(1 .. n) = n
  <2>1. 1 \in Int /\ n \in Int
    BY <1>1
  <2> HIDE DEF n
  <2>2. IsFiniteSet(1 .. n) /\ Cardinality(1 .. n) = IF 1 > n THEN 0 ELSE n - 1 + 1
    BY <2>1, FS_Interval
  <2> QED BY <1>1, <2>2
<1>4. IsFiniteSet(Items(q)) /\ Cardinality(Items(q)) <= n
  <2> HIDE DEF n, s
  <2> QED BY <1>2, <1>3, FS_Surjection
<1>5. ASSUME NEW p, NEW inv PROVE IsFiniteSet(Mine(q, p, inv))
  <2>1. Mine(q, p, inv) \in SUBSET Items(q)
    BY DEF Of, Mine
  <2> QED BY <1>4, <2>1, FS_Subset
<1>6. Items(q) \subseteq Records
  BY <1>1 DEF Items
<1> QED
  BY <1>4, <1>5, <1>6

\* A queue with fewer items keeps to the limits.
LEMMA FewerLimited ==
  ASSUME Bounds, NEW q, q.items \in Seq(Records), NEW q2, q2.items \in Seq(Records),
         Limited(q), Items(q2) \subseteq Items(q), Len(q2.items) <= Len(q.items)
  PROVE  Limited(q2)
<1>1. Len(q2.items) <= MaxWorkspace
  BY DEF Limited, Bounds
<1>2. ASSUME NEW p, NEW inv PROVE Cardinality(Mine(q2, p, inv)) <= MaxInvocation
  <2> DEFINE S == Mine(q, p, inv)
             T == Mine(q2, p, inv)
  <2>1. T \in SUBSET S
    BY DEF Of, Mine
  <2>2. IsFiniteSet(S) /\ IsFiniteSet(T)
    BY FiniteItems
  <2>3. Cardinality(S) <= MaxInvocation
    BY DEF Limited
  <2> HIDE DEF S, T
  <2>4. Cardinality(T) <= Cardinality(S)
    BY <2>1, <2>2, FS_Subset
  <2>5. Cardinality(S) \in Nat /\ Cardinality(T) \in Nat
    BY <2>2, FS_CardinalityType
  <2>6. Cardinality(T) <= MaxInvocation
    BY <2>3, <2>4, <2>5 DEF Bounds
  <2> QED
    BY <2>6 DEF T
<1> QED
  BY <1>1, <1>2 DEF Limited

\* What is left at some places of a queue, in its order.
LEMMA RetainFacts ==
  ASSUME NEW s \in Seq(Records), NEW at \in SUBSET (1 .. Len(s))
  PROVE  LET r == Retain(s, at) IN
           /\ r \in Seq(Records) /\ Len(r) <= Len(s)
           /\ \A x : (\E k \in 1 .. Len(r) : r[k] = x) <=> (\E i \in at : s[i] = x)
           /\ Distinct(s) => Distinct(r)
           /\ Ordered(s) => Ordered(r)
<1> DEFINE r == Retain(s, at)
           n == Cardinality(at)
           N == Len(s)
<1>0. N \in Nat /\ \A i \in 1 .. N : s[i] \in Records
  OBVIOUS
<1>1. at \in SUBSET Int /\ IsFiniteSet(at) /\ n <= N
  <2>1. 1 \in Int /\ N \in Int
    BY <1>0
  <2> HIDE DEF N
  <2>2. IsFiniteSet(1 .. N) /\ Cardinality(1 .. N) = IF 1 > N THEN 0 ELSE N - 1 + 1
    BY <2>1, FS_Interval
  <2>3. Cardinality(1 .. N) = N
    BY <1>0, <2>2
  <2>4. at \in SUBSET (1 .. N)
    BY DEF N
  <2>5. IsFiniteSet(at) /\ n <= Cardinality(1 .. N)
    BY Zenon, <2>2, <2>4, FS_Subset
  <2> QED
    BY <2>3, <2>4, <2>5
<1>2. /\ n \in Nat
      /\ \A k \in 1 .. n : Nth(at, k) \in at
      /\ \A k, l \in 1 .. n : k < l => Nth(at, k) < Nth(at, l)
      /\ \A i \in at : \E k \in 1 .. n : Nth(at, k) = i
  BY <1>1, NthAscends
<1> HIDE DEF n
<1>3. r = [k \in 1 .. n |-> s[Nth(at, k)]]
  BY DEF Retain, n
<1>4. \A k \in 1 .. n : s[Nth(at, k)] \in Records
  BY Zenon, <1>0, <1>2
<1>5. r \in Seq(Records) /\ Len(r) = n /\ \A k \in 1 .. n : r[k] = s[Nth(at, k)]
  BY <1>2, <1>3, <1>4
<1> HIDE DEF r
<1>6. \A x : (\E k \in 1 .. n : r[k] = x) <=> (\E i \in at : s[i] = x)
  <2>1. ASSUME NEW k \in 1 .. n PROVE \E i \in at : s[i] = r[k]
    BY <1>2, <1>5
  <2>2. ASSUME NEW i \in at PROVE \E k \in 1 .. n : r[k] = s[i]
    <3>1. PICK k \in 1 .. n : Nth(at, k) = i
      BY <1>2
    <3> QED BY <1>5, <3>1
  <2> QED
    BY Zenon, <2>1, <2>2
<1>7. ASSUME Distinct(s) PROVE Distinct(r)
  <2> SUFFICES ASSUME NEW k \in 1 .. n, NEW l \in 1 .. n, r[k].id = r[l].id \/ r[k].origin = r[l].origin
               PROVE  k = l
    BY <1>5 DEF Distinct
  <2>1. Nth(at, k) \in 1 .. Len(s) /\ Nth(at, l) \in 1 .. Len(s)
    BY Zenon, <1>2
  <2>2. Nth(at, k) = Nth(at, l)
    BY <1>5, <1>7, <2>1 DEF Distinct
  <2>3. ~(k < l) /\ ~(l < k)
    <3>1. Nth(at, k) \in Int /\ ~(Nth(at, k) < Nth(at, l)) /\ ~(Nth(at, l) < Nth(at, k))
      BY <2>1, <2>2
    <3> QED BY <1>2, <3>1
  <2> QED
    BY <1>2, <2>3
<1>8. ASSUME Ordered(s) PROVE Ordered(r)
  <2> SUFFICES ASSUME NEW k \in 1 .. n, NEW l \in 1 .. n, k < l, ~r[k].edited, ~r[l].edited
               PROVE  r[k].id < r[l].id
    BY <1>5 DEF Ordered
  <2>1. Nth(at, k) \in 1 .. Len(s) /\ Nth(at, l) \in 1 .. Len(s) /\ Nth(at, k) < Nth(at, l)
    BY Zenon, <1>2
  <2> QED
    BY <1>5, <1>8, <2>1 DEF Ordered
<1> QED
  <2>1. Len(r) <= Len(s)
    BY <1>1, <1>5
  <2>2. \A x : (\E k \in 1 .. Len(r) : r[k] = x) <=> (\E i \in at : s[i] = x)
    BY <1>5, <1>6
  <2> QED BY <1>5, <1>7, <1>8, <2>1, <2>2 DEF r

\* q2 is q without some of its items.
Shrunk(q, q2) ==
  /\ Sound(q2) /\ q2.next = q.next
  /\ Items(q2) \subseteq Items(q)

\* remove: exactly the items with these ids go.
LEMMA RemoveFacts ==
  ASSUME Bounds, NEW q, Sound(q), NEW ids
  PROVE  /\ Shrunk(q, Remove(q, ids))
         /\ Items(Remove(q, ids)) = {x \in Items(q) : x.id \notin ids}
         /\ Remove(q, ids).nextDelivery = q.nextDelivery
<1> DEFINE s  == q.items
           at == {i \in DOMAIN s : s[i].id \notin ids}
           r  == Retain(s, at)
           q2 == [items |-> r, next |-> q.next, nextDelivery |-> q.nextDelivery]
<1>1. s \in Seq(Records) /\ DOMAIN s = 1 .. Len(s) /\ at \in SUBSET (1 .. Len(s))
  BY DEF Sound
<1>2. Remove(q, ids) = q2
  <2> HIDE DEF r
  <2>1. Remove(q, ids) = [q EXCEPT !.items = r]
    BY DEF Remove, r
  <2> QED
    BY <2>1 DEF Sound
<1>3. /\ r \in Seq(Records) /\ Len(r) <= Len(s)
      /\ \A x : (\E k \in 1 .. Len(r) : r[k] = x) <=> (\E i \in at : s[i] = x)
      /\ Distinct(r) /\ Ordered(r)
  <2>1. Distinct(s) /\ Ordered(s)
    BY DEF Sound
  <2> HIDE DEF s, at
  <2> QED
    BY Zenon, <1>1, <2>1, RetainFacts
<1>4. Items(q2) = {x \in Items(q) : x.id \notin ids}
  <2>1. Items(q2) = {r[k] : k \in 1 .. Len(r)}
    <3> HIDE DEF r
    <3> QED BY <1>3 DEF Items
  <2>2. Items(q) = {s[i] : i \in 1 .. Len(s)}
    BY <1>1 DEF Items
  <2>3. \A x : x \in Items(q2) <=> \E i \in at : s[i] = x
    <3> HIDE DEF r, at, q2
    <3> QED BY <1>3, <2>1
  <2>4. \A x : x \in Items(q) /\ x.id \notin ids <=> \E i \in at : s[i] = x
    BY <1>1, <2>2
  <2> HIDE DEF q2, at
  <2> QED
    BY <2>3, <2>4
<1>5. Limited(q2)
  <2>1. q2.items = r /\ Items(q2) \subseteq Items(q) /\ Limited(q)
    BY <1>4 DEF Sound
  <2> HIDE DEF q2, r
  <2> QED
    BY <1>1, <1>3, <2>1, FewerLimited
<1>6. Sound(q2) /\ q2.next = q.next /\ q2.nextDelivery = q.nextDelivery
  <2>1. \A x \in Items(q2) : x.id < q.next
    BY <1>4 DEF Sound
  <2>2. q.next \in Nat \ {0} /\ q.nextDelivery \in Nat \ {0}
    BY DEF Sound
  <2> HIDE DEF r
  <2> QED
    BY <1>3, <1>5, <2>1, <2>2 DEF Sound
<1> QED
  BY <1>2, <1>4, <1>6 DEF Shrunk

\* sort_by_key: the items of a set in the order of their ids.
LEMMA SortFacts ==
  ASSUME NEW S \in SUBSET Records, IsFiniteSet(S), \A x, y \in S : x.id = y.id => x = y
  PROVE  LET r == SortById(S) IN
           /\ r \in Seq(Records) /\ Len(r) <= Cardinality(S)
           /\ \A x : (\E k \in 1 .. Len(r) : r[k] = x) <=> x \in S
           /\ \A k, l \in 1 .. Len(r) : k < l => r[k].id < r[l].id
<1> DEFINE r   == SortById(S)
           ids == {x.id : x \in S}
           n   == Cardinality(ids)
           f   == [x \in S |-> x.id]
<1>1. ids \in SUBSET Int
  BY DEF Records
<1>2. f \in Surjection(S, ids)
  <2>1. f \in [S -> ids]
    OBVIOUS
  <2>2. \A i \in ids : \E x \in S : f[x] = i
    OBVIOUS
  <2> QED
    BY <2>1, <2>2 DEF Surjection
<1>3. IsFiniteSet(ids) /\ n <= Cardinality(S)
  <2> HIDE DEF ids, f
  <2> QED BY <1>2, FS_Surjection
<1> DEFINE At(k) == CHOOSE x \in S : x.id = Nth(ids, k)
<1>4. /\ n \in Nat
      /\ \A k \in 1 .. n : Nth(ids, k) \in ids
      /\ \A k, l \in 1 .. n : k < l => Nth(ids, k) < Nth(ids, l)
      /\ \A i \in ids : \E k \in 1 .. n : Nth(ids, k) = i
  <2> HIDE DEF ids
  <2> QED BY <1>1, <1>3, NthAscends
<1>5. r = [k \in 1 .. n |-> At(k)]
  BY DEF SortById
<1> HIDE DEF n, r
<1>6. ASSUME NEW k \in 1 .. n PROVE At(k) \in S /\ At(k).id = Nth(ids, k)
  <2>1. PICK x \in S : x.id = Nth(ids, k)
    BY Zenon, <1>4
  <2> QED BY <2>1
<1>7. ASSUME NEW x \in S PROVE \E k \in 1 .. n : At(k) = x
  <2>1. PICK k \in 1 .. n : Nth(ids, k) = x.id
    BY Zenon, <1>4
  <2>2. At(k) \in S /\ At(k).id = x.id
    BY Zenon, <1>6, <2>1
  <2> QED BY Zenon, <2>2
<1> HIDE DEF At, ids
<1>8. r \in Seq(Records) /\ Len(r) = n /\ \A k \in 1 .. n : r[k] = At(k)
  <2>1. \A k \in 1 .. n : At(k) \in Records
    BY <1>6
  <2> QED BY <1>4, <1>5, <2>1
<1>9. \A x : (\E k \in 1 .. n : r[k] = x) <=> x \in S
  BY <1>6, <1>7, <1>8
<1>10. ASSUME NEW k \in 1 .. n, NEW l \in 1 .. n, k < l PROVE r[k].id < r[l].id
  BY <1>4, <1>6, <1>8, <1>10
<1> QED
  BY <1>3, <1>8, <1>9, <1>10 DEF r

\* insert, of a new item: it joins the others, in the order of ids; and the queue it
\* was allocated from and the log agree on the result.
LEMMA InsertFacts ==
  ASSUME Bounds, NEW q, Sound(q), NEW item \in Records, item.id = q.next,
         \A x \in Items(q) : x.origin # item.origin, CanEnqueue(q, item.pane, item.inv)
  PROVE  LET q2 == Insert([q EXCEPT !.next = @ + 1], item) IN
           /\ q2 = Insert(q, item) /\ Sound(q2) /\ Items(q2) = Items(q) \cup {item}
<1> DEFINE S  == Items(q) \cup {item}
           r  == SortById(S)
           q2 == [items |-> r, next |-> q.next + 1, nextDelivery |-> q.nextDelivery]
<1>1. /\ q = [items |-> q.items, next |-> q.next, nextDelivery |-> q.nextDelivery]
      /\ q.items \in Seq(Records) /\ q.next \in Nat \ {0} /\ q.nextDelivery \in Nat \ {0}
      /\ \A x \in Items(q) : x.id < q.next
      /\ Distinct(q.items) /\ Limited(q)
  BY DEF Sound
<1>2. IsFiniteSet(Items(q)) /\ Cardinality(Items(q)) <= Len(q.items) /\ Items(q) \subseteq Records
  BY <1>1, FiniteItems
<1>3. {x \in Items(q) : x.id # item.id} = Items(q)
  <2>1. \A x \in Items(q) : x.id \in Nat /\ x.id # item.id
    BY <1>1, <1>2 DEF Records
  <2> QED BY <2>1
<1>4. Insert(q, item) = q2 /\ Insert([q EXCEPT !.next = @ + 1], item) = q2
  <2> DEFINE q1 == [items |-> q.items, next |-> q.next + 1, nextDelivery |-> q.nextDelivery]
  <2>1. [q EXCEPT !.next = @ + 1] = q1
    BY <1>1
  <2>2. Items(q1) = Items(q)
    BY DEF Items
  <2>3. Beyond(q.next, item.id) = q.next + 1 /\ Beyond(q.next + 1, item.id) = q.next + 1
    BY <1>1 DEF Beyond
  <2>4. {x \in Items(q1) : x.id # item.id} \cup {item} = S
    BY <1>3, <2>2
  <2> HIDE DEF r
  <2>5. Insert(q1, item) = q2
    <3>1. Insert(q1, item) = [q1 EXCEPT !.items = r, !.next = Beyond(q1.next, item.id)]
      <4> HIDE DEF q1
      <4> QED BY Zenon, <2>4 DEF Insert, r
    <3> QED BY Zenon, <2>3, <3>1
  <2>6. Insert(q, item) = q2
    <3>1. Insert(q, item) = [q EXCEPT !.items = r, !.next = Beyond(q.next, item.id)]
      BY Zenon, <1>3 DEF Insert, r
    <3> QED BY Zenon, <1>1, <2>3, <3>1
  <2> QED BY <2>1, <2>5, <2>6
<1>5. \A x, y \in S : x.id = y.id \/ x.origin = y.origin => x = y
  <2>1. \A x, y \in Items(q) : x.id = y.id \/ x.origin = y.origin => x = y
    BY <1>1 DEF Items, Distinct
  <2>2. \A x \in Items(q) : x.id # item.id /\ x.origin # item.origin
    BY <1>1, <1>2 DEF Records
  <2> QED BY <2>1, <2>2
<1>6. IsFiniteSet(S) /\ Cardinality(S) = Cardinality(Items(q)) + 1 /\ S \in SUBSET Records
  <2>1. item \notin Items(q)
    BY <1>3
  <2> QED BY <1>2, <2>1, FS_AddElement
<1> HIDE DEF S
<1>7. /\ r \in Seq(Records) /\ Len(r) <= Cardinality(S)
      /\ \A x : (\E k \in 1 .. Len(r) : r[k] = x) <=> x \in S
      /\ \A k, l \in 1 .. Len(r) : k < l => r[k].id < r[l].id
  BY <1>5, <1>6, SortFacts
<1> HIDE DEF r
<1>8. Items(q2) = S
  BY <1>7 DEF Items
<1>9. Distinct(r) /\ Ordered(r)
  <2>1. ASSUME NEW k \in 1 .. Len(r), NEW l \in 1 .. Len(r), r[k].id = r[l].id \/ r[k].origin = r[l].origin
        PROVE  k = l
    <3>1. r[k] \in S /\ r[l] \in S
      BY <1>7
    <3>2. r[k].id = r[l].id /\ r[k].id \in Nat
      <4>1. r[k] = r[l]
        BY <1>5, <2>1, <3>1
      <4>2. r[k] \in Records
        BY <1>6, <3>1
      <4> QED BY <4>1, <4>2 DEF Records
    <3>3. ~(r[k].id < r[l].id) /\ ~(r[l].id < r[k].id)
      BY <3>2
    <3>4. ~(k < l) /\ ~(l < k)
      BY <1>7, <3>3
    <3> QED BY <1>7, <3>4
  <2> QED BY <1>7, <2>1 DEF Distinct, Ordered
<1>10. Limited(q2)
  <2>1. Len(q.items) < MaxWorkspace /\ Cardinality(Mine(q, item.pane, item.inv)) < MaxInvocation
    BY DEF CanEnqueue, Mine
  <2>2. Len(r) <= MaxWorkspace
    <3>1. Cardinality(Items(q)) \in Nat /\ Len(q.items) \in Nat /\ Len(r) \in Nat
      BY <1>1, <1>2, <1>7, FS_CardinalityType
    <3> QED BY <1>2, <1>6, <1>7, <2>1, <3>1 DEF Bounds
  <2>3. ASSUME NEW p, NEW inv PROVE Cardinality(Mine(q2, p, inv)) <= MaxInvocation
    <3>1. CASE p = item.pane /\ inv = item.inv
      <4>1. Mine(q2, p, inv) = Mine(q, p, inv) \cup {item}
        BY <1>8, <3>1 DEF S, Mine, Of
      <4>2. IsFiniteSet(Mine(q, p, inv))
        BY <1>1, FiniteItems
      <4>3. Cardinality(Mine(q, p, inv)) \in Nat
        BY <4>2, FS_CardinalityType
      <4>4. Cardinality(Mine(q2, p, inv)) =
              IF item \in Mine(q, p, inv) THEN Cardinality(Mine(q, p, inv))
              ELSE Cardinality(Mine(q, p, inv)) + 1
        BY <4>1, <4>2, FS_AddElement
      <4> QED BY <2>1, <3>1, <4>3, <4>4 DEF Bounds
    <3>2. CASE ~(p = item.pane /\ inv = item.inv)
      <4>1. Mine(q2, p, inv) = Mine(q, p, inv)
        BY <1>8, <3>2 DEF S, Mine, Of
      <4> QED BY <1>1, <4>1 DEF Limited
    <3> QED BY <3>1, <3>2
  <2> QED BY <2>2, <2>3 DEF Limited
<1>11. Sound(q2)
  <2>1. \A x \in Items(q2) : x.id < q.next + 1
    <3>1. \A x \in Items(q) : x.id \in Nat
      BY <1>2 DEF Records
    <3> QED BY <1>1, <1>8, <3>1 DEF S
  <2> QED BY <1>1, <1>7, <1>9, <1>10, <2>1 DEF Sound
<1> QED
  BY <1>4, <1>8, <1>11 DEF S

\* The item that replaces an old one.
Renewed(q, old, item) ==
  /\ item \in Records /\ item.id = q.next
  /\ item.pane = old.pane /\ item.inv = old.inv /\ item.origin = old.origin
  /\ item.edited = TRUE

\* replace: the new item, with a new id and the old request, in the old place.
LEMMA ReplaceFacts ==
  ASSUME Bounds, NEW q, Sound(q), NEW old \in Items(q), NEW item, Renewed(q, old, item)
  PROVE  LET q2 == Replace([q EXCEPT !.next = @ + 1], old.id, item) IN
           /\ q2 = ReplayReplaced(q, old.id, item) /\ Sound(q2)
           /\ Items(q2) = (Items(q) \ {old}) \cup {item}
<1> DEFINE s  == q.items
           n  == Len(s)
           r  == [i \in 1 .. n |-> IF s[i].id = old.id THEN item ELSE s[i]]
           q2 == [items |-> r, next |-> q.next + 1, nextDelivery |-> q.nextDelivery]
<1>1. /\ q = [items |-> s, next |-> q.next, nextDelivery |-> q.nextDelivery]
      /\ s \in Seq(Records) /\ q.next \in Nat \ {0} /\ q.nextDelivery \in Nat \ {0}
      /\ \A x \in Items(q) : x.id < q.next
      /\ Distinct(s) /\ Ordered(s) /\ Limited(q)
      /\ n \in Nat /\ DOMAIN s = 1 .. n
  BY DEF Sound
<1>2. Items(q) \subseteq Records
  BY <1>1, FiniteItems
<1>3. q.next \in Nat /\ item.id = q.next
  BY <1>1 DEF Renewed
<1>4. item.edited = TRUE
  BY DEF Renewed
<1>5. item \in Records /\ item.origin = old.origin /\ item.pane = old.pane /\ item.inv = old.inv
  BY DEF Renewed
<1>6. PICK o \in 1 .. n : s[o] = old
  BY <1>1 DEF Items
<1>7. \A i \in 1 .. n : s[i] \in Records /\ s[i] \in Items(q) /\ (s[i].id = old.id <=> i = o)
  BY <1>1, <1>6 DEF Distinct, Items
<1>8. Items(q) = {s[i] : i \in 1 .. n}
  BY <1>1 DEF Items
<1>9. Distinct(s) <=> \A i, j \in 1 .. n : s[i].id = s[j].id \/ s[i].origin = s[j].origin => i = j
  BY DEF Distinct
<1>10. Ordered(s) <=>
        \A i, j \in 1 .. n : i < j /\ ~s[i].edited /\ ~s[j].edited => s[i].id < s[j].id
  BY DEF Ordered
<1>11. n <= MaxWorkspace
  BY <1>1 DEF Limited
<1>12. \A i \in 1 .. n : r[i] = IF i = o THEN item ELSE s[i]
  BY <1>7
<1>13. r \in Seq(Records) /\ Len(r) = n /\ \A i \in 1 .. n : r[i] = IF i = o THEN item ELSE s[i]
  <2> HIDE DEF s, n
  <2>1. \A i \in 1 .. n : (IF s[i].id = old.id THEN item ELSE s[i]) \in Records
    BY <1>5, <1>7
  <2>2. n \in Nat
    BY <1>1
  <2>3. r \in [1 .. n -> Records]
    BY <2>1
  <2> QED BY <1>12, <2>2, <2>3
<1>14. Replace([q EXCEPT !.next = @ + 1], old.id, item) = q2 /\ ReplayReplaced(q, old.id, item) = q2
  <2> DEFINE q1 == [items |-> s, next |-> q.next + 1, nextDelivery |-> q.nextDelivery]
  <2>1. [q EXCEPT !.next = @ + 1] = q1
    BY <1>1
  <2>2. Beyond(q.next, item.id) = q.next + 1 /\ Beyond(q.next + 1, item.id) = q.next + 1
    BY <1>3 DEF Beyond
  <2>3. DOMAIN s = 1 .. n
    BY <1>1
  <2> HIDE DEF s, n
  <2>4. Replace(q1, old.id, item) = q2
    <3>1. q1.items = s /\ q1.next = q.next + 1
      OBVIOUS
    <3> HIDE DEF q1
    <3>2. Replace(q1, old.id, item) = [q1 EXCEPT !.items = r, !.next = q.next + 1]
      BY Zenon, <2>3, <2>2, <3>1 DEF Replace
    <3> HIDE DEF r
    <3> QED BY Zenon, <3>2 DEF q1
  <2>5. Replace(q, old.id, item) = q2
    <3>1. q.items = s
      BY DEF s
    <3>2. Replace(q, old.id, item) = [q EXCEPT !.items = r, !.next = q.next + 1]
      BY <2>3, <2>2, <3>1 DEF Replace
    <3> HIDE DEF r
    <3> QED BY Zenon, <1>1, <3>2
  <2>6. ReplayReplaced(q, old.id, item) = q2
    <3> HIDE DEF q2
    <3> QED BY <2>5 DEF ReplayReplaced
  <2> QED BY <2>1, <2>4, <2>6
<1> HIDE DEF r, s, n
<1>15. Items(q2) = (Items(q) \ {old}) \cup {item}
  <2>1. Items(q2) = {r[i] : i \in 1 .. n}
    BY <1>13 DEF Items
  <2>2. Items(q) = {s[i] : i \in 1 .. n}
    BY <1>8
  <2>3. \A i \in 1 .. n : i # o => s[i] # old
    BY <1>6, <1>7
  <2> HIDE DEF q2
  <2>4. ASSUME NEW x \in Items(q2) PROVE x \in (Items(q) \ {old}) \cup {item}
    BY <1>13, <2>1, <2>2, <2>3
  <2>5. ASSUME NEW x \in Items(q), x # old PROVE x \in Items(q2)
    <3>1. PICK i \in 1 .. n : s[i] = x
      BY <2>2
    <3>2. i # o
      BY <1>6, <2>5, <3>1
    <3> QED BY <1>13, <2>1, <3>1, <3>2
  <2>6. item \in Items(q2)
    BY <1>13, <2>1
  <2> QED BY <2>4, <2>5, <2>6
<1>16. Distinct(r) /\ Ordered(r)
  <2>1. \A i \in 1 .. n : s[i].id # item.id
    <3>1. \A i \in 1 .. n : s[i].id \in Nat /\ s[i].id < q.next
      BY <1>1, <1>7 DEF Records
    <3> QED BY <1>3, <3>1
  <2>2. \A i \in 1 .. n : i # o => s[i].origin # item.origin
    BY <1>1, <1>5, <1>6, <1>9
  <2>3. ASSUME NEW i \in 1 .. n, NEW j \in 1 .. n, r[i].id = r[j].id \/ r[i].origin = r[j].origin
        PROVE  i = j
    <3>1. CASE i # o /\ j # o
      BY <1>1, <1>13, <1>9, <2>3, <3>1
    <3>2. CASE i = o \/ j = o
      <4>1. CASE i = o /\ j # o
        BY <1>13, <2>1, <2>2, <2>3, <4>1
      <4>2. CASE j = o /\ i # o
        BY <1>13, <2>1, <2>2, <2>3, <4>2
      <4> QED BY <3>2, <4>1, <4>2
    <3> QED BY <3>1, <3>2
  <2>4. ASSUME NEW i \in 1 .. n, NEW j \in 1 .. n, i < j, ~r[i].edited, ~r[j].edited
        PROVE  r[i].id < r[j].id
    <3>1. i # o /\ j # o
      BY <1>4, <1>13, <2>4
    <3> QED BY <1>1, <1>13, <1>10, <2>4, <3>1
  <2> QED BY <1>13, <2>3, <2>4 DEF Distinct, Ordered
<1>17. Limited(q2)
  <2>1. Len(r) <= MaxWorkspace
    BY <1>13, <1>11
  <2>2. ASSUME NEW p, NEW inv PROVE Cardinality(Mine(q2, p, inv)) <= MaxInvocation
    <3> DEFINE M == Mine(q, p, inv)
    <3>0. IsFiniteSet(M) /\ Cardinality(M) <= MaxInvocation
      BY <1>1, FiniteItems DEF Limited
    <3>1. CASE p = old.pane /\ inv = old.inv
      <4>1. Mine(q2, p, inv) = (M \ {old}) \cup {item} /\ old \in M
        BY <1>5, <1>15, <3>1 DEF Mine, Of
      <4>2. item \notin M \ {old}
        <5>1. \A x \in Items(q) : x.id \in Nat /\ x.id # item.id
          <6>1. \A x \in Items(q) : x.id \in Nat /\ x.id < q.next
            BY <1>1, <1>2 DEF Records
          <6> QED BY <1>3, <6>1
        <5>2. item \notin Items(q)
          BY <5>1
        <5> QED BY <5>2 DEF Mine, Of
      <4> HIDE DEF M
      <4>3. IsFiniteSet(M \ {old}) /\ Cardinality(M \ {old}) = Cardinality(M) - 1
        BY <3>0, <4>1, FS_RemoveElement
      <4>4. Cardinality((M \ {old}) \cup {item}) = Cardinality(M \ {old}) + 1
        BY <4>2, <4>3, FS_AddElement
      <4>5. Cardinality(M) \in Nat
        BY <3>0, FS_CardinalityType
      <4>6. Cardinality(Mine(q2, p, inv)) = Cardinality(M)
        <5> HIDE DEF q2
        <5> QED BY <4>1, <4>3, <4>4, <4>5
      <4> QED BY <3>0, <4>6
    <3>2. CASE ~(p = old.pane /\ inv = old.inv)
      <4>1. Mine(q2, p, inv) = M
        BY <1>5, <1>15, <3>2 DEF Mine, Of
      <4> QED BY <3>0, <4>1
    <3> QED BY <3>1, <3>2
  <2> QED BY <2>1, <2>2 DEF Limited
<1>18. Sound(q2)
  <2>1. \A x \in Items(q2) : x.id < q.next + 1
    <3>1. \A x \in Items(q) : x.id \in Nat
      BY <1>2 DEF Records
    <3>2. \A x \in Items(q) : x.id < q.next + 1
      BY <1>1, <1>3, <3>1
    <3>3. item.id < q.next + 1
      BY <1>3
    <3> QED BY <1>15, <3>2, <3>3
  <2> QED BY <1>1, <1>13, <1>16, <1>17, <2>1 DEF Sound
<1> QED
  BY <1>14, <1>15, <1>18

-----------------------------------------------------------------------------
(* The inductive invariant.                                                *)

\* Process groups, and groups or None.
Groups == 1 .. MaxPid
Pids == 0 .. MaxPid

\* What the server and the kernel know of a Pane.
PaneRecords ==
  [live : BOOLEAN, agent : BOOLEAN, pid : Pids, fg : Pids, own : Groups, shell : Groups,
   alive : SUBSET Groups, last : Groups, watch : Pids, dead : Pids, verdicts : Seq(Groups)]

\* A closed Pane has no agent.
PaneOK(pane) ==
  /\ pane \in PaneRecords /\ pane.own \in pane.alive
  /\ pane.live = FALSE => pane.agent = FALSE

PanesOK == panes \in [Panes -> PaneRecords] /\ \A p \in Panes : PaneOK(panes[p])

\* The requests that wait were asked for and have not been typed.
Waiting(q, a, g) == \A x \in Items(q) : x.origin \in 1 .. a /\ x.origin \notin g

\* The inductive invariant.  A request that was typed is not in the live queue, and
\* one in the live queue is there once; what is on disk may lag behind, and is harmless
\* because a restart drops all of it.
IInv ==
  /\ Sound(queue) /\ recorded = queue /\ Sound(written)
  /\ failed \in BOOLEAN /\ PanesOK
  /\ asked \in 0 .. MaxAsked /\ given \subseteq 1 .. asked
  /\ Waiting(queue, asked, given)
  /\ ReadyReachesItsInvocation

\* What every step has to show.
Kept == IInv' /\ FirstDelivery /\ EarliestDelivered

\* A change of the live queue that the log follows.
Fine(w) == w.r = w.q /\ Shrunk(queue, w.q)

\* Without a change the queue is its own remainder.
LEMMA NowFine ==
  ASSUME IInv
  PROVE  Fine(Now) /\ Now.q = queue
BY DEF IInv, Now, Fine, Shrunk

\* cancel_stale_instructions and its like.
LEMMA CancelledFine ==
  ASSUME Bounds, NEW w, Fine(w), NEW items
  PROVE  /\ Fine(Cancelled(w, items))
         /\ Items(Cancelled(w, items).q) = {x \in Items(w.q) : x.id \notin {y.id : y \in items}}
<1> DEFINE ids == {y.id : y \in items}
           v   == Cancelled(w, items)
<1>1. v.q = Remove(w.q, ids) /\ v.r = v.q
  BY DEF Cancelled, Fine
<1>2. Sound(w.q) /\ w.q.next = queue.next /\ Items(w.q) \subseteq Items(queue)
  BY DEF Fine, Shrunk
<1> HIDE DEF ids, v
<1>3. Shrunk(w.q, Remove(w.q, ids)) /\ Items(Remove(w.q, ids)) = {x \in Items(w.q) : x.id \notin ids}
  BY <1>2, RemoveFacts
<1>4. Fine(v) /\ Items(v.q) = {x \in Items(w.q) : x.id \notin ids}
  BY <1>1, <1>2, <1>3 DEF Fine, Shrunk
<1> QED
  BY <1>4 DEF v, ids

\* The next delivery id, live and replayed.
LEMMA DeliveryIdFine ==
  ASSUME Bounds, NEW w, Fine(w)
  PROVE  LET d  == w.q.nextDelivery
             q2 == [w.q EXCEPT !.nextDelivery = Saturated(d + 1)]
         IN  /\ [w.r EXCEPT !.nextDelivery = Saturated(Beyond(@, d))] = q2
             /\ Shrunk(queue, q2) /\ Items(q2) = Items(w.q)
<1> DEFINE q  == w.q
           d  == q.nextDelivery
           n  == Saturated(d + 1)
           q2 == [items |-> q.items, next |-> q.next, nextDelivery |-> n]
<1>1. /\ q = [items |-> q.items, next |-> q.next, nextDelivery |-> d]
      /\ q.items \in Seq(Records) /\ q.next \in Nat \ {0} /\ d \in Nat \ {0}
      /\ \A x \in Items(q) : x.id < q.next
      /\ Distinct(q.items) /\ Ordered(q.items) /\ Limited(q)
      /\ q.next = queue.next /\ Items(q) \subseteq Items(queue)
  BY DEF Fine, Shrunk, Sound
<1>2. Beyond(d, d) = d + 1
  BY <1>1 DEF Beyond
<1>3. n \in Nat \ {0}
  BY <1>1 DEF Saturated, Bounds
<1> HIDE DEF n
<1>4. [q EXCEPT !.nextDelivery = n] = q2
  BY <1>1
<1>5. w.r = q
  BY DEF Fine
<1>6. [w.r EXCEPT !.nextDelivery = Saturated(Beyond(@, d))] = q2
  <2>1. Saturated(Beyond(w.r.nextDelivery, d)) = n
    BY <1>2, <1>5 DEF n
  <2> HIDE DEF d
  <2> QED BY <1>4, <1>5, <2>1
<1>7. Items(q2) = Items(q) /\ \A p, inv : Mine(q2, p, inv) = Mine(q, p, inv)
  BY DEF Items, Mine, Of
<1>8. Limited(q2)
  BY <1>1, <1>7 DEF Limited
<1>9. Shrunk(queue, q2)
  BY <1>1, <1>3, <1>7, <1>8 DEF Shrunk, Sound
<1> QED
  BY <1>4, <1>6, <1>7, <1>9 DEF n

\* deliver_instruction: the item leaves when the Pane took it.
LEMMA AttemptFine ==
  ASSUME Bounds, NEW w, Fine(w), NEW item \in Items(w.q), NEW ok \in BOOLEAN
  PROVE  LET v == Attempt(w, item, ok) IN
           /\ Fine(v) /\ Items(v.q) \subseteq Items(w.q)
           /\ ok => \A x \in Items(v.q) : x.id # item.id
<1> DEFINE d  == w.q.nextDelivery
           q2 == [w.q EXCEPT !.nextDelivery = Saturated(d + 1)]
           r2 == [w.r EXCEPT !.nextDelivery = Saturated(Beyond(@, d))]
           v  == Attempt(w, item, ok)
<1>1. r2 = q2 /\ Shrunk(queue, q2) /\ Items(q2) = Items(w.q)
  BY DeliveryIdFine
<1>2. /\ v.q = IF ok THEN Remove(q2, {item.id}) ELSE q2
      /\ v.r = IF ok THEN Remove(r2, {item.id}) ELSE r2
  BY DEF Attempt
<1> HIDE DEF q2, r2, v
<1>3. Sound(q2) /\ q2.next = queue.next /\ Items(q2) \subseteq Items(queue)
  BY <1>1 DEF Shrunk
<1>4. CASE ok
  <2>1. /\ Shrunk(q2, Remove(q2, {item.id}))
        /\ Items(Remove(q2, {item.id})) = {x \in Items(q2) : x.id \notin {item.id}}
    BY <1>3, RemoveFacts
  <2>2. v.q = Remove(q2, {item.id}) /\ v.r = v.q
    BY <1>1, <1>2, <1>4
  <2>3. Fine(v) /\ Items(v.q) \subseteq Items(w.q) /\ \A x \in Items(v.q) : x.id # item.id
    BY Zenon, <1>1, <1>3, <2>1, <2>2 DEF Fine, Shrunk
  <2> QED BY <2>3 DEF v
<1>5. CASE ~ok
  <2>1. Fine(v) /\ Items(v.q) = Items(w.q)
    BY <1>1, <1>2, <1>5 DEF Fine
  <2> QED BY <1>5, <2>1 DEF v
<1> QED
  BY <1>4, <1>5

\* A step that delivers nothing.
LEMMA QuietKept ==
  ASSUME Bounds, IInv, Quiet, Sound(queue'), recorded' = queue', Sound(written'),
         failed' \in BOOLEAN, PanesOK', asked' \in asked .. MaxAsked,
         Waiting(queue', asked', given)
  PROVE  Kept
<1>1. sent' = {} /\ given' = given
  BY DEF Quiet
<1>2. FirstDelivery /\ EarliestDelivered /\ ReadyReachesItsInvocation'
  BY <1>1 DEF FirstDelivery, EarliestDelivered, ReadyReachesItsInvocation
<1>3. asked' \in 0 .. MaxAsked /\ given' \subseteq 1 .. asked'
  BY <1>1 DEF IInv, Bounds
<1>4. Waiting(queue', asked', given')
  BY <1>1
<1> QED
  BY <1>2, <1>3, <1>4 DEF Kept, IInv, Waiting

\* The requests of what is left of the queue still wait.
LEMMA FineWaits ==
  ASSUME IInv, NEW w, Fine(w)
  PROVE  Waiting(w.q, asked, given) /\ Sound(w.q) /\ w.r = w.q
BY DEF IInv, Fine, Shrunk, Waiting

\* A step that drops items, and delivers nothing.
LEMMA DropKept ==
  ASSUME Bounds, IInv, NEW w, Fine(w), Publish(w), PanesOK', Elsewhere, Quiet
  PROVE  Kept
<1>1. queue' = w.q /\ recorded' = queue' /\ Sound(queue') /\ Waiting(queue', asked, given)
  BY FineWaits DEF Publish
<1>2. written' = written /\ failed' = failed /\ asked' = asked
  BY DEF Elsewhere
<1>3. Sound(written') /\ failed' \in BOOLEAN /\ asked' \in asked .. MaxAsked
  BY <1>2 DEF IInv, Bounds
<1>4. Waiting(queue', asked', given)
  BY <1>1, <1>2
<1> QED
  BY <1>1, <1>3, <1>4, QuietKept

\* A step of the Panes alone.
LEMMA PanesKept ==
  ASSUME Bounds, IInv, UNCHANGED <<queue, recorded>>, PanesOK', Elsewhere, Quiet
  PROVE  Kept
<1>1. Publish(Now) /\ Fine(Now)
  BY NowFine DEF Publish, Now
<1> QED
  BY <1>1, DropKept

\* One Pane changes.
LEMMA PaneSet ==
  ASSUME IInv, NEW p \in Panes, NEW pane, PaneOK(pane), SetPane(p, pane)
  PROVE  PanesOK'
<1>1. panes \in [Panes -> PaneRecords] /\ \A r \in Panes : PaneOK(panes[r])
  BY DEF IInv, PanesOK
<1>2. panes' = [panes EXCEPT ![p] = pane] /\ pane \in PaneRecords
  BY DEF SetPane, PaneOK
<1>3. panes' \in [Panes -> PaneRecords]
  BY <1>1, <1>2
<1>4. ASSUME NEW r \in Panes PROVE PaneOK(panes'[r])
  <2>1. panes'[r] = IF r = p THEN pane ELSE panes[r]
    BY <1>1, <1>2
  <2> QED BY <1>1, <2>1
<1> QED
  BY Zenon, <1>3, <1>4 DEF PanesOK, PaneOK

\* A delivery to a Pane.  It is of a request that still waited; a ready event delivers
\* it to its own group, ahead of none that came before it.
LEMMA DeliveryKept ==
  ASSUME Bounds, IInv, NEW w, Fine(w), NEW item \in Items(w.q), NEW ok \in BOOLEAN,
         NEW pane, NEW by, Deliver(w, {item}, ok, pane, by), PanesOK', Elsewhere,
         by = "ready" =>
           /\ pane.own = item.inv
           /\ item.edited = FALSE =>
                \A x \in Items(w.q) :
                  x.pane = item.pane /\ x.inv = item.inv /\ x.edited = FALSE => x.id >= item.id
  PROVE  Kept
<1> DEFINE v == Attempt(w, item, ok)
           d == Delivery(w, item, ok, pane, by)
<1>1. (CHOOSE x \in {item} : TRUE) = item
  OBVIOUS
<1>2. queue' = v.q /\ recorded' = v.r
  BY <1>1 DEF Deliver, Publish
<1>3. sent' = {d} /\ given' = given \cup (IF ok THEN {item.origin} ELSE {})
  BY DEF Deliver
<1>4. d.item = item /\ d.ok = ok /\ d.to = pane.own /\ d.by = by
  BY DEF Delivery
<1>5. /\ Fine(v) /\ Items(v.q) \subseteq Items(w.q)
      /\ ok => \A x \in Items(v.q) : x.id # item.id
  BY AttemptFine
<1> HIDE DEF v, d
<1>6. Sound(queue') /\ recorded' = queue' /\ Waiting(queue', asked, given)
  BY <1>2, <1>5, FineWaits
<1>7. Waiting(w.q, asked, given) /\ Sound(w.q)
  BY FineWaits
<1>8. item.origin \in 1 .. asked /\ item.origin \notin given
  BY <1>7 DEF Waiting
<1>9. written' = written /\ failed' = failed /\ asked' = asked
  BY DEF Elsewhere
<1>10. given' \subseteq 1 .. asked'
  BY Zenon, <1>3, <1>8, <1>9 DEF IInv
<1>11. Waiting(queue', asked', given')
  <2> SUFFICES ASSUME NEW x \in Items(queue')
               PROVE  x.origin \in 1 .. asked' /\ x.origin \notin given'
    BY DEF Waiting
  <2>1. x.origin \in 1 .. asked /\ x.origin \notin given /\ x \in Items(w.q)
    BY <1>2, <1>5, <1>6 DEF Waiting
  <2>2. ok => x.origin # item.origin
    <3>1. \A y, z \in Items(w.q) : y.origin = z.origin => y = z
      BY <1>7 DEF Sound, Distinct, Items
    <3> QED BY SMTT(20), <1>2, <1>5, <2>1, <3>1
  <2> QED BY <1>3, <1>9, <2>1, <2>2
<1>12. FirstDelivery
  BY <1>3, <1>4, <1>8 DEF FirstDelivery
<1>13. EarliestDelivered
  <2> SUFFICES ASSUME by = "ready", ~item.edited, NEW x \in Items(queue'),
                      x.pane = item.pane, x.inv = item.inv, ~x.edited
               PROVE  x.id >= item.id
    BY <1>3, <1>4 DEF EarliestDelivered
  <2>1. x \in Items(w.q)
    BY <1>2, <1>5
  <2>2. Items(w.q) \subseteq Records
    BY <1>7, FiniteItems DEF Sound
  <2>3. x.edited = FALSE /\ item.edited = FALSE
    BY <2>1, <2>2 DEF Records
  <2> QED BY <2>1, <2>3
<1>14. ReadyReachesItsInvocation'
  BY <1>3, <1>4 DEF ReadyReachesItsInvocation
<1> QED
  BY <1>6, <1>9, <1>10, <1>11, <1>12, <1>13, <1>14 DEF Kept, IInv, Waiting

\* What next_for promises of the item it finds.
FirstOf(q, p, inv, item) ==
  /\ NextFor(q, p, inv) = {item} /\ item \in Items(q)
  /\ item.pane = p /\ item.inv = inv
  /\ item.edited = FALSE =>
       \A x \in Items(q) : x.pane = p /\ x.inv = inv /\ x.edited = FALSE => x.id >= item.id

\* next_for: the first of the invocation's items; what was never replaced comes in
\* the order it was given.
LEMMA NextForFacts ==
  ASSUME NEW q, Sound(q), NEW p, NEW inv, NEW item \in NextFor(q, p, inv)
  PROVE  FirstOf(q, p, inv, item)
<1> DEFINE s    == q.items
           mine == {i \in DOMAIN s : s[i].pane = p /\ s[i].inv = inv}
           low  == {j \in mine : \A k \in mine : j <= k}
<1>1. s \in Seq(Records) /\ DOMAIN s = 1 .. Len(s) /\ Len(s) \in Nat /\ Ordered(s)
      /\ \A i \in 1 .. Len(s) : s[i] \in Records
  BY DEF Sound
<1>2. NextFor(q, p, inv) = {s[i] : i \in low}
  BY DEF NextFor
<1>3. Items(q) = {s[i] : i \in 1 .. Len(s)}
  BY <1>1 DEF Items
<1>4. PICK i \in low : item = s[i]
  BY <1>2
<1>5. i \in mine /\ i \in 1 .. Len(s) /\ \A k \in mine : i <= k /\ k \in Int
  BY <1>1, <1>4
<1>6. low = {i}
  <2>1. ASSUME NEW j \in low PROVE j = i
    BY <1>5
  <2> QED BY <1>4, <2>1
<1>7. NextFor(q, p, inv) = {item}
  BY <1>2, <1>4, <1>6
<1>8. item \in Items(q) /\ item.pane = p /\ item.inv = inv
  BY <1>3, <1>4, <1>5
<1>9. ASSUME item.edited = FALSE, NEW x \in Items(q), x.pane = p, x.inv = inv, x.edited = FALSE
      PROVE  x.id >= item.id
  <2>1. PICK k \in 1 .. Len(s) : x = s[k]
    BY <1>3
  <2>2. k \in mine
    BY <1>1, <1>9, <2>1
  <2>3. i <= k
    BY <1>5, <2>2
  <2>4. x.id \in Nat /\ item.id \in Nat
    BY Zenon, <1>1, <1>4, <1>5, <2>1 DEF Records
  <2>5. CASE i = k
    BY <1>4, <2>1, <2>4, <2>5
  <2>6. CASE i < k
    <3>1. s[i].id < s[k].id
      BY <1>1, <1>4, <1>5, <1>9, <2>1, <2>6 DEF Ordered
    <3> QED BY <1>4, <2>1, <2>4, <3>1
  <2> QED BY <1>5, <2>3, <2>5, <2>6
<1> QED
  BY Zenon, <1>7, <1>8, <1>9 DEF FirstOf

-----------------------------------------------------------------------------
(* The steps.                                                              *)

\* The invocation of a Pane is a group, or 0.
LEMMA InvocationType ==
  ASSUME Bounds, NEW pane, PaneOK(pane)
  PROVE  Invocation(pane) \in Pids
<1>1. pane.pid \in Pids /\ pane.fg \in Pids
  BY DEF PaneOK, PaneRecords
<1>2. 0 \in Pids
  BY DEF Pids, Bounds
<1> QED
  BY <1>1, <1>2 DEF Invocation

\* instruction_command: add.
LEMMA AddKept == ASSUME Bounds, IInv, NEW p \in Panes, Add(p) PROVE Kept
<1> DEFINE inv  == Invocation(panes[p])
           item == Item(queue.next, p, inv, asked + 1, FALSE)
           q2   == Insert([queue EXCEPT !.next = @ + 1], item)
<1>1. /\ asked < MaxAsked /\ inv # 0 /\ CanEnqueue(queue, p, inv)
      /\ queue' = q2 /\ recorded' = Insert(recorded, item)
      /\ asked' = asked + 1 /\ UNCHANGED <<written, failed, panes>> /\ Quiet
  BY DEF Add, Publish
<1>2. Sound(queue) /\ recorded = queue /\ asked \in Nat /\ Waiting(queue, asked, given)
  BY DEF IInv
<1>3. inv \in 1 .. MaxPid
  <2>1. inv \in Pids
    BY InvocationType DEF IInv, PanesOK
  <2> HIDE DEF inv
  <2> QED BY <1>1, <2>1 DEF Pids, Bounds
<1> HIDE DEF inv
<1>4. queue.next \in Nat
  BY <1>2 DEF Sound
<1>5. item \in Records
  BY <1>2, <1>3, <1>4 DEF Item, Records
<1>6. item.id = queue.next /\ item.pane = p /\ item.inv = inv /\ item.origin = asked + 1
  BY DEF Item
<1> HIDE DEF item
<1>7. \A x \in Items(queue) : x.origin # item.origin
  BY <1>2, <1>6 DEF Waiting
<1>8. q2 = Insert(queue, item) /\ Sound(q2) /\ Items(q2) = Items(queue) \cup {item}
  BY <1>1, <1>2, <1>5, <1>6, <1>7, InsertFacts
<1> HIDE DEF q2
<1>9. Sound(queue') /\ recorded' = queue'
  BY <1>1, <1>2, <1>8
<1>10. Waiting(queue', asked', given)
  <2>1. asked + 1 \notin given
    BY <1>2 DEF IInv
  <2>2. \A x \in Items(queue) : x.origin \in 1 .. asked + 1 /\ x.origin \notin given
    BY <1>2 DEF Waiting
  <2> QED BY <1>1, <1>2, <1>6, <1>8, <2>1, <2>2 DEF Waiting
<1>11. asked' \in asked .. MaxAsked
  BY <1>1, <1>2 DEF Bounds
<1>12. Sound(written') /\ failed' \in BOOLEAN /\ PanesOK'
  BY <1>1 DEF IInv, PanesOK, PaneOK
<1> QED
  BY <1>1, <1>9, <1>10, <1>11, <1>12, QuietKept

\* instruction_command: replace.
LEMMA ReplaceKept == ASSUME Bounds, IInv, NEW old \in Items(queue), ReplaceItem(old) PROVE Kept
<1> DEFINE item == Item(queue.next, old.pane, old.inv, old.origin, TRUE)
           q2   == Replace([queue EXCEPT !.next = @ + 1], old.id, item)
<1>1. /\ asked < MaxAsked
      /\ queue' = q2 /\ recorded' = ReplayReplaced(recorded, old.id, item)
      /\ asked' = asked + 1 /\ UNCHANGED <<written, failed, panes>> /\ Quiet
  BY DEF ReplaceItem, Publish
<1>2. Sound(queue) /\ recorded = queue /\ asked \in Nat /\ Waiting(queue, asked, given)
  BY DEF IInv
<1>3. old \in Records /\ queue.next \in Nat
  BY <1>2, FiniteItems DEF Sound
<1>4. item \in Records
  BY <1>3 DEF Item, Records
<1>5. /\ item.id = queue.next /\ item.pane = old.pane /\ item.inv = old.inv
      /\ item.origin = old.origin
  BY DEF Item
<1>6. Renewed(queue, old, item)
  <2>1. item.edited = TRUE
    BY DEF Item
  <2> HIDE DEF item
  <2> QED BY <1>4, <1>5, <2>1 DEF Renewed
<1> HIDE DEF item
<1>7. /\ q2 = ReplayReplaced(queue, old.id, item) /\ Sound(q2)
      /\ Items(q2) = (Items(queue) \ {old}) \cup {item}
  BY <1>2, <1>6, ReplaceFacts
<1> HIDE DEF q2
<1>8. Sound(queue') /\ recorded' = queue'
  BY <1>1, <1>2, <1>7
<1>9. Waiting(queue', asked', given)
  <2>1. \A x \in Items(queue) : x.origin \in 1 .. asked + 1 /\ x.origin \notin given
    BY <1>2 DEF Waiting
  <2> QED BY <1>1, <1>5, <1>7, <2>1 DEF Waiting
<1>10. asked' \in asked .. MaxAsked
  BY <1>1, <1>2 DEF Bounds
<1>11. Sound(written') /\ failed' \in BOOLEAN /\ PanesOK'
  BY <1>1 DEF IInv, PanesOK, PaneOK
<1> QED
  BY <1>1, <1>8, <1>9, <1>10, <1>11, QuietKept

\* instruction_command: cancel and send now.
LEMMA CommandKept == ASSUME Bounds, IInv, Command PROVE Kept
<1>1. ASSUME NEW x \in Items(queue), Cancel(x) PROVE Kept
  <2>1. Publish(Cancelled(Now, {x})) /\ UNCHANGED panes /\ Elsewhere /\ Quiet
    BY <1>1 DEF Cancel
  <2>2. PanesOK'
    BY <2>1 DEF IInv, PanesOK, PaneOK
  <2>3. Fine(Cancelled(Now, {x}))
    BY NowFine, CancelledFine
  <2> QED BY <2>1, <2>2, <2>3, DropKept
<1>2. ASSUME NEW x \in Items(queue), NEW ok \in BOOLEAN, SendNow(x, ok) PROVE Kept
  <2>1. UNCHANGED panes /\ Elsewhere
    BY <1>2 DEF SendNow
  <2>2. PanesOK'
    BY <2>1 DEF IInv, PanesOK, PaneOK
  <2>3. CASE Publish(Cancelled(Now, {x})) /\ Quiet
    <3>1. Fine(Cancelled(Now, {x}))
      BY NowFine, CancelledFine
    <3> QED BY <2>1, <2>2, <2>3, <3>1, DropKept
  <2>4. CASE Deliver(Now, {x}, ok, panes[x.pane], "now")
    <3>1. Fine(Now) /\ x \in Items(Now.q)
      BY NowFine
    <3>2. "now" # "ready"
      OBVIOUS
    <3> QED BY Zenon, <2>1, <2>2, <2>4, <3>1, <3>2, DeliveryKept
  <2> QED BY <1>2, <2>3, <2>4 DEF SendNow
<1> QED
  BY <1>1, <1>2, AddKept, ReplaceKept DEF Command

\* The kernel gives the terminal to another group.
LEMMA ForegroundKept == ASSUME Bounds, IInv, NEW p \in Panes, ForegroundChanges(p) PROVE Kept
<1> DEFINE pane == panes[p]
<1>1. PaneOK(pane)
  BY DEF IInv, PanesOK
<1>2. PICK to \in pane.alive \cup {pane.last + 1}, over \in BOOLEAN :
        /\ to # pane.own /\ to <= MaxPid
        /\ SetPane(p, [pane EXCEPT
             !.own = to, !.last = IF to > @ THEN to ELSE @,
             !.alive = (@ \cup {to}) \ (IF over THEN {pane.own} ELSE {})])
  BY Zenon DEF ForegroundChanges
<1>3. UNCHANGED <<queue, recorded>> /\ Elsewhere /\ Quiet
  BY DEF ForegroundChanges
<1> DEFINE alive == (pane.alive \cup {to}) \ (IF over THEN {pane.own} ELSE {})
           last  == IF to > pane.last THEN to ELSE pane.last
           next  == [pane EXCEPT !.own = to, !.last = last, !.alive = alive]
<1>4. pane \in PaneRecords /\ pane.alive \in SUBSET Groups /\ pane.last \in Groups /\ pane.own \in Groups
  BY <1>1 DEF PaneOK, PaneRecords
<1>5. to \in Groups
  BY <1>2, <1>4 DEF Groups, Bounds
<1>6. alive \in SUBSET Groups /\ to \in alive
  BY <1>2, <1>4, <1>5
<1>7. last \in Groups
  BY <1>4, <1>5
<1>8. SetPane(p, next)
  BY <1>2
<1>9. PaneOK(next)
  <2> HIDE DEF alive, last, pane
  <2>1. next \in PaneRecords
    BY Zenon, <1>4, <1>5, <1>6, <1>7 DEF PaneRecords
  <2>2. next.own = to /\ next.alive = alive /\ next.live = pane.live /\ next.agent = pane.agent
    BY <1>4 DEF PaneRecords
  <2> QED BY <1>1, <1>6, <2>1, <2>2 DEF PaneOK
<1>10. PanesOK'
  <2> HIDE DEF next
  <2> QED BY <1>8, <1>9, PaneSet
<1> QED
  BY <1>3, <1>10, PanesKept

\* bind_agent.
LEMMA LaunchedKept == ASSUME Bounds, IInv, NEW p \in Panes, Launched(p) PROVE Kept
<1> DEFINE pane == panes[p]
           next == [pane EXCEPT !.agent = TRUE, !.pid = pane.own]
<1>1. PaneOK(pane) /\ pane.live
  BY DEF IInv, PanesOK, Launched
<1>2. PaneOK(next)
  <2> HIDE DEF pane
  <2>1. pane.own \in Pids
    BY <1>1 DEF PaneOK, PaneRecords, Groups, Pids, Bounds
  <2>2. next \in PaneRecords
    BY Zenon, <1>1, <2>1 DEF PaneOK, PaneRecords
  <2>3. next.own = pane.own /\ next.alive = pane.alive /\ next.live = pane.live
    BY Zenon, <1>1 DEF PaneOK, PaneRecords
  <2> QED BY <1>1, <2>2, <2>3 DEF PaneOK
<1>3. SetPane(p, next) /\ UNCHANGED <<queue, recorded>> /\ Elsewhere /\ Quiet
  BY DEF Launched
<1> QED
  BY <1>2, <1>3, PaneSet, PanesKept

\* on_process_exit.
LEMMA ExitKept == ASSUME Bounds, IInv, NEW p \in Panes, ProcessExit(p) PROVE Kept
<1> DEFINE pane == panes[p]
           dead == IF pane.agent THEN pane.watch ELSE pane.dead
           next == [pane EXCEPT !.watch = 0, !.agent = FALSE, !.pid = 0, !.dead = dead]
<1>1. PaneOK(pane)
  BY DEF IInv, PanesOK
<1>2. SetPane(p, next) /\ UNCHANGED <<queue, recorded>> /\ Elsewhere /\ Quiet
  BY DEF ProcessExit
<1>3. PaneOK(next)
  <2> HIDE DEF pane
  <2>1. 0 \in Pids /\ dead \in Pids
    BY <1>1 DEF PaneOK, PaneRecords, Pids, Bounds
  <2> HIDE DEF dead
  <2>2. next \in PaneRecords
    BY Zenon, <1>1, <2>1 DEF PaneOK, PaneRecords
  <2>3. next.own = pane.own /\ next.alive = pane.alive /\ next.agent = FALSE
    BY <1>1 DEF PaneOK, PaneRecords
  <2> QED BY <1>1, <2>2, <2>3 DEF PaneOK
<1>4. PanesOK'
  <2> HIDE DEF next
  <2> QED BY <1>2, <1>3, PaneSet
<1> QED
  BY <1>2, <1>4, PanesKept

\* A new shell, and a closed Pane.
LEMMA ShellOK == ASSUME Bounds PROVE PaneOK(Shell) /\ PaneOK([Shell EXCEPT !.live = FALSE])
<1>1. 0 \in Pids /\ 1 \in Groups /\ {1} \in SUBSET Groups /\ <<>> \in Seq(Groups)
  BY DEF Pids, Groups, Bounds
<1> QED
  BY Zenon, <1>1 DEF Shell, PaneOK, PaneRecords

\* close_pane.
LEMMA CloseKept == ASSUME Bounds, IInv, NEW p \in Panes, ClosePane(p) PROVE Kept
<1> DEFINE next == [Shell EXCEPT !.live = FALSE]
           w    == Cancelled(Now, Of(queue, p))
<1>1. SetPane(p, next) /\ Publish(w) /\ Elsewhere /\ Quiet
  BY DEF ClosePane
<1>2. PaneOK(next)
  BY ShellOK
<1>3. Fine(w)
  BY NowFine, CancelledFine
<1> HIDE DEF next, w
<1>4. PanesOK'
  BY <1>1, <1>2, PaneSet
<1> QED
  BY <1>1, <1>3, <1>4, DropKept

\* The evidence under way without its first.
LEMMA TailOK ==
  ASSUME NEW pane, PaneOK(pane), pane.verdicts # <<>>
  PROVE  /\ Head(pane.verdicts) \in Groups
         /\ PaneOK([pane EXCEPT !.verdicts = Tail(@)])
<1>1. pane \in PaneRecords /\ pane.verdicts \in Seq(Groups)
  BY DEF PaneOK, PaneRecords
<1> DEFINE rest == Tail(pane.verdicts)
           next == [pane EXCEPT !.verdicts = rest]
<1>2. Head(pane.verdicts) \in Groups /\ rest \in Seq(Groups)
  BY <1>1
<1> HIDE DEF rest
<1>3. next \in PaneRecords
  BY <1>1, <1>2 DEF PaneRecords
<1>4. next.own = pane.own /\ next.alive = pane.alive /\ next.live = pane.live /\ next.agent = pane.agent
  BY <1>1 DEF PaneRecords
<1>5. PaneOK(next)
  <2> HIDE DEF next
  <2> QED BY <1>3, <1>4 DEF PaneOK
<1> QED
  BY <1>2, <1>5 DEF rest

\* The runtime answers, without or with a verdict (apply_agent_detection).
LEMMA JudgedKept ==
  ASSUME Bounds, IInv, NEW p \in Panes, NEW other \in BOOLEAN, NoVerdict(p) \/ Detected(p, other)
  PROVE  Kept
<1> DEFINE old   == panes[p]
           group == Head(old.verdicts)
           less  == [old EXCEPT !.verdicts = Tail(@)]
           watch == IF group \in old.alive THEN group ELSE 0
           pane  == [less EXCEPT !.watch = watch]
           bind  == ~pane.agent \/ pane.pid = 0 \/ other
           pid   == IF bind THEN group ELSE pane.pid
           bound == [pane EXCEPT !.fg = group, !.agent = TRUE, !.pid = pid]
<1>1. PaneOK(old) /\ old.live /\ old.verdicts # <<>>
  BY DEF IInv, PanesOK, NoVerdict, Detected
<1>2. UNCHANGED <<queue, recorded>> /\ Elsewhere /\ Quiet
  BY DEF NoVerdict, Detected
<1>3. SetPane(p, less) \/ SetPane(p, pane) \/ SetPane(p, bound)
  <2>1. pane = [old EXCEPT !.verdicts = Tail(@), !.watch = watch]
    BY <1>1 DEF PaneOK, PaneRecords
  <2>2. CASE NoVerdict(p)
    BY <2>2 DEF NoVerdict
  <2>3. CASE Detected(p, other)
    BY <2>1, <2>3 DEF Detected
  <2> QED BY <2>2, <2>3
<1>4. group \in Groups /\ PaneOK(less)
  BY <1>1, TailOK
<1>5. less.live
  BY <1>1 DEF PaneOK, PaneRecords
<1> HIDE DEF less, group
<1>6. watch \in Pids /\ group \in Pids
  BY <1>4 DEF Groups, Pids, Bounds
<1> HIDE DEF watch
<1>7. PaneOK(pane) /\ pane.live
  <2>1. pane \in PaneRecords
    BY <1>4, <1>6 DEF PaneOK, PaneRecords
  <2>2. pane.own = less.own /\ pane.alive = less.alive /\ pane.live = less.live
    BY <1>4 DEF PaneOK, PaneRecords
  <2> HIDE DEF pane
  <2> QED BY <1>4, <1>5, <2>1, <2>2 DEF PaneOK
<1> HIDE DEF pane
<1>8. PaneOK(bound)
  <2>1. pid \in Pids
    BY <1>6, <1>7 DEF PaneOK, PaneRecords
  <2> HIDE DEF pid
  <2>2. bound \in PaneRecords
    BY Zenon, <1>6, <1>7, <2>1 DEF PaneOK, PaneRecords
  <2>3. bound.own = pane.own /\ bound.alive = pane.alive /\ bound.live = pane.live
    BY Zenon, <1>7 DEF PaneOK, PaneRecords
  <2> HIDE DEF bound
  <2> QED BY <1>7, <2>2, <2>3 DEF PaneOK
<1> HIDE DEF bound
<1>9. PanesOK'
  BY <1>3, <1>4, <1>7, <1>8, PaneSet
<1> QED
  BY <1>2, <1>9, PanesKept

\* The envelopes of a batch, for a live Pane: a ready event without an end leaves an
\* agent bound.
Reading(b, pane) ==
  /\ b \in [pane : PaneRecords, ready : BOOLEAN, ended : BOOLEAN]
  /\ PaneOK(b.pane) /\ b.pane.live = TRUE /\ b.pane.own = pane.own
  /\ b.ready = TRUE /\ b.ended = FALSE => b.pane.agent = TRUE

\* One envelope.
LEMMA EnvelopeReads ==
  ASSUME Bounds, NEW pane, NEW b, Reading(b, pane), NEW ev
  PROVE  Reading(Envelope(b, ev), pane)
<1> DEFINE old == b.pane
<1>1. /\ b = [pane |-> old, ready |-> b.ready, ended |-> b.ended]
      /\ b.ready \in BOOLEAN /\ b.ended \in BOOLEAN
      /\ old \in PaneRecords /\ old.live = TRUE /\ old.own = pane.own /\ old.own \in old.alive
  BY DEF Reading, PaneOK
<1>2. 0 \in Pids /\ old.own \in Pids /\ old.dead \in Pids /\ old.pid \in Pids
  BY <1>1 DEF PaneRecords, Pids, Groups, Bounds
<1>3. CASE ev = "end"
  <2> DEFINE dead == IF old.agent THEN 0 ELSE old.dead
             next == [old EXCEPT !.agent = FALSE, !.pid = 0, !.dead = dead]
  <2>1. dead \in Pids
    BY <1>2
  <2>2. Envelope(b, ev) = [pane |-> next, ready |-> b.ready, ended |-> TRUE]
    BY Zenon, <1>1, <1>3 DEF Envelope, PaneRecords
  <2> HIDE DEF dead
  <2>3. /\ next \in PaneRecords /\ next.live = TRUE /\ next.own = pane.own
        /\ next.own \in next.alive
    BY Zenon, <1>1, <1>2, <2>1 DEF PaneRecords
  <2> HIDE DEF next
  <2> QED BY <1>1, <2>2, <2>3 DEF Reading, PaneOK
<1>4. CASE ev # "end"
  <2> DEFINE other == old.agent /\ old.pid # 0 /\ old.pid # old.own
             pid   == IF ~old.agent \/ other \/ old.pid = 0 THEN old.own ELSE old.pid
             next  == [old EXCEPT !.agent = TRUE, !.pid = pid]
             ready == b.ready \/ ev = "ready"
  <2>1. pid \in Pids /\ ready \in BOOLEAN
    BY <1>2
  <2>2. Envelope(b, ev) = [pane |-> next, ready |-> ready, ended |-> b.ended]
    BY Zenon, <1>1, <1>4 DEF Envelope, PaneRecords
  <2> HIDE DEF pid, ready
  <2>3. /\ next \in PaneRecords /\ next.live = TRUE /\ next.own = pane.own
        /\ next.own \in next.alive /\ next.agent = TRUE
    BY Zenon, <1>1, <1>2, <2>1 DEF PaneRecords
  <2> HIDE DEF next
  <2> QED BY <1>1, <2>1, <2>2, <2>3 DEF Reading, PaneOK
<1> QED
  BY <1>3, <1>4

\* on_pane_readable.
LEMMA OutputKept ==
  ASSUME Bounds, IInv, NEW p \in Panes, NEW batch \in Batches, NEW ok \in BOOLEAN,
         Output(p, batch, ok)
  PROVE  Kept
<1> DEFINE pane == panes[p]
           b0   == [pane |-> pane, ready |-> FALSE, ended |-> FALSE]
           b    == CASE Len(batch) = 0 -> b0
                     [] Len(batch) = 1 -> Envelope(b0, batch[1])
                     [] OTHER -> Envelope(Envelope(b0, batch[1]), batch[2])
           changed == pane.fg # pane.own
           seen == [b.pane EXCEPT !.fg = pane.own]
           w    == AfterOutput(Now, p, b, changed)
           inv  == Invocation(seen)
           w2   == Cancelled(w, Stale(w, p, inv))
           evidence == changed \/ batch # <<>>
           next == [seen EXCEPT !.verdicts = IF evidence THEN Append(@, pane.own) ELSE @]
<1>1. /\ pane.live /\ SetPane(p, next) /\ Elsewhere
      /\ IF b.ready /\ ~b.ended /\ ~failed
         THEN Deliver(w2, NextFor(w2.q, p, inv), ok, seen, "ready")
         ELSE Publish(w) /\ Quiet
  BY DEF Output
<1>2. PaneOK(pane)
  BY DEF IInv, PanesOK
<1>3. pane \in PaneRecords /\ pane.live = TRUE /\ pane.own \in Groups
  BY <1>1, <1>2 DEF PaneOK, PaneRecords
<1>4. Reading(b, pane)
  <2> HIDE DEF pane
  <2>1. Reading(b0, pane)
    BY <1>2, <1>3 DEF Reading
  <2> HIDE DEF b0
  <2>2. Reading(Envelope(b0, batch[1]), pane)
    BY <2>1, EnvelopeReads
  <2>3. Reading(Envelope(Envelope(b0, batch[1]), batch[2]), pane)
    BY <2>2, EnvelopeReads
  <2>4. b = b0 \/ b = Envelope(b0, batch[1]) \/ b = Envelope(Envelope(b0, batch[1]), batch[2])
    OBVIOUS
  <2> HIDE DEF b
  <2> QED BY <2>1, <2>2, <2>3, <2>4
<1> HIDE DEF b, b0
<1>5. /\ b.pane \in PaneRecords /\ b.pane.live = TRUE /\ b.pane.own = pane.own
      /\ b.pane.own \in b.pane.alive /\ b.ready \in BOOLEAN /\ b.ended \in BOOLEAN
      /\ b.ready = TRUE /\ b.ended = FALSE => b.pane.agent = TRUE
  BY <1>4 DEF Reading, PaneOK
<1> HIDE DEF pane
<1>6. /\ seen \in PaneRecords /\ seen.live = TRUE /\ seen.own = pane.own /\ seen.fg = pane.own
      /\ seen.own \in seen.alive /\ seen.agent = b.pane.agent
  <2>1. pane.own \in Pids
    BY <1>3 DEF Pids, Groups, Bounds
  <2> QED BY <1>5, <2>1 DEF PaneRecords
<1> HIDE DEF seen
<1>7. PaneOK(next)
  <2> DEFINE verdicts == IF evidence THEN Append(seen.verdicts, pane.own) ELSE seen.verdicts
  <2>1. verdicts \in Seq(Groups)
    BY <1>3, <1>6 DEF PaneRecords
  <2>2. next = [seen EXCEPT !.verdicts = verdicts]
    OBVIOUS
  <2> HIDE DEF verdicts, next
  <2>3. next \in PaneRecords /\ next.live = TRUE /\ next.own \in next.alive
    BY SMTT(20), <1>6, <2>1, <2>2 DEF PaneRecords
  <2> QED BY <2>3 DEF PaneOK
<1>8. PanesOK'
  <2> HIDE DEF next
  <2>1. SetPane(p, next)
    BY <1>1
  <2> QED BY <1>7, <2>1, PaneSet
<1> HIDE DEF next
<1>9. Fine(w)
  BY NowFine, CancelledFine DEF AfterOutput
<1> HIDE DEF w, inv
<1>10. Fine(w2)
  BY <1>9, CancelledFine
<1> HIDE DEF w2
<1>11. CASE ~(b.ready /\ ~b.ended /\ ~failed)
  BY <1>1, <1>8, <1>9, <1>11, DropKept
<1>12. CASE b.ready /\ ~b.ended /\ ~failed
  <2>1. Deliver(w2, NextFor(w2.q, p, inv), ok, seen, "ready")
    BY <1>1, <1>12
  <2>2. CASE NextFor(w2.q, p, inv) = {}
    <3>1. Publish(w2) /\ Quiet
      BY <2>1, <2>2 DEF Deliver, Quiet
    <3>2. Elsewhere
      BY <1>1
    <3> QED BY <1>8, <1>10, <3>1, <3>2, DropKept
  <2>3. ASSUME NEW item \in NextFor(w2.q, p, inv) PROVE Kept
    <3>1. Sound(w2.q)
      BY <1>10 DEF Fine, Shrunk
    <3>2. /\ NextFor(w2.q, p, inv) = {item} /\ item \in Items(w2.q)
          /\ item.pane = p /\ item.inv = inv
          /\ item.edited = FALSE =>
               \A x \in Items(w2.q) : x.pane = p /\ x.inv = inv /\ x.edited = FALSE => x.id >= item.id
      <4>1. FirstOf(w2.q, p, inv, item)
        BY <2>3, <3>1, NextForFacts
      <4> QED BY <4>1 DEF FirstOf
    <3>3. item.inv \in 1 .. MaxPid
      <4>1. w2.q.items \in Seq(Records)
        BY <3>1 DEF Sound
      <4>2. item \in Records
        BY <3>2, <4>1, FiniteItems
      <4> QED BY <4>2 DEF Records
    <3>4. inv # 0
      BY <3>2, <3>3 DEF Bounds
    <3>5. seen.own = item.inv
      <4>1. seen.agent = TRUE
        BY <1>5, <1>6, <1>12
      <4>2. inv = pane.own
        BY <1>3, <1>6, <3>4, <4>1 DEF inv, Invocation, Groups, Bounds
      <4> QED BY <1>6, <3>2, <4>2
    <3>6. Deliver(w2, {item}, ok, seen, "ready")
      BY <2>1, <3>2
    <3> QED
      BY Zenon, <1>1, <1>8, <1>10, <3>2, <3>5, <3>6, DeliveryKept
  <2> QED BY <2>2, <2>3
<1> QED
  BY <1>11, <1>12

\* A crash: no restored Pane has an agent, so nothing that was queued is left.
LEMMA RestartKept == ASSUME Bounds, IInv, Restart PROVE Kept
<1> DEFINE back == [p \in Panes |-> Revived(panes[p])]
           gone == {x \in Items(written) : ~(back[x.pane].agent /\ back[x.pane].pid = x.inv)}
           ids  == {x.id : x \in gone}
<1>1. /\ panes' = back /\ failed' = FALSE /\ UNCHANGED <<written, asked>> /\ Quiet
      /\ \A p \in Panes : panes[p].last < MaxPid
  BY DEF Restart
<1>2. queue' = Remove(written, ids) /\ recorded' = Remove(written, ids)
  BY Zenon DEF Restart, Cancelled, Publish
<1>3. Sound(written) /\ PanesOK
  BY DEF IInv
<1>4. ASSUME NEW p \in Panes PROVE PaneOK(Revived(panes[p])) /\ Revived(panes[p]).agent = FALSE
  <2> DEFINE pane == panes[p]
             n    == pane.last + 1
  <2>1. PaneOK(pane) /\ pane.last < MaxPid
    BY <1>1, <1>3 DEF PanesOK
  <2>2. CASE pane.live
    <3>1. n \in Groups
      BY <2>1 DEF PaneOK, PaneRecords, Groups, Bounds
    <3>2. 0 \in Pids /\ {n} \in SUBSET Groups /\ <<>> \in Seq(Groups)
      BY <3>1 DEF Pids, Bounds
    <3>3. Revived(pane) = [live |-> TRUE, agent |-> FALSE, pid |-> 0, fg |-> 0, own |-> n, shell |-> n,
                           alive |-> {n}, last |-> n, watch |-> 0, dead |-> 0, verdicts |-> <<>>]
      BY Zenon, <2>2 DEF Revived, Shell
    <3> HIDE DEF n, pane
    <3>4. PaneOK(Revived(pane)) /\ Revived(pane).agent = FALSE
      BY <3>1, <3>2, <3>3 DEF PaneOK, PaneRecords
    <3> QED BY <3>4 DEF pane
  <2>3. CASE ~pane.live
    <3>1. Revived(pane) = pane
      BY <2>3 DEF Revived
    <3>2. pane.live = FALSE
      BY <2>1, <2>3 DEF PaneOK, PaneRecords
    <3> QED BY <2>1, <3>1, <3>2 DEF PaneOK
  <2> QED BY Zenon, <2>2, <2>3
<1>5. PanesOK'
  <2>1. \A p \in Panes : panes'[p] = Revived(panes[p])
    BY <1>1
  <2>2. panes' \in [Panes -> PaneRecords]
    BY Zenon, <1>1, <1>4 DEF PaneOK
  <2> QED BY Zenon, <1>4, <2>1, <2>2 DEF PanesOK, PaneOK
<1>6. gone = Items(written)
  <2>1. \A x \in Items(written) : x.pane \in Panes
    <3>1. written.items \in Seq(Records)
      BY <1>3 DEF Sound
    <3>2. Items(written) \subseteq Records
      BY <3>1, FiniteItems
    <3> QED BY <3>2 DEF Records
  <2> QED BY Zenon, <1>4, <2>1
<1>7. Sound(queue') /\ Items(queue') = {} /\ recorded' = queue'
  <2>1. \A x \in Items(written) : x.id \in ids
    BY <1>6
  <2> HIDE DEF ids
  <2>2. /\ Sound(Remove(written, ids))
        /\ Items(Remove(written, ids)) = {x \in Items(written) : x.id \notin ids}
    BY <1>3, RemoveFacts DEF Shrunk
  <2> QED BY <1>2, <2>1, <2>2
<1>8. Waiting(queue', asked', given)
  BY <1>7 DEF Waiting
<1>9. Sound(written') /\ failed' \in BOOLEAN /\ asked' \in asked .. MaxAsked
  <2>1. Sound(written') /\ failed' \in BOOLEAN
    BY Zenon, <1>1, <1>3
  <2>2. asked' = asked /\ asked \in 0 .. MaxAsked
    BY <1>1 DEF IInv
  <2> QED BY <2>1, <2>2 DEF Bounds
<1> QED
  BY <1>1, <1>5, <1>7, <1>8, <1>9, QuietKept

\* The log is written, or fails to be.
LEMMA LogKept == ASSUME Bounds, IInv, Flush \/ WriteFails PROVE Kept
<1>1. /\ UNCHANGED <<queue, recorded, panes, asked>> /\ Quiet
      /\ written' = recorded \/ written' = written
      /\ failed' = failed \/ failed' = TRUE
  BY DEF Flush, WriteFails
<1>2. /\ Sound(queue) /\ recorded = queue /\ Sound(written) /\ failed \in BOOLEAN /\ PanesOK
      /\ asked \in 0 .. MaxAsked /\ Waiting(queue, asked, given)
  BY DEF IInv
<1>3. PanesOK'
  BY <1>1, <1>2 DEF PanesOK, PaneOK
<1>4. Sound(queue') /\ recorded' = queue' /\ Sound(written') /\ failed' \in BOOLEAN
  BY Zenon, <1>1, <1>2
<1>5. asked' \in asked .. MaxAsked /\ Waiting(queue', asked', given)
  BY <1>1, <1>2 DEF Bounds
<1> QED
  BY <1>1, <1>3, <1>4, <1>5, QuietKept

\* Every step of humans, agents, Panes, log and crashes.
LEMMA StepKept == ASSUME Bounds, IInv, Next PROVE Kept
<1>1. ASSUME NEW p \in Panes, PaneStep(p) PROVE Kept
  BY Zenon, <1>1, ForegroundKept, LaunchedKept, ExitKept, CloseKept, JudgedKept, OutputKept DEF PaneStep
<1> QED
  BY <1>1, CommandKept, LogKept, RestartKept DEF Next

\* A new server has no direction, and shells in its Panes.
LEMMA InitKept == ASSUME Bounds, Init PROVE IInv
<1>1. Items(New) = {} /\ Len(New.items) = 0 /\ New.items = <<>>
  BY DEF New, Items
<1>2. Sound(New)
  <2>1. \A p, inv : Mine(New, p, inv) = {}
    BY <1>1 DEF Mine, Of
  <2>2. Limited(New)
    BY <1>1, <2>1, FS_EmptySet DEF Limited, Bounds
  <2>3. Distinct(<<>>) /\ Ordered(<<>>)
    BY DEF Distinct, Ordered
  <2>4. New = [items |-> <<>>, next |-> 1, nextDelivery |-> 1] /\ <<>> \in Seq(Records)
    BY DEF New
  <2> QED BY <1>1, <2>2, <2>3, <2>4 DEF Sound
<1>3. PanesOK
  <2>1. PaneOK(Shell) /\ Shell \in PaneRecords
    BY Zenon, ShellOK DEF PaneOK
  <2>2. panes = [p \in Panes |-> Shell]
    BY DEF Init
  <2> HIDE DEF Shell
  <2> QED BY <2>1, <2>2 DEF PanesOK
<1> QED
  <2>1. queue = New /\ recorded = New /\ written = New /\ failed = FALSE
        /\ asked = 0 /\ given = {} /\ sent = {}
    BY DEF Init
  <2>2. Sound(queue) /\ recorded = queue /\ Sound(written) /\ failed \in BOOLEAN
    BY Zenon, <1>2, <2>1
  <2>3. asked \in 0 .. MaxAsked /\ given \subseteq 1 .. asked
    BY <2>1 DEF Bounds
  <2>4. Waiting(queue, asked, given)
    BY <1>1, <2>1 DEF Waiting
  <2>5. ReadyReachesItsInvocation
    BY <2>1 DEF ReadyReachesItsInvocation
  <2> QED BY <1>3, <2>2, <2>3, <2>4, <2>5 DEF IInv

-----------------------------------------------------------------------------
(* What follows.                                                           *)

\* The invariant of the instruction queue, its log, the Panes and the requests.
THEOREM QueueInvariance == ASSUME Bounds PROVE Spec => []IInv
<1>1. Init => IInv
  BY InitKept
<1>2. IInv /\ [Next]_vars => IInv'
  <2> SUFFICES ASSUME IInv, [Next]_vars PROVE IInv'
    OBVIOUS
  <2>1. CASE Next
    BY <2>1, StepKept DEF Kept
  <2>2. CASE UNCHANGED vars
    BY <2>2 DEF vars, IInv, PanesOK, PaneOK, ReadyReachesItsInvocation, Waiting
  <2> QED BY <2>1, <2>2
<1> QED
  BY <1>1, <1>2, PTL DEF Spec

\* The types; the live queue, the log's and the disk's keep the limits of can_enqueue.
THEOREM LimitsKept == ASSUME Bounds PROVE Spec => []TypeOK
<1>1. ASSUME NEW q, Sound(q) PROVE QueueType(q)
  <2>1. q.items \in Seq(Records) /\ q.next \in Nat \ {0} /\ q.nextDelivery \in Nat \ {0}
    BY <1>1 DEF Sound
  <2>2. \A x \in Items(q) : x.pane \in Panes /\ x.inv \in 1 .. MaxPid /\ x.id < q.next
    <3>1. Items(q) \subseteq Records
      BY <2>1, FiniteItems
    <3>2. \A x \in Items(q) : x.id < q.next
      BY <1>1 DEF Sound
    <3> QED BY <3>1, <3>2 DEF Records
  <2>3. \A i, j \in DOMAIN q.items : q.items[i].id = q.items[j].id => i = j
    BY <1>1, <2>1 DEF Sound, Distinct
  <2>4. Len(q.items) <= MaxWorkspace
        /\ \A x \in Items(q) : Cardinality({y \in Of(q, x.pane) : y.inv = x.inv}) <= MaxInvocation
    <3>1. \A x \in Items(q) : Cardinality(Mine(q, x.pane, x.inv)) <= MaxInvocation
      BY <1>1 DEF Sound, Limited
    <3> QED BY <1>1, <3>1 DEF Sound, Limited, Mine
  <2> QED BY <2>1, <2>2, <2>3, <2>4 DEF QueueType
<1>2. IInv => TypeOK
  <2> SUFFICES ASSUME IInv PROVE TypeOK
    OBVIOUS
  <2>1. QueueType(queue) /\ QueueType(recorded) /\ QueueType(written)
    BY <1>1 DEF IInv
  <2>2. given \subseteq 1 .. MaxAsked
    BY DEF IInv, Bounds
  <2> QED BY <2>1, <2>2 DEF IInv, PanesOK, PaneOK, TypeOK
<1> QED
  BY <1>2, QueueInvariance, PTL

\* What the log replays is the live queue: same items, order and allocators.
THEOREM DirectionReplays == ASSUME Bounds PROVE Spec => []ReplayAgrees
<1>1. IInv => ReplayAgrees
  BY DEF IInv, ReplayAgrees
<1> QED
  BY <1>1, QueueInvariance, PTL

\* deliver_cooperative_instruction: a ready event delivers to the group addressed.
THEOREM ReadyReaches == ASSUME Bounds PROVE Spec => []ReadyReachesItsInvocation
<1>1. IInv => ReadyReachesItsInvocation
  BY DEF IInv
<1> QED
  BY <1>1, QueueInvariance, PTL

\* A request is typed at most once, through replacements, retries and crashes.
THEOREM TypedOnce == ASSUME Bounds PROVE Spec => DeliveredOnce
<1>1. IInv /\ [Next]_vars => [FirstDelivery]_vars
  BY StepKept DEF Kept
<1> QED
  BY <1>1, QueueInvariance, PTL DEF Spec, DeliveredOnce

\* next_for: no ready event delivers a request ahead of an earlier one that waits.
THEOREM TypedInOrder == ASSUME Bounds PROVE Spec => InOrder
<1>1. IInv /\ [Next]_vars => [EarliestDelivered]_vars
  BY StepKept DEF Kept
<1> QED
  BY <1>1, QueueInvariance, PTL DEF Spec, InOrder
=============================================================================
