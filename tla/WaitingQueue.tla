---------------------------- MODULE WaitingQueue ----------------------------
(***************************************************************************)
(* The waiting queue (crates/uniterm-core/src/waiting.rs) with everything   *)
(* in the server that changes it: cooperative envelopes read in one batch,  *)
(* status verdicts, launches, process exits, requests of runs, Panes        *)
(* closed, human actions that name an item by an id read earlier, and a     *)
(* restart that replays WaitingCreated, WaitingUpdated and WaitingResolved. *)
(*                                                                         *)
(* The log is kept as the queue it replays to ("replayed"): every event is  *)
(* applied to it when it is appended.  An invocation is a foreground        *)
(* process group; 0 is None and 1 the Pane's shell.  Groups are not reused. *)
(* The state of runs belongs to RunDriver: here a run's phase is an input.  *)
(***************************************************************************)
EXTENDS Integers, Sequences, FiniteSets

CONSTANTS Panes, Summaries,
          Envelopes, \* OSC 777 events: a status, alone or with a new native session
                     \* or a PermissionAsked detail; or Exited
          MaxId,    \* bound: items created
          MaxPid,   \* bound: process groups per Pane
          MaxBatch  \* bound: envelopes in one read of a Pane
ASSUME BoundsAssumption == MaxId \in Nat /\ MaxPid \in Nat \ {0} /\ MaxBatch \in Nat

VARIABLES
  queue,     \* the live queue: its items and next_id
  replayed,  \* the queue the event log replays to
  panes,     \* per Pane: agent status and pid, cached and kernel foreground group
  held,      \* the item a client read and may still act on
  rollback,  \* the item a rollback under way was asked for
  typed,     \* an answer typed into a Pane by the last step
  born       \* the allocator at the last restart

vars == <<queue, replayed, panes, held, rollback, typed, born>>

Blocked == {"Permission", "Question"}        \* WaitingKind::from_agent_status
Statuses == Blocked \cup {"Working"}         \* Working: any other reported status
NoAgent == "None"

New == [items |-> {}, next |-> 1]
Shell == [live |-> TRUE, status |-> NoAgent, pid |-> 0, fg |-> 1, own |-> 1, last |-> 1, dead |-> 0]

Init ==
  /\ queue = New /\ replayed = New
  /\ panes = [p \in Panes |-> Shell]
  /\ held = {} /\ rollback = {} /\ typed = {} /\ born = 1

OfPane(q, p) == {i \in q.items : i.pane = p}
Item(id, p, inv, kind, text) == [id |-> id, pane |-> p, inv |-> inv, kind |-> kind, text |-> text]

\* The agent's group, or the Pane's cached one.
Current(pane) == IF pane.status # NoAgent /\ pane.pid # 0 THEN pane.pid ELSE pane.fg

-----------------------------------------------------------------------------
(* The queue.                                                              *)

\* resolve and resolve_pane.
Resolve(q, ids) == [q EXCEPT !.items = {i \in @ : i.id \notin ids}]
ResolvePane(q, p) == [q EXCEPT !.items = @ \ OfPane(q, p)]

\* update_summary.
UpdateSummary(q, id, text) ==
  [q EXCEPT !.items = {IF i.id = id THEN [i EXCEPT !.text = text] ELSE i : i \in @}]

\* request: whatever the Pane waited for is replaced.
Request(q, p, inv, kind, text) ==
  [items |-> ResolvePane(q, p).items \cup {Item(q.next, p, inv, kind, text)},
   next  |-> q.next + 1]

\* insert, for a replayed WaitingCreated.
Insert(q, item) ==
  [items |-> {i \in q.items : i.id # item.id /\ i.pane # item.pane} \cup {item},
   next  |-> IF q.next > item.id THEN q.next ELSE item.id + 1]

SamePrompt(i, inv, kind) == i.inv = inv /\ i.kind = kind

\* observe_agent.
ObserveAgent(q, p, inv, status, text) ==
  LET same == {i \in OfPane(q, p) : SamePrompt(i, inv, status)}
  IN  IF status \notin Blocked THEN ResolvePane(q, p)
      ELSE IF same # {} THEN UpdateSummary(q, (CHOOSE i \in same : TRUE).id, text)
      ELSE Request(q, p, inv, status, text)

\* Slip: a refreshed summary is not logged.
RefreshUnlogged(q, q2, r) == r
\* The WaitingUpdated events of a change.
Refresh(q, q2, r) ==
  [r EXCEPT !.items = {IF \E j \in q2.items : j.id = i.id
                       THEN CHOOSE j \in q2.items : j.id = i.id ELSE i : i \in @}]

\* One change of the live queue and the events record_waiting_change appends for
\* it, applied to the replay: items resolved, then the new one created, or the
\* summary updated.
Apply(w, q2) ==
  LET gone == {i.id : i \in w.q.items} \ {i.id : i \in q2.items}
      new  == {i \in q2.items : i.id >= w.q.next}
      r    == Resolve(w.r, gone)
  IN  [q |-> q2,
       r |-> IF new # {} THEN Insert(r, CHOOSE i \in new : TRUE) ELSE Refresh(w.q, q2, r)]

Now == [q |-> queue, r |-> replayed]
Publish(w) == queue' = w.q /\ replayed' = w.r

\* sync_waiting_agent.
Sync(w, p, pane, status, text) ==
  Apply(w, ObserveAgent(w.q, p, Current(pane), status, text))

-----------------------------------------------------------------------------
(* Agents and their processes.                                             *)

Quiet == UNCHANGED <<held, rollback, born>> /\ typed' = {}
SetPane(p, pane) == panes' = [panes EXCEPT ![p] = pane]
Bound(pane) == pane.status # NoAgent

\* The kernel: a new foreground job, or the shell takes the terminal back.
ForegroundChanges(p) ==
  /\ panes[p].live
  /\ \/ /\ panes[p].last < MaxPid
        /\ SetPane(p, [panes[p] EXCEPT !.own = panes[p].last + 1, !.last = @ + 1])
     \/ panes[p].own # 1 /\ SetPane(p, [panes[p] EXCEPT !.own = 1])
  /\ UNCHANGED <<queue, replayed>> /\ Quiet

\* One OSC 777 envelope of a batch; b holds the Pane, the queue and the
\* transitions to notify when the batch has been read.
Envelope(b, ev, p) ==
  LET pane  == b.pane
      fresh == ~Bound(pane) \/ pane.own # pane.pid
      drop  == (fresh /\ Bound(pane)) \/ (~fresh /\ ev.with = "session")
      moved == pane.status # ev.status
      kept  == IF drop THEN <<>> ELSE b.moves
  IN  IF ev.status = "Exited"
      THEN [b EXCEPT !.pane.status = NoAgent, !.pane.pid = 0]
      ELSE [pane    |-> [pane EXCEPT !.status = ev.status,
                                     !.pid = IF fresh THEN pane.own ELSE @],
            w       |-> IF drop THEN Apply(b.w, ResolvePane(b.w.q, p)) ELSE b.w,
            moves   |-> IF moved THEN Append(kept, ev.status) ELSE kept,
            refresh |-> b.refresh \/ drop \/ ev.with = "asked"]

\* The envelopes of a batch, in order.
ReadAll(b0, batch, p) ==
  LET read[n \in 0 .. Len(batch)] ==
        IF n = 0 THEN b0 ELSE Envelope(read[n - 1], batch[n], p)
  IN  read[Len(batch)]

\* notify_agent_transition for each queued transition, in order.
TellAll(w, p, pane, moves, text) ==
  LET told[n \in 0 .. Len(moves)] ==
        IF n = 0 THEN w ELSE Sync(told[n - 1], p, pane, moves[n], text)
  IN  told[Len(moves)]

\* on_pane_readable: a batch of output with its envelopes, then the queued
\* transitions, or a refresh of the prompt when there was none.
Output(p, batch, text) ==
  LET b     == ReadAll([pane |-> panes[p], w |-> Now, moves |-> <<>>, refresh |-> FALSE], batch, p)
      pane  == [b.pane EXCEPT !.fg = b.pane.own]
      again == IF b.moves = <<>> /\ b.refresh /\ Bound(pane) THEN <<pane.status>> ELSE b.moves
  IN  /\ panes[p].live
      /\ SetPane(p, pane)
      /\ Publish(TellAll(b.w, p, pane, again, text))
      /\ Quiet

\* A verdict on the agent already bound: SetAgentStatus, flush_detection_due, or
\* apply_agent_detection without a new identity.
StatusMoves(p, status, text) ==
  LET pane == [panes[p] EXCEPT !.status = status]
  IN  /\ panes[p].live /\ Bound(panes[p]) /\ panes[p].status # status
      /\ SetPane(p, pane)
      /\ Publish(Sync(Now, p, pane, status, text))
      /\ Quiet

\* apply_agent_detection with a new identity: the verdict is of the group that
\* owns the terminal and has not exited.  Its status, if it has one, applies now
\* or dwells (then the agent is Starting until StatusMoves).
Detected(p, status, text) ==
  LET pane == [panes[p] EXCEPT !.status = status, !.pid = panes[p].own, !.fg = panes[p].own]
      w    == Apply(Now, ResolvePane(queue, p))
  IN  /\ panes[p].live /\ panes[p].own # panes[p].dead
      /\ SetPane(p, pane)
      /\ Publish(Sync(w, p, pane, status, text))
      /\ Quiet

\* bind_agent: the agent is Starting in the group that owns the terminal.
BoundTo(pane) == [pane EXCEPT !.status = "Working", !.pid = pane.own]

\* launch_agent_at typing into the current Pane, whose shell is at its prompt.
LaunchHere(p) ==
  /\ panes[p].live /\ ~Bound(panes[p]) /\ panes[p].own = 1
  /\ SetPane(p, BoundTo(panes[p]))
  /\ UNCHANGED <<queue, replayed>> /\ Quiet

\* on_process_exit: the watched group ended; nothing to do without an agent.
ProcessExit(p) ==
  /\ panes[p].live /\ Bound(panes[p]) /\ panes[p].pid # 1
  /\ SetPane(p, [panes[p] EXCEPT !.status = NoAgent, !.pid = 0, !.dead = panes[p].pid])
  /\ Publish(Apply(Now, ResolvePane(queue, p)))
  /\ Quiet

Closed(pane) == [pane EXCEPT !.live = FALSE, !.status = NoAgent, !.pid = 0]
\* close_pane.
ClosePane(p) ==
  /\ panes[p].live
  /\ SetPane(p, Closed(panes[p]))
  /\ Publish(Apply(Now, ResolvePane(queue, p)))
  /\ Quiet

-----------------------------------------------------------------------------
(* Runs, and the human.                                                    *)

Runs == {"Workflow", "Relay"}

\* A run asks for a human: with the invocation when a workflow role reported
\* needs_input, without one otherwise.
RequestRun(p, inv, kind) ==
  /\ panes[p].live /\ inv \in {0, Current(panes[p])} /\ (kind = "Relay" => inv = 0)
  /\ UNCHANGED panes
  /\ Publish(Apply(Now, Request(queue, p, inv, kind, "run")))
  /\ Quiet

\* A role's prompt was delivered late (its first one binds the agent) or its turn
\* submitted: resolve_pane_kind.
RunMovesOn(p, kind, first) ==
  /\ panes[p].live
  /\ SetPane(p, IF first THEN BoundTo(panes[p]) ELSE panes[p])
  /\ Publish(Apply(Now, Resolve(queue, {i.id : i \in {j \in OfPane(queue, p) : j.kind = kind}})))
  /\ Quiet

\* reply_waiting: the client keeps one item it was sent.
ReadQueue ==
  /\ \E i \in queue.items : held' = {i}
  /\ typed' = {}
  /\ UNCHANGED <<queue, replayed, panes, rollback, born>>

\* The item is of an invocation that no longer runs.
Stale(item, pane) == item.inv # 0 /\ item.inv # Current(pane)

\* Slip: the prompt is not revalidated.
NeverAdvanced(item, pane) == FALSE
Advanced(item, pane) == item.kind \in Blocked /\ pane.status # item.kind

\* resume_waiting_orchestration: a role not started before is bound when its
\* prompt is accepted.
Resumed(p, accepted) ==
  \/ UNCHANGED panes
  \/ panes[p].live /\ accepted /\ SetPane(p, BoundTo(panes[p]))

Dropped(item) == Publish(Apply(Now, ResolvePane(queue, item.pane)))

\* waiting_action on the item that has the id the client holds.  Focus and
\* Approve leave the queue alone.  phase is that of the run whose current role
\* sits in the Pane; accepted is the Pane's input queue.
Act(read, item, action, phase, accepted) ==
  LET pane == panes[item.pane] IN
  /\ item.id = read.id
  /\ UNCHANGED <<held, born>>
  /\ \/ /\ Stale(item, pane)
        /\ Dropped(item)
        /\ typed' = {} /\ UNCHANGED <<panes, rollback>>
     \/ /\ ~Stale(item, pane) /\ action = "Answer" /\ Advanced(item, pane)
        /\ Dropped(item)
        /\ typed' = {} /\ UNCHANGED <<panes, rollback>>
     \/ /\ ~Stale(item, pane) /\ action = "Answer" /\ ~Advanced(item, pane) /\ accepted
        /\ item.kind \in Runs => phase = "Awaiting"
        /\ Dropped(item)
        /\ typed' = {[read |-> read, pane |-> item.pane]}
        /\ UNCHANGED <<panes, rollback>>
     \/ /\ ~Stale(item, pane) /\ action = "Dismiss" /\ item.kind \in Blocked
        /\ Dropped(item)
        /\ typed' = {} /\ UNCHANGED <<panes, rollback>>
     \/ /\ ~Stale(item, pane) /\ action = "Stop"
        /\ Dropped(item)
        /\ SetPane(item.pane, Closed(pane))
        /\ typed' = {} /\ UNCHANGED rollback
     \/ /\ ~Stale(item, pane) /\ action = "Resume" /\ phase # "None"
        /\ Dropped(item)
        /\ Resumed(item.pane, accepted)
        /\ typed' = {} /\ UNCHANGED rollback
     \/ /\ ~Stale(item, pane) /\ action = "Rollback" /\ item.kind = "Relay"
        /\ phase # "None" /\ rollback = {}
        /\ rollback' = {item}
        /\ typed' = {} /\ UNCHANGED <<queue, replayed, panes>>

\* RelayCheckpointRolledBack: the answer names the item by its id.
RolledBack(ok, accepted) ==
  LET item == CHOOSE i \in rollback : TRUE
      here == {i \in queue.items : i.id = item.id}
  IN  /\ rollback # {} /\ rollback' = {}
      /\ IF here = {} THEN UNCHANGED <<queue, replayed>>
         ELSE Publish(Apply(Now, IF ok THEN ResolvePane(queue, item.pane)
                                 ELSE Request(queue, item.pane, item.inv, "Relay", "run")))
      /\ IF ok /\ here # {} THEN Resumed(item.pane, accepted) ELSE UNCHANGED panes
      /\ typed' = {} /\ UNCHANGED <<held, born>>

Worn(item, pids) == item.inv = 0 \/ item.inv # pids[item.pane]

\* The replayed queue is installed as it is, next_id included.
Recovered(q) == q

\* A restart: fresh shells, the replayed queue, resolve_stale_waiting_items, and
\* restore_orchestrations, which asks for one run at most (restored).
Restart(restored) ==
  LET pids == [p \in Panes |-> 0]
      worn == {i.id : i \in {j \in replayed.items : Worn(j, pids)}}
      q    == Resolve(Recovered(replayed), worn)
      w    == [q |-> q, r |-> q]
      ask  == {p \in restored : OfPane(q, p) = {}}
  IN  /\ panes' = [p \in Panes |-> [Shell EXCEPT !.last = panes[p].last]]
      /\ Publish(IF ask = {} THEN w
                 ELSE Apply(w, Request(q, CHOOSE p \in ask : TRUE, 0, "Workflow", "run")))
      /\ rollback' = {} /\ typed' = {} /\ born' = q.next /\ UNCHANGED held

Batches == UNION {[1 .. n -> Envelopes] : n \in 0 .. MaxBatch}

Steps ==
  \/ \E p \in Panes :
       \/ ForegroundChanges(p) \/ LaunchHere(p) \/ ProcessExit(p) \/ ClosePane(p)
       \/ \E batch \in Batches, text \in Summaries : Output(p, batch, text)
       \/ \E status \in Statuses, text \in Summaries :
            StatusMoves(p, status, text) \/ Detected(p, status, text)
       \/ \E kind \in Runs :
            RequestRun(p, 0, kind) \/ RequestRun(p, Current(panes[p]), kind) 
            \/ \E first \in BOOLEAN : RunMovesOn(p, kind, first)
  \/ ReadQueue
  \/ \E read \in held, item \in queue.items,
        action \in {"Answer", "Dismiss", "Stop", "Resume", "Rollback"},
        phase \in {"None", "Awaiting", "Paused"}, accepted \in BOOLEAN :
       Act(read, item, action, phase, accepted)
  \/ \E ok, accepted \in BOOLEAN : RolledBack(ok, accepted)
  \/ \E restored \in {{}} \cup {{p} : p \in Panes} : Restart(restored)

Next == Steps /\ queue'.next <= MaxId + 1

Spec == Init /\ [][Next]_vars

-----------------------------------------------------------------------------
(* Properties.                                                             *)

\* Types, and one item at most per Pane, numbered below the allocator.
TypeOK ==
  /\ queue.items \subseteq [id : 1 .. MaxId, pane : Panes, inv : 0 .. MaxPid,
                            kind : Blocked \cup Runs, text : Summaries \cup {"run"}]
  /\ \A i \in queue.items : i.id < queue.next
  /\ \A p \in Panes : Cardinality(OfPane(queue, p)) <= 1

\* WaitingCreated, WaitingUpdated and WaitingResolved replay to the live queue,
\* allocator included, whatever replaced or refreshed what.
ReplayAgrees == replayed = queue

\* "Reusing a Pane id for a later invocation must never inherit an earlier
\* prompt": the id a client or a rollback holds never comes to name another
\* prompt, restarts included, and text typed for an agent's item reaches the
\* invocation the client read it for, blocked the same way.
AnswerReachesItsPrompt ==
  /\ \A s \in held \cup rollback, i \in queue.items :
       s.id = i.id => s.pane = i.pane /\ s.inv = i.inv /\ s.kind = i.kind
  /\ \A t \in typed :
       t.read.kind \in Blocked =>
         /\ t.read.pane = t.pane
         /\ t.read.inv = Current(panes[t.pane])
         /\ t.read.kind = panes[t.pane].status

\* "An item whose Pane no longer runs that exact invocation is resolved before
\* fresh shells can reuse its Pane id": a restart leaves none of the old items.
NothingWorn == \A i \in queue.items : i.id >= born

\* Both: what a human sees and answers is current (server/waiting.rs).
WaitingIsCurrent == AnswerReachesItsPrompt /\ NothingWorn
=============================================================================
