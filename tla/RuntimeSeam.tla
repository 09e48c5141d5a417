---------------------------- MODULE RuntimeSeam ----------------------------
(***************************************************************************)
(* The seam between the core loop and the agent runtime                    *)
(* (crates/uniterm-server/src/runtime.rs: AgentRuntime, agent_main): a     *)
(* core-owned outbox, a one-slot request channel, a bounded reply channel, *)
(* the waker, and the shutdown handshake.                                  *)
(*                                                                         *)
(* Every message carries the ordinal "n" of the push that made it, and the *)
(* history variables accepted and delivered record what the outbox took    *)
(* and what the runtime received, so that the order of delivery can be     *)
(* compared with the order of the pushes.                                  *)
(***************************************************************************)
EXTENDS OutboxOps, FiniteSets

CONSTANTS
  Subjects,       \* the [kind, key] pairs the core sends
  SizeOf(_),      \* encoded size of a message of a kind
  ReplyCapacity,  \* RUNTIME_REPLY_CAPACITY (128)
  MaxPush,        \* bound on the number of pushes
  MaxWorker       \* bound on the number of replies of spawned workers

ASSUME SeamBounds ==
  /\ ReplyCapacity \in Nat \ {0} /\ MaxPush \in Nat /\ MaxWorker \in Nat
  /\ \A subject \in Subjects : SizeOf(subject.kind) \in Nat

VARIABLES
  box,        \* Outbox
  slot,       \* the one-slot request channel
  replies,    \* number of messages in the reply channel
  rt,         \* "idle", "replying" (has a reply to send), "exited", "dead"
  wake,       \* the waker has been signalled and not yet polled
  phase,      \* of the core: "run", "flush", "join", "joined", "abandoned"
  workers,    \* replies that spawned workers have sent so far
  accepted,   \* history: the messages the outbox accepted, in push order
  delivered   \* history: the messages the runtime received

vars == <<box, slot, replies, rt, wake, phase, workers, accepted, delivered>>

Connected == rt \in {"idle", "replying"}

Init ==
  /\ box = EmptyOutbox
  /\ slot = << >>
  /\ replies = 0
  /\ rt = "idle"
  /\ wake = FALSE
  /\ phase = "run"
  /\ workers = 0
  /\ accepted = << >>
  /\ delivered = << >>

-----------------------------------------------------------------------------
(* The core.                                                               *)

\* The message of the next push about one subject.
NewMessage(subject, changed) ==
  [kind |-> subject.kind, key |-> subject.key, n |-> Len(accepted) + 1, changed |-> changed]

\* Install an outbox and hand its head to the runtime if the slot is free.
FlushInto(newBox) ==
  /\ box'  = Flush(newBox, slot, Connected)
  /\ slot' = FlushSlot(newBox, slot, Connected)

\* AgentRuntime::send: push, then flush.
Send(subject, changed) ==
  LET m      == NewMessage(subject, changed)
      pushed == Push(box, m, SizeOf(subject.kind))
  IN  /\ phase = "run"
      /\ Len(accepted) < MaxPush
      /\ changed => subject.kind = "PaneEvidence"
      /\ FlushInto(pushed)
      /\ accepted' = IF pushed.failure = "none" THEN Append(accepted, m) ELSE accepted
      /\ UNCHANGED <<replies, rt, wake, phase, workers, delivered>>

\* A waker event: take the queued replies, then flush.
Drain ==
  /\ phase = "run"
  /\ wake
  /\ wake' = FALSE
  /\ replies' = 0
  /\ FlushInto(box)
  /\ UNCHANGED <<rt, phase, workers, accepted, delivered>>

\* The loop ends by itself or because the outbox reports a failure; dropping
\* the server then starts the shutdown handshake.
Stop ==
  /\ phase = "run"
  /\ phase' = "flush"
  /\ UNCHANGED <<box, slot, replies, rt, wake, workers, accepted, delivered>>

\* shutdown_with_bound, first loop: replies are consumed while the backlog is
\* flushed, so a full reply channel cannot block the runtime.
FlushBacklog ==
  /\ phase = "flush"
  /\ box.pending # << >>
  /\ FlushInto(box)
  /\ replies' = 0
  /\ UNCHANGED <<rt, wake, phase, workers, accepted, delivered>>

\* The first loop ends because the backlog is empty; the sender is dropped.
CloseRequests ==
  /\ phase = "flush"
  /\ box.pending = << >>
  /\ phase' = "join"
  /\ UNCHANGED <<box, slot, replies, rt, wake, workers, accepted, delivered>>

\* The first loop ends because its deadline has passed with work queued.
FlushDeadline ==
  /\ phase = "flush"
  /\ box.pending # << >>
  /\ phase' = "join"
  /\ UNCHANGED <<box, slot, replies, rt, wake, workers, accepted, delivered>>

\* The wait for the runtime thread: replies are taken and dropped.
JoinConsume ==
  /\ phase = "join"
  /\ replies > 0
  /\ replies' = replies - 1
  /\ UNCHANGED <<box, slot, rt, wake, phase, workers, accepted, delivered>>

Joined ==
  /\ phase = "join"
  /\ ~Connected
  /\ phase' = "joined"
  /\ UNCHANGED <<box, slot, replies, rt, wake, workers, accepted, delivered>>

JoinDeadline ==
  /\ phase = "join"
  /\ Connected
  /\ phase' = "abandoned"
  /\ UNCHANGED <<box, slot, replies, rt, wake, workers, accepted, delivered>>

-----------------------------------------------------------------------------
(* The runtime.                                                            *)

\* Slip: taking a request does not wake the core.
ReceiveSilently ==
  /\ rt = "idle"
  /\ slot # << >>
  /\ slot' = << >>
  /\ delivered' = Append(delivered, Head(slot))
  /\ rt' \in {"idle", "replying"}
  /\ UNCHANGED <<box, replies, wake, phase, workers, accepted>>

\* agent_main takes a request; consuming the slot wakes the core even when the
\* request has no reply.
Receive ==
  /\ rt = "idle"
  /\ slot # << >>
  /\ slot' = << >>
  /\ delivered' = Append(delivered, Head(slot))
  /\ wake' = TRUE
  /\ rt' \in {"idle", "replying"}
  /\ UNCHANGED <<box, replies, phase, workers, accepted>>

\* The dispatched request's reply is sent, once the reply channel has room.
Reply ==
  /\ rt = "replying"
  /\ replies < ReplyCapacity
  /\ replies' = replies + 1
  /\ wake' = TRUE
  /\ rt' = "idle"
  /\ UNCHANGED <<box, slot, phase, workers, accepted, delivered>>

\* A spawned worker (timeline query, worktree run, ...) replies on its own.
WorkerReply ==
  /\ Connected
  /\ workers < MaxWorker
  /\ replies < ReplyCapacity
  /\ replies' = replies + 1
  /\ workers' = workers + 1
  /\ wake' = TRUE
  /\ UNCHANGED <<box, slot, rt, phase, accepted, delivered>>

\* The request channel is closed and empty: the main loop returns.
RuntimeExit ==
  /\ rt = "idle"
  /\ phase \in {"join", "abandoned"}
  /\ slot = << >>
  /\ rt' = "exited"
  /\ UNCHANGED <<box, slot, replies, wake, phase, workers, accepted, delivered>>

\* The runtime thread dies with work queued.
RuntimeDies ==
  /\ phase = "run"
  /\ Connected
  /\ rt' = "dead"
  /\ slot' = << >>
  /\ UNCHANGED <<box, replies, wake, phase, workers, accepted, delivered>>

-----------------------------------------------------------------------------
Next ==
  \/ \E subject \in Subjects, changed \in BOOLEAN : Send(subject, changed)
  \/ Drain
  \/ Stop
  \/ FlushBacklog
  \/ CloseRequests
  \/ FlushDeadline
  \/ JoinConsume
  \/ Joined
  \/ JoinDeadline
  \/ Receive
  \/ Reply
  \/ WorkerReply
  \/ RuntimeExit
  \/ RuntimeDies

Spec == Init /\ [][Next]_vars

\* The core polls its waker; its shutdown loop and the runtime's threads run.
Fairness ==
  /\ WF_vars(Drain)
  /\ WF_vars(FlushBacklog)
  /\ WF_vars(CloseRequests)
  /\ WF_vars(JoinConsume)
  /\ WF_vars(Receive)
  /\ WF_vars(Reply)

FairSpec == Spec /\ Fairness

-----------------------------------------------------------------------------
(* Properties.                                                             *)

Messages ==
  [kind : {s.kind : s \in Subjects}, key : {s.key : s \in Subjects},
   n : 1 .. MaxPush, changed : BOOLEAN]

\* The outbox, the channels and the histories hold what they are meant to
\* hold, the outbox and both channels stay within their capacities, and the byte
\* count the limit is checked against is the size of what is queued: supersession,
\* flushing and both failures give back exactly what they took.
TypeOK ==
  /\ box \in [pending : Seq([msg : Messages, size : Nat]), bytes : 0 .. MaxBytes,
              failure : Failures]
  /\ Len(box.pending) <= MaxMessages
  /\ box.bytes = FoldLeft(LAMBDA sum, entry : sum + entry.size, 0, box.pending)
  /\ slot \in Seq(Messages) /\ Len(slot) <= 1
  /\ replies \in 0 .. ReplyCapacity
  /\ rt \in {"idle", "replying", "exited", "dead"}
  /\ wake \in BOOLEAN
  /\ phase \in {"run", "flush", "join", "joined", "abandoned"}
  /\ workers \in 0 .. MaxWorker
  /\ accepted \in Seq(Messages)
  /\ delivered \in Seq(Messages)

\* Everything the runtime has received or will receive, in delivery order.
Pipeline == delivered \o slot \o [i \in 1 .. Len(box.pending) |-> box.pending[i].msg]

\* outbox.rs: "a newer checkpoint can never overtake the event records it
\* includes", and "a save must not move across a delete or rename".  Whatever
\* is superseded, messages reach the runtime in the order of their pushes.
DeliveredInPushOrder ==
  \A i, j \in 1 .. Len(Pipeline) : i < j => Pipeline[i].n < Pipeline[j].n

InPipeline(m) == \E i \in 1 .. Len(Pipeline) : Pipeline[i].n = m.n

\* While the runtime lives, an accepted message is on its way unless a newer
\* one about the same subject replaced it, and no lifecycle operation was
\* accepted between the two: no event record or delete is ever lost.  The
\* newer one may itself be the push that overflowed the outbox (push removes
\* the older message before it checks the room), and then the outbox is failed.
OnlySupersededIsLost ==
  Connected =>
    \A i \in 1 .. Len(accepted) :
      \/ InPipeline(accepted[i])
      \/ \E j \in i + 1 .. Len(accepted) :
           /\ SameProjection(accepted[i], accepted[j])
           /\ \A k \in i + 1 .. j - 1 : ~Barrier(accepted[k])
      \/ /\ ~Healthy(box)
         /\ accepted[i].kind \in Projections
         /\ \A k \in i + 1 .. Len(accepted) : ~Barrier(accepted[k])

\* A Pane whose process changed is reported as changed to the runtime, however
\* many later observations of that Pane replaced the report.
ChangeReported ==
  (Connected /\ Healthy(box)) =>
    \A i \in 1 .. Len(accepted) :
      accepted[i].changed =>
        \E j \in 1 .. Len(Pipeline) :
          /\ Pipeline[j].n >= accepted[i].n
          /\ Pipeline[j].key = accepted[i].key
          /\ Pipeline[j].changed

\* Both: while the runtime lives, what Outbox::push took on is delivered, or a
\* newer message about the same subject stands for it and says what it said.
AcceptedIsKept == OnlySupersededIsLost /\ ChangeReported

\* Accepted work reaches the runtime although the core never waits for it:
\* every accepted message, or one that supersedes it, is received, unless the
\* runtime thread dies, the outbox overflows, or a shutdown deadline passes.
\* Needs the wake-up on every consumed request and the draining of replies
\* during shutdown.
EventuallyDelivered ==
  \A k \in 1 .. MaxPush :
    (Len(accepted) >= k) ~>
      \/ \E i \in 1 .. Len(delivered) : delivered[i].n >= k
      \/ rt = "dead" \/ ~Healthy(box)
      \/ phase \in {"join", "joined"} /\ box.pending # << >>
      \/ phase = "abandoned"
=============================================================================
