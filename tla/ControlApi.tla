----------------------------- MODULE ControlApi -----------------------------
(***************************************************************************)
(* The control API: connection tasks (server/src/control_api.rs), their    *)
(* dispatcher in the agent runtime (runtime.rs agent_main), the core's     *)
(* dispatch (server/control.rs) with the requests it cannot answer at once *)
(* (server/launch.rs, server/native_resume.rs), and event subscriptions    *)
(* (runtime.rs stream_subscription).                                       *)
(*                                                                         *)
(* Connection tasks, dispatcher, core, blocking workers and subscription   *)
(* streams run concurrently and share only queues.  An event is its        *)
(* sequence number.  A request is its id, connection and kind: a "query"   *)
(* is answered at once, a "mutate" may append an event first, "directory"  *)
(* (worktrees and directory checks alike) waits for a worker, "launch"     *)
(* and "resume" wait and then start a process, "inbox" leaves the core for *)
(* the runtime's inbox service.                                            *)
(***************************************************************************)
EXTENDS Naturals, Sequences, FiniteSetsExt, SequencesExt

CONSTANTS Conns,       \* connection ids: each is accepted at most once
          Kinds,       \* the kinds of request that occur
          Limit,       \* CONTROL_MAX_QUEUED_REQUESTS
          Frames,      \* CONTROL_MAX_QUEUED_FRAMES
          MaxLaunches, \* MAX_PENDING_LAUNCHES
          MaxRequests, MaxEvents, MaxRenames, MaxMoves   \* bounds of the model

VARIABLES task,        \* connection tasks: [state, gen]
          out,         \* the bounded queue of frames of each connection
          inbound,     \* connection tasks to dispatcher
          runtime,     \* [gen, outputs, after, pending, subs, tokens]
          ends,        \* subscription streams to dispatcher
          streams,     \* the streams started so far, by token
          seen,        \* by token: the last event its client has read
          written,     \* the last event on disk
          toCore, toAgent,
          core,        \* [name, seq, target, launches, history, resumes]
          work,        \* requests with a blocking worker
          asked,       \* ids given out
          orphans      \* processes started for a caller that was gone

vars == <<task, out, inbound, runtime, ends, streams, seen, written, toCore, toAgent, core, work,
          asked, orphans>>

NoCursor == MaxEvents + 1
Resp(id) == [type |-> "response", id |-> id]
Event(t, n) == [type |-> "event", token |-> t, n |-> n]
StreamError(t) == [type |-> "error", token |-> t]

Init ==
    /\ task = [c \in Conns |-> [state |-> "new", gen |-> 0]]
    /\ out = [c \in Conns |-> <<>>]
    /\ inbound = <<>> /\ ends = <<>> /\ streams = <<>> /\ seen = <<>>
    /\ runtime = [gen |-> 1, outputs |-> {}, after |-> {}, pending |-> 0,
                  subs |-> [c \in Conns |-> 0]]
    /\ written = 1
    /\ toCore = <<>> /\ toAgent = <<>>
    /\ core = [name |-> 1, seq |-> 1, target |-> 0, launches |-> {}, history |-> {}, resumes |-> {}]
    /\ work = {} /\ asked = 0 /\ orphans = {}

(***************************************************************************)
(* Connection tasks.                                                       *)
(***************************************************************************)
Open(c) == task[c].state = "open"
Held(c) ==
    \/ c \in runtime.outputs
    \/ \E t \in DOMAIN streams : streams[t].conn = c /\ streams[t].phase # "over"
    \/ \E i \in DOMAIN inbound : inbound[i].type = "Connected" /\ inbound[i].conn = c
\* send_bounded: a full queue, or one whose reader has gone, takes nothing.
Takes(c, o) == Open(c) /\ Len(o[c]) < Frames
Put(o, c, frame) == IF Takes(c, o) THEN [o EXCEPT ![c] = Append(@, frame)] ELSE o

\* lifecycle waits for room; a request does not.
Accept(c) ==
    /\ task[c].state = "new" /\ Len(inbound) < Limit
    /\ \A d \in Conns : d < c => task[d].state # "new"
    /\ task' = [task EXCEPT ![c] = [state |-> "open", gen |-> runtime.gen]]
    /\ inbound' = Append(inbound, [type |-> "Connected", conn |-> c, gen |-> runtime.gen])
    /\ UNCHANGED <<out, runtime, ends, streams, seen, written, toCore, toAgent, core, work, asked, orphans>>

ReadLine(c, kind, after) ==
    /\ Open(c) /\ asked < MaxRequests
    /\ asked' = asked + 1
    /\ inbound' = IF Len(inbound) < Limit
                  THEN Append(inbound, [type |-> "Request", conn |-> c, gen |-> task[c].gen,
                                        request |-> [id |-> asked + 1, conn |-> c, kind |-> kind,
                                                     after |-> after, name |-> task[c].gen]])
                  ELSE inbound
    /\ UNCHANGED <<task, out, runtime, ends, streams, seen, written, toCore, toAgent, core, work, orphans>>

WriteLine(c) ==
    /\ Open(c) /\ out[c] # <<>>
    /\ out' = [out EXCEPT ![c] = Tail(@)]
    /\ seen' = IF Head(out[c]).type = "event" THEN [seen EXCEPT ![Head(out[c]).token] = Head(out[c]).n]
               ELSE seen
    /\ UNCHANGED <<task, inbound, runtime, ends, streams, written, toCore, toAgent, core, work, asked, orphans>>

\* The client hangs up, a write times out, or every sender of the queue is gone.
LeaveLoop(c) ==
    /\ Open(c)
    /\ task' = [task EXCEPT ![c].state = "closing"]
    /\ out' = [out EXCEPT ![c] = <<>>]
    /\ UNCHANGED <<inbound, runtime, ends, streams, seen, written, toCore, toAgent, core, work, asked, orphans>>

SayDisconnected(c) ==
    /\ task[c].state = "closing" /\ Len(inbound) < Limit
    /\ task' = [task EXCEPT ![c].state = "gone"]
    /\ inbound' = Append(inbound, [type |-> "Disconnected", conn |-> c, gen |-> task[c].gen])
    /\ UNCHANGED <<out, runtime, ends, streams, seen, written, toCore, toAgent, core, work, asked, orphans>>

(***************************************************************************)
(* The dispatcher: one message at a time, from whichever queue has one.    *)
(***************************************************************************)
Forgotten(r, c) ==
    [r EXCEPT !.outputs = @ \ {c}, !.after = {a \in @ : a.conn # c}, !.subs[c] = 0]

TakeConnected(m) ==
    /\ m.type = "Connected"
    /\ runtime' = IF m.gen = runtime.gen THEN [runtime EXCEPT !.outputs = @ \cup {m.conn}] ELSE runtime
    /\ UNCHANGED <<out, toCore>>

\* The endpoint's scope, a stale invocation or a full count is answered here.
TakeRequest(m) ==
    /\ m.type = "Request"
    /\ IF m.gen # runtime.gen \/ m.conn \notin runtime.outputs
       THEN UNCHANGED <<runtime, out, toCore>>
       ELSE \/ out' = Put(out, m.conn, Resp(m.request.id)) /\ UNCHANGED <<runtime, toCore>>
            \/ /\ runtime.pending < Limit
               /\ toCore' = Append(toCore, [type |-> "ControlRequest", request |-> m.request])
               /\ runtime' = [runtime EXCEPT !.pending = @ + 1,
                                  !.after = IF m.request.kind = "subscribe"
                                            THEN @ \cup {[conn |-> m.conn, id |-> m.request.id, after |-> m.request.after]}
                                            ELSE @]
               /\ UNCHANGED out

TakeDisconnected(m) ==
    /\ m.type = "Disconnected"
    /\ IF m.gen # runtime.gen THEN UNCHANGED <<runtime, toCore>>
       ELSE /\ runtime' = Forgotten(runtime, m.conn)
            /\ toCore' = Append(toCore, [type |-> "ControlDisconnected", conn |-> m.conn])
    /\ UNCHANGED out

TakeInbound ==
    /\ inbound # <<>>
    /\ inbound' = Tail(inbound)
    /\ \/ TakeConnected(Head(inbound))
       \/ TakeRequest(Head(inbound))
       \/ TakeDisconnected(Head(inbound))
    /\ UNCHANGED <<task, ends, streams, seen, written, toAgent, core, work, asked, orphans>>

\* Slip: any report from the connection's streams ends the current one.
OwnEndOfAny(e, r) == e.gen = r.gen /\ r.subs[e.conn] # 0
OwnEnd(e, r) == e.gen = r.gen /\ r.subs[e.conn] = e.token

TakeEnd ==
    /\ ends # <<>>
    /\ ends' = Tail(ends)
    /\ runtime' = LET e == Head(ends) IN
                  IF ~OwnEnd(e, runtime) THEN runtime
                  ELSE IF e.disconnect THEN Forgotten(runtime, e.conn)
                  ELSE [runtime EXCEPT !.subs[e.conn] = 0]
    /\ UNCHANGED <<task, out, inbound, streams, seen, written, toCore, toAgent, core, work, asked, orphans>>

\* CoreToAgent::ControlResponse.
LiveStream(c) == runtime.subs[c] # 0 /\ streams[runtime.subs[c]].phase # "over"
TakeResponse(m) ==
    LET refused == m.through # NoCursor /\ LiveStream(m.conn)
        answered == [runtime EXCEPT !.pending = IF @ = 0 THEN 0 ELSE @ - 1,
                                    !.after = {a \in @ : a.conn # m.conn \/ a.id # m.id}]
        starts == m.through # NoCursor /\ ~refused
        cursors == {a \in runtime.after : a.conn = m.conn /\ a.id = m.id}
        after == IF cursors = {} THEN 0 ELSE (CHOOSE a \in cursors : TRUE).after
        token == Len(streams) + 1
    IN
    /\ m.type = "ControlResponse"
    /\ IF m.conn \notin runtime.outputs
       THEN runtime' = answered /\ UNCHANGED <<out, streams, seen>>
       ELSE IF ~Takes(m.conn, out)
       THEN /\ runtime' = [answered EXCEPT !.outputs = @ \ {m.conn}, !.subs[m.conn] = 0]
            /\ UNCHANGED <<out, streams, seen>>
       ELSE /\ out' = Put(out, m.conn, Resp(m.id))
            /\ runtime' = IF starts THEN [answered EXCEPT !.subs[m.conn] = token] ELSE answered
            /\ streams' = IF starts
                          THEN Append(streams, [conn |-> m.conn, gen |-> runtime.gen, phase |-> "past",
                                                cursor |-> after, through |-> m.through, live |-> <<>>])
                          ELSE streams
            /\ seen' = IF starts THEN Append(seen, after) ELSE seen
    /\ UNCHANGED written

\* CoreToAgent::EventAppend: written, then offered to every subscription; one
\* that cannot take it loses its connection.
Offer(n) ==
    LET takes(c) == LiveStream(c) /\ Len(streams[runtime.subs[c]].live) < Frames
        subscribed == {c \in Conns : runtime.subs[c] # 0}
        refused == {c \in subscribed : ~takes(c)}
    IN  /\ streams' = [t \in DOMAIN streams |->
                          IF \E c \in subscribed \ refused : runtime.subs[c] = t
                          THEN [streams[t] EXCEPT !.live = Append(@, n)] ELSE streams[t]]
        /\ runtime' = [runtime EXCEPT !.outputs = @ \ refused,
                                      !.subs = [c \in Conns |-> IF c \in refused THEN 0 ELSE @[c]]]

TakeAppend(m) ==
    /\ m.type = "EventAppend"
    /\ written' = m.n
    /\ Offer(m.n)
    /\ UNCHANGED <<out, seen>>

TakeInbox(m) ==
    /\ m.type = "Inbox"
    /\ runtime' = [runtime EXCEPT !.pending = IF @ = 0 THEN 0 ELSE @ - 1]
    /\ out' = IF m.conn \in runtime.outputs THEN Put(out, m.conn, Resp(m.id)) ELSE out
    /\ UNCHANGED <<streams, seen, written>>

TakeRename(m) ==
    /\ m.type = "ControlRename"
    /\ runtime' = [runtime EXCEPT !.gen = @ + 1, !.outputs = {}, !.after = {}, !.subs = [c \in Conns |-> 0]]
    /\ UNCHANGED <<out, streams, seen, written>>

TakeCore ==
    /\ toAgent # <<>>
    /\ toAgent' = Tail(toAgent)
    /\ \/ TakeResponse(Head(toAgent))
       \/ TakeAppend(Head(toAgent))
       \/ TakeInbox(Head(toAgent))
       \/ TakeRename(Head(toAgent))
    /\ UNCHANGED <<task, inbound, ends, toCore, core, work, asked, orphans>>

(***************************************************************************)
(* A subscription's stream.                                                *)
(***************************************************************************)
Report(t, disconnect) ==
    IF Len(ends) < Limit
    THEN Append(ends, [conn |-> streams[t].conn, gen |-> streams[t].gen, token |-> t, disconnect |-> disconnect])
    ELSE ends
Over(t) == [streams EXCEPT ![t].phase = "over", ![t].live = <<>>]

\* Send event n, or give the connection up.
Forward(t, n, next) ==
    IF Takes(streams[t].conn, out)
    THEN /\ out' = Put(out, streams[t].conn, Event(t, n))
         /\ streams' = next /\ UNCHANGED ends
    ELSE /\ streams' = Over(t) /\ ends' = Report(t, TRUE) /\ UNCHANGED out

GiveError(t) ==
    /\ out' = Put(out, streams[t].conn, StreamError(t))
    /\ streams' = Over(t)
    /\ ends' = Report(t, ~Takes(streams[t].conn, out))

\* visit_through: the events after the cursor, up to the captured one.
PastEnd(s) == s.through

CatchUp(t) ==
    /\ streams[t].phase = "past"
    /\ \/ /\ streams[t].cursor < PastEnd(streams[t])
          /\ Forward(t, streams[t].cursor + 1, [streams EXCEPT ![t].cursor = @ + 1])
       \/ /\ streams[t].cursor >= PastEnd(streams[t])
          /\ streams' = [streams EXCEPT ![t].phase = "live", ![t].cursor = streams[t].through]
          /\ UNCHANGED <<out, ends>>
       \/ GiveError(t)             \* the history cannot be read

GoLive(t) ==
    LET n == Head(streams[t].live)
        rest == [streams EXCEPT ![t].live = Tail(@)] IN
    /\ streams[t].phase = "live" /\ streams[t].live # <<>>
    /\ \/ n <= streams[t].cursor /\ streams' = rest /\ UNCHANGED <<out, ends>>
       \/ n = streams[t].cursor + 1 /\ Forward(t, n, [rest EXCEPT ![t].cursor = n])
       \/ n > streams[t].cursor + 1 /\ GiveError(t)

\* The dispatcher dropped its end of the queue.
RunDry(t) ==
    /\ streams[t].phase = "live" /\ streams[t].live = <<>>
    /\ runtime.subs[streams[t].conn] # t
    /\ streams' = Over(t)
    /\ UNCHANGED <<out, ends>>

Stream ==
    /\ \E t \in DOMAIN streams : CatchUp(t) \/ GoLive(t) \/ RunDry(t)
    /\ UNCHANGED <<task, inbound, runtime, seen, written, toCore, toAgent, core, work, asked, orphans>>

(***************************************************************************)
(* The core.                                                               *)
(***************************************************************************)
Reply(r, through) == [type |-> "ControlResponse", conn |-> r.conn, id |-> r.id, through |-> through]
Answer(r) == Reply(r, NoCursor)
EventAppend(n) == [type |-> "EventAppend", n |-> n]

\* A caller the server knows to be gone: its task is over and nothing that
\* says so is still on the way.
KnownGone(c) ==
    /\ task[c].state = "gone" /\ c \notin runtime.outputs
    /\ \A i \in DOMAIN inbound : inbound[i].conn # c
    /\ \A i \in DOMAIN toCore : toCore[i].type = "ControlDisconnected" => toCore[i].conn # c
Start(r) == orphans' = IF KnownGone(r.conn) THEN orphans \cup {r} ELSE orphans

\* on_control_request, for the kinds answered in the same turn.
WrongWorkspace(r) ==
    /\ r.name # core.name
    /\ toAgent' = Append(toAgent, Answer(r)) /\ UNCHANGED core
AnswerQuery(r) ==
    /\ r.name = core.name /\ r.kind = "query"
    /\ toAgent' = Append(toAgent, Answer(r)) /\ UNCHANGED core
\* A mutation is refused, or appends its event before it is answered.
AnswerMutation(r) ==
    /\ r.name = core.name /\ r.kind = "mutate"
    /\ \/ toAgent' = Append(toAgent, Answer(r)) /\ UNCHANGED core
       \/ /\ core.seq < MaxEvents
          /\ toAgent' = toAgent \o <<EventAppend(core.seq + 1), Answer(r)>>
          /\ core' = [core EXCEPT !.seq = @ + 1]
AnswerSubscribe(r) ==
    /\ r.name = core.name /\ r.kind = "subscribe"
    /\ toAgent' = Append(toAgent, IF r.after > core.seq THEN Answer(r) ELSE Reply(r, core.seq))
    /\ UNCHANGED core
AnswerInbox(r) ==
    /\ r.name = core.name /\ r.kind = "inbox"
    /\ toAgent' = Append(toAgent, [type |-> "Inbox", conn |-> r.conn, id |-> r.id])
    /\ UNCHANGED core
AnswerNow(r) ==
    /\ \/ WrongWorkspace(r) \/ AnswerQuery(r) \/ AnswerMutation(r) \/ AnswerSubscribe(r) \/ AnswerInbox(r)
    /\ UNCHANGED work

\* launch_target and source_target: the Project, directory, anchor Pane and
\* invocation a launch is for.
LaunchTarget == core.target
Owns(p) == p.name = core.name /\ p.target = LaunchTarget

\* queue_provider_resolution, start_worktree_operation, TimelineResume.
Defer(r) ==
    /\ r.name = core.name
    /\ IF r.kind = "launch" /\ Cardinality(core.launches) >= MaxLaunches
       THEN toAgent' = Append(toAgent, Answer(r)) /\ UNCHANGED <<core, work>>
       ELSE /\ work' = work \cup {[id |-> r.id, conn |-> r.conn, stage |-> r.kind]}
            /\ core' = CASE r.kind = "launch" -> [core EXCEPT !.launches = @ \cup
                                {[id |-> r.id, conn |-> r.conn, name |-> core.name, target |-> LaunchTarget]}]
                         [] r.kind = "resume" -> [core EXCEPT !.history = @ \cup {[id |-> r.id, conn |-> r.conn]}]
                         [] r.kind = "directory" -> core
            /\ UNCHANGED toAgent

\* cancel_control_launches and cancel_native_resumes: the dispatcher counts
\* the request until it is answered, so a cancelled one is answered too.
Owned(rs, c) == {r \in rs : r.conn = c}
Cancelled(c) == Owned(core.launches, c) \cup Owned(core.history, c) \cup Owned(core.resumes, c)
CancelAll(c) ==
    /\ core' = [core EXCEPT !.launches = @ \ Owned(@, c), !.history = @ \ Owned(@, c),
                            !.resumes = @ \ Owned(@, c)]
    /\ toAgent' = toAgent \o SetToSeq({Answer(r) : r \in Cancelled(c)})
    /\ UNCHANGED work

CoreTake ==
    /\ toCore # <<>>
    /\ toCore' = Tail(toCore)
    /\ LET m == Head(toCore) IN
       \/ m.type = "ControlRequest" /\ AnswerNow(m.request)
       \/ m.type = "ControlRequest" /\ m.request.kind \in {"launch", "resume", "directory"} /\ Defer(m.request)
       \/ m.type = "ControlDisconnected" /\ CancelAll(m.conn)
    /\ UNCHANGED <<task, out, inbound, runtime, ends, streams, seen, written, asked, orphans>>

Named(rs, w) == CHOOSE r \in rs : r.id = w.id
Has(rs, w) == \E r \in rs : r.id = w.id

\* finish_provider_resolution: the worker may also have failed.
LaunchDone(w) ==
    /\ w.stage = "launch"
    /\ IF ~Has(core.launches, w) THEN UNCHANGED <<core, toAgent, orphans>>
       ELSE LET p == Named(core.launches, w) IN
            /\ core' = [core EXCEPT !.launches = @ \ {p}]
            /\ toAgent' = Append(toAgent, Answer(w))
            /\ \/ Owns(p) /\ Start(p)
               \/ UNCHANGED orphans
    /\ work' = work \ {w}

\* finish_timeline_resume: the history is read, the executable is next.
ResumeRead(w) ==
    /\ w.stage = "resume"
    /\ \/ /\ ~Has(core.history, w)
          /\ work' = work \ {w} /\ UNCHANGED <<core, toAgent>>
       \/ /\ Has(core.history, w)
          /\ core' = [core EXCEPT !.history = @ \ {Named(core.history, w)}]
          /\ toAgent' = Append(toAgent, Answer(w)) /\ work' = work \ {w}
       \/ /\ Has(core.history, w)
          /\ core' = [core EXCEPT !.history = @ \ {Named(core.history, w)},
                                  !.resumes = @ \cup {[id |-> w.id, conn |-> w.conn, name |-> core.name]}]
          /\ work' = (work \ {w}) \cup {[w EXCEPT !.stage = "resolve"]} /\ UNCHANGED toAgent
    /\ UNCHANGED orphans

\* finish_native_resume.
ResumeResolved(w) ==
    /\ w.stage = "resolve"
    /\ IF ~Has(core.resumes, w) THEN UNCHANGED <<core, toAgent, orphans>>
       ELSE LET p == Named(core.resumes, w) IN
            /\ core' = [core EXCEPT !.resumes = @ \ {p}]
            /\ toAgent' = Append(toAgent, Answer(w))
            /\ (p.name = core.name /\ Start(p)) \/ UNCHANGED orphans
    /\ work' = work \ {w}

DirectoryDone(w) ==
    /\ w.stage = "directory"
    /\ toAgent' = Append(toAgent, Answer(w)) /\ work' = work \ {w}
    /\ UNCHANGED <<core, orphans>>

WorkDone ==
    /\ \E w \in work : LaunchDone(w) \/ ResumeRead(w) \/ ResumeResolved(w) \/ DirectoryDone(w)
    /\ UNCHANGED <<task, out, inbound, runtime, ends, streams, seen, written, toCore, asked>>

\* The core's own life: an event, a rename of the Workspace, a launch target
\* that changes hands.
CoreMoves ==
    /\ \/ /\ core.seq < MaxEvents
          /\ core' = [core EXCEPT !.seq = @ + 1]
          /\ toAgent' = Append(toAgent, EventAppend(core.seq + 1))
       \/ /\ core.name <= MaxRenames
          /\ core' = [core EXCEPT !.name = @ + 1]
          /\ toAgent' = Append(toAgent, [type |-> "ControlRename"])
       \/ /\ core.target < MaxMoves
          /\ core' = [core EXCEPT !.target = @ + 1] /\ UNCHANGED toAgent
    /\ UNCHANGED <<task, out, inbound, runtime, ends, streams, seen, written, toCore, work, asked, orphans>>

Next ==
    \/ \E c \in Conns : Accept(c) \/ WriteLine(c) \/ LeaveLoop(c) \/ SayDisconnected(c)
    \/ \E c \in Conns, kind \in Kinds \ {"subscribe"} : ReadLine(c, kind, 0)
    \/ \E c \in Conns, kind \in Kinds \cap {"subscribe"}, after \in 0..2 : ReadLine(c, kind, after)
    \/ TakeInbound \/ TakeEnd \/ TakeCore \/ Stream
    \/ CoreTake \/ WorkDone \/ CoreMoves

Spec == Init /\ [][Next]_vars

(***************************************************************************)
(* Properties.                                                             *)
(***************************************************************************)
Waiting ==
    {toCore[i].request.id : i \in {j \in DOMAIN toCore : toCore[j].type = "ControlRequest"}}
    \cup {r.id : r \in core.launches \cup core.history \cup core.resumes}
    \cup {w.id : w \in {v \in work : v.stage = "directory"}}
Answers == {i \in DOMAIN toAgent : toAgent[i].type \in {"ControlResponse", "Inbox"}}

\* runtime.rs control_pending_requests counts exactly the requests that are
\* with the core: each is answered once, also when its caller left, its worker
\* failed or the Workspace was renamed, so the 64 places never leak away.
PendingIsOutstanding == runtime.pending = Cardinality(Waiting) + Cardinality(Answers)

\* docs/19-control-api.md:144: a subscriber gets every event after its cursor,
\* once and in order (runtime.rs stream_subscription): what its client has read
\* and what is queued are contiguous; and while it lives, a stream whose queue
\* is empty has passed on everything on disk.
EventsInOrder ==
    \A t \in DOMAIN streams :
        LET s == streams[t]
            queued == SelectSeq(out[s.conn], LAMBDA f : f.type = "event" /\ f.token = t)
        IN  /\ \A i \in DOMAIN queued : queued[i].n = seen[t] + i
            /\ (s.phase = "live" /\ s.live = <<>> /\ runtime.subs[s.conn] = t /\ Open(s.conn))
                   => seen[t] + Len(queued) = written

\* runtime.rs 679-696: a stream that still runs is fed, or its connection is
\* being closed: a late report of an earlier stream never silences it.
RunningIsFed ==
    \A t \in DOMAIN streams :
        (streams[t].phase # "over" /\ streams[t].conn \in runtime.outputs) => runtime.subs[streams[t].conn] = t

\* native_resume.rs "A disconnected caller cannot leave a delayed mutation
\* behind.", launch.rs "A disconnected control requester cannot create processes
\* from a late callback.": for callers of the current Workspace name.
CancelledNeverStarts == \A r \in orphans : task[r.conn].gen # runtime.gen

\* The same, as the comments state it.
GoneNeverStarts == orphans = {}
=============================================================================
