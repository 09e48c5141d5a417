----------------------------- MODULE InboxBoard -----------------------------
(***************************************************************************)
(* The Project inbox: the board (uniterm-core/src/inbox.rs), the runtime's *)
(* service with its long polls and its one timer (runtime/inbox.rs), the   *)
(* core's check that an author is a live invocation (server/control.rs),   *)
(* and a reader that follows the cursor as the documentation says.         *)
(*                                                                         *)
(* Authors are <<pane, invocation>>; the human is <<0, 0>>.  A post's id   *)
(* is the sequence number of its event.  Bodies, kinds, recipients, byte   *)
(* and rate budgets are left out.                                          *)
(***************************************************************************)
EXTENDS Integers, Sequences, FiniteSets, FiniteSetsExt, TLC

CONSTANTS Panes,       \* Panes with an agent
          Owner,       \* Pane |-> the Project of its Tab
          Projects,
          Verbs,       \* what happens in this instance: operations and events
          Lives,       \* lifetimes of posts and leases
          PageLimit,   \* the clamp of list
          MaxJournal,  \* journal events kept
          MaxSeq, MaxTime, MaxQueue, MaxBinds, MaxRestarts   \* bounds of the model

VARIABLES service,     \* [board, waiting, next, observed, grants, epoch]
          queue,       \* core to runtime, in order
          inv,         \* timeline_invocations: the invocation of each Pane, 0 for none
          last,        \* the newest invocation
          bound,       \* the invocation of each Pane the runtime last heard of
          live,        \* the core's Projects
          now,
          reader       \* [cursor, copy, epoch, busy] of a human reader of ReaderProject

vars == <<service, queue, inv, last, bound, live, now, reader>>

Human == <<0, 0>>
Never == MaxTime + 9
NoClaim == [owner |-> Human, expires |-> Never]
ReaderProject == CHOOSE p \in Projects : TRUE
Reader == 0            \* its connection; an agent's is its Pane

EmptyBoard == [entries |-> <<>>, paused |-> {}, revoked |-> {}, seq |-> 0, floor |-> 0,
               journal |-> {}, changed |-> [p \in Projects |-> 0]]
Fresh(epoch) == [board |-> EmptyBoard, waiting |-> <<>>, next |-> Never, observed |-> 0,
                 grants |-> {}, epoch |-> epoch]

Init ==
    /\ service = Fresh(1)
    /\ queue = <<>>
    /\ inv = [p \in Panes |-> p] /\ bound = inv /\ last = Max(Panes)
    /\ live = Projects
    /\ now = 0
    /\ reader = [cursor |-> 0, copy |-> <<>>, epoch |-> 1, busy |-> FALSE]

(***************************************************************************)
(* The board: every change is one event, numbered, then projected.         *)
(***************************************************************************)
Entries(b) == {b.entries[i] : i \in DOMAIN b.entries}
InProject(b, p) == {e \in Entries(b) : e.project = p}
Without(f, id) == [i \in DOMAIN f \ {id} |-> f[i]]
Claimed(e) == e.claim # NoClaim

\* The journal's length is bounded; dropping its oldest event moves the floor.
Journalled(b, seq) ==
    LET j == b.journal \cup {seq} IN
    IF Cardinality(j) > MaxJournal
    THEN [b EXCEPT !.seq = seq, !.journal = j \ {Min(j)}, !.floor = Max({b.floor, Min(j)})]
    ELSE [b EXCEPT !.seq = seq, !.journal = j]
Touched(b, p) == [b EXCEPT !.changed[p] = b.seq]

RecordPost(b, m) ==
    LET c == Touched(Journalled(b, b.seq + 1), m.project) IN
    [c EXCEPT !.entries = (c.seq :> [m EXCEPT !.id = c.seq, !.thread = IF @ = 0 THEN c.seq ELSE @,
                                              !.changed = c.seq]) @@ @]
Changed(b, id, e) ==
    LET c == Touched(Journalled(b, b.seq + 1), e.project) IN
    [c EXCEPT !.entries[id] = [e EXCEPT !.changed = c.seq]]
RecordAck(b, id, author) == Changed(b, id, [b.entries[id] EXCEPT !.acks = @ \cup {author}])
RecordClaim(b, id, claim) == Changed(b, id, [b.entries[id] EXCEPT !.revision = @ + 1, !.claim = claim])
RecordRemove(b, id) ==
    LET c == Touched(Journalled(b, b.seq + 1), b.entries[id].project) IN
    [c EXCEPT !.entries = Without(@, id), !.journal = @ \ {id}, !.floor = c.seq]
RecordOther(b) == Journalled(b, b.seq + 1)        \* Pause, Revoke and Grant

\* One record per id, in id order.
RECURSIVE RemoveEach(_, _), ReleaseEach(_, _)
RemoveEach(b, ids) == IF ids = {} THEN b ELSE RemoveEach(RecordRemove(b, Min(ids)), ids \ {Min(ids)})
ReleaseEach(b, ids) ==
    IF ids = {} THEN b ELSE ReleaseEach(RecordClaim(b, Min(ids), NoClaim), ids \ {Min(ids)})

Ids(es) == {e.id : e \in es}
Deadline(b) == Min({Never} \cup {e.expires : e \in Entries(b)} \cup {e.claim.expires : e \in Entries(b)})
ExpireClaims(b, t) == ReleaseEach(b, Ids({e \in Entries(b) : Claimed(e) /\ e.claim.expires <= t}))
Expire(b, t) == ExpireClaims(RemoveEach(b, Ids({e \in Entries(b) : e.expires <= t})), t)
HeldBy(b, pane) == Ids({e \in Entries(b) : Claimed(e) /\ e.claim.owner[1] = pane})
ForgetPane(b, pane) ==
    [ReleaseEach(b, HeldBy(b, pane)) EXCEPT !.revoked = {a \in @ : a[1] # pane}]

ValidCursor(b, after) == after <= b.seq /\ (after = 0 \/ after >= b.floor)
\* list: the oldest changes after the cursor, and where to go on.
PageOf(b, p, after) ==
    LET fresh == {e \in InProject(b, p) : e.changed > after}
        first == {e \in fresh : Cardinality({d \in fresh : d.changed < e.changed}) < PageLimit}
    IN  [entries |-> first, more |-> first # fresh,
         cursor |-> IF first # fresh THEN Max({e.changed : e \in first}) ELSE b.seq]

(***************************************************************************)
(* apply: the board after an operation, or the same board when refused.    *)
(***************************************************************************)
SameKey(b, p, author, key) == {e \in InProject(b, p) : e.author = author /\ e.key = key}
Post(b, p, author, op, t) ==
    LET parent == IF op.reply = 0 THEN <<>> ELSE b.entries[op.reply] IN
    IF SameKey(b, p, author, op.key) # {} \/ (op.reply # 0 /\ op.reply \notin Ids(InProject(b, p))) THEN b
    ELSE RecordPost(b, [id |-> 0, project |-> p, author |-> author, key |-> op.key, task |-> op.task,
                        reply |-> op.reply, thread |-> IF op.reply = 0 THEN 0 ELSE parent.thread,
                        expires |-> IF op.reply = 0 THEN t + op.ttl ELSE Min({t + op.ttl, parent.expires}),
                        revision |-> 0, changed |-> 0, acks |-> {}, claim |-> NoClaim])

\* Slip: only the offer itself is looked at, not the others of its Task.
MayClaimAlone(b, e, author, op) ==
    /\ e.thread = e.id /\ e.revision = op.revision
    /\ Claimed(e) => e.claim.owner = author
MayClaim(b, e, author, op) ==
    /\ e.thread = e.id /\ e.revision = op.revision
    /\ Claimed(e) => e.claim.owner = author
    /\ e.task # 0 => \A o \in Entries(b) : o.id # e.id /\ o.task = e.task => ~Claimed(o)
MayRelease(e, author, op) ==
    /\ e.revision = op.revision /\ Claimed(e)
    /\ author = Human \/ e.claim.owner = author

Revoke(b, a) ==
    IF a \in b.revoked THEN b
    ELSE LET c == [RecordOther(b) EXCEPT !.revoked = @ \cup {a}] IN
         ReleaseEach(c, Ids({e \in Entries(c) : Claimed(e) /\ e.claim.owner = a}))

OnEntry(b, p, op, Change(_)) == IF op.id \in Ids(InProject(b, p)) THEN Change(b.entries[op.id]) ELSE b
Operate(b, p, author, op, t) ==
    CASE op.op = "post" -> Post(b, p, author, op, t)
      [] op.op = "ack" -> OnEntry(b, p, op, LAMBDA e : IF author \in e.acks THEN b ELSE RecordAck(b, op.id, author))
      [] op.op = "claim" -> OnEntry(b, p, op, LAMBDA e :
             IF MayClaim(b, e, author, op)
             THEN RecordClaim(b, op.id, [owner |-> author, expires |-> Min({t + op.lease, e.expires})]) ELSE b)
      [] op.op = "release" -> OnEntry(b, p, op, LAMBDA e :
             IF MayRelease(e, author, op) THEN RecordClaim(b, op.id, NoClaim) ELSE b)
      [] op.op = "pause" /\ author = Human ->
             IF (p \in b.paused) = op.on THEN b
             ELSE [Touched(RecordOther(b), p) EXCEPT !.paused = IF op.on THEN @ \cup {p} ELSE @ \ {p}]
      [] op.op = "clear" /\ author = Human -> RemoveEach(b, Ids(InProject(b, p)))
      [] op.op = "revoke" /\ author = Human -> Revoke(b, op.author)
      [] OTHER -> b
Permitted(b, p, author) == author \notin b.revoked /\ (p \in b.paused => author = Human)
Apply(b, p, author, op, t) == IF Permitted(b, p, author) THEN Operate(b, p, author, op, t) ELSE b

(***************************************************************************)
(* The service.  A reply to the reader is folded into its copy at once:    *)
(* new versions replace old ones, cursor_expired starts a new copy from    *)
(* zero, epoch_mismatch starts one on the new board.                       *)
(***************************************************************************)
RetainProjects(b, kept) ==
    LET c == RemoveEach(b, Ids({e \in Entries(b) : e.project \notin kept})) IN
    [c EXCEPT !.paused = @ \cap kept, !.changed = [p \in Projects |-> IF p \in kept THEN @[p] ELSE 0]]

Silent == [kind |-> "none"]
Refused(code) == [kind |-> code]
Response(s, w) ==
    IF w.author \in s.board.revoked THEN Refused("revoked")
    ELSE IF ~ValidCursor(s.board, w.after) THEN Refused("cursor_expired")
    ELSE [kind |-> "page", page |-> PageOf(s.board, w.project, w.after)]

\* A step of the service: its next state, and what the reader is told.
Told(s, r) == [s |-> s, r |-> r]

\* Slip: a watcher is only woken by a change of its own Project.
ReadyIfChanged(s, t) ==
    {c \in DOMAIN s.waiting : LET w == s.waiting[c] IN
        w.deadline <= t \/ w.author \in s.board.revoked \/ s.board.changed[w.project] > w.after}
Ready(s, t) ==
    {c \in DOMAIN s.waiting : LET w == s.waiting[c] IN
        \/ w.deadline <= t \/ w.author \in s.board.revoked
        \/ s.board.changed[w.project] > w.after \/ ~ValidCursor(s.board, w.after)}
Waking(s, ready) ==
    Told([s EXCEPT !.waiting = [c \in DOMAIN @ \ ready |-> @[c]]],
         IF Reader \in ready THEN Response(s, s.waiting[Reader]) ELSE Silent)
Noticed(s) == [s EXCEPT !.observed = s.board.seq]
Expired(s, t) == LET b == Expire(s.board, t) IN [s EXCEPT !.board = b, !.next = Deadline(b)]
Tick(s, t) ==
    LET due == s.next <= t IN
    IF ~due /\ s.observed = s.board.seq /\ \A c \in DOMAIN s.waiting : s.waiting[c].deadline > t
    THEN Told(s, Silent)
    ELSE LET n == Noticed(IF due THEN Expired(s, t) ELSE s) IN Waking(n, Ready(n, t))

NeedsEpoch(op) ==
    \/ op.op \in {"ack", "claim", "release", "clear", "revoke"}
    \/ op.op = "post" /\ op.reply # 0
    \/ op.op \in {"list", "watch"} /\ op.after # 0
Waits(s, m) ==
    /\ m.op.op = "watch" /\ m.op.timeout > 0
    /\ s.board.changed[m.project] <= m.op.after
    /\ ValidCursor(s.board, m.op.after) /\ PageOf(s.board, m.project, m.op.after).entries = {}
Waiter(m, t) == [project |-> m.project, author |-> m.author, after |-> m.op.after,
                 deadline |-> t + m.op.timeout]
Granted(s, m, t) ==
    IF Permitted(s.board, m.project, m.author)
    THEN [s EXCEPT !.board = RecordOther(Expire(@, t)), !.grants = @ \cup {m.author}]
    ELSE [s EXCEPT !.board = Expire(@, t)]
To(m, r) == IF m.connection = Reader THEN r ELSE Silent
Answered(s, m, t) ==
    IF m.op.op \in {"list", "watch"}
    THEN Told(s, To(m, Response(s, [project |-> m.project, author |-> m.author, after |-> m.op.after])))
    ELSE IF m.op.op = "credential"
    THEN Told(IF m.author \in s.grants \cup {Human} THEN s ELSE Granted(s, m, t), Silent)
    ELSE Told([s EXCEPT !.board = Apply(Expire(@, t), m.project, m.author, m.op, t)], Silent)
Refreshed(s) == [s EXCEPT !.next = Deadline(s.board)]

First(r, later) == IF r = Silent THEN later ELSE r
After(x, y) == Told(y.s, First(x.r, y.r))
Serve(s, m, t) ==
    IF m.epoch # 0 /\ m.epoch # s.epoch THEN Told(s, To(m, Refused("epoch_mismatch")))
    ELSE IF NeedsEpoch(m.op) /\ m.epoch = 0 THEN Told(s, To(m, Refused("epoch_required")))
    ELSE IF m.connection \in DOMAIN s.waiting THEN Told(s, To(m, Refused("watch_pending")))
    ELSE IF m.author \in s.board.revoked THEN Told(s, To(m, Refused("revoked")))
    ELSE IF Waits(s, m) THEN Told([s EXCEPT !.waiting = (m.connection :> Waiter(m, t)) @@ @], Silent)
    ELSE LET a == Answered(s, m, t) IN After(a, Tick(Refreshed(a.s), t))
Request(s, m, t) == LET k == Tick(s, t) IN After(k, Serve(k.s, m, t))

Forget(s, pane) ==
    Refreshed([s EXCEPT !.board = ForgetPane(@, pane),
                        !.grants = {a \in @ : a[1] # pane},
                        !.waiting = [c \in {d \in DOMAIN @ : @[d].author[1] # pane} |-> @[c]]])
Retain(s, kept) ==
    Refreshed([s EXCEPT !.board = RetainProjects(@, kept),
                        !.grants = {a \in @ : Owner[a[1]] \in kept},
                        !.waiting = [c \in {d \in DOMAIN @ : @[d].project \in kept} |-> @[c]]])
\* A connection of before the last rename is gone, and its request with it.
Handle(s, m, t) ==
    CASE m.kind = "inbox" -> IF m.generation = s.epoch THEN Request(s, m, t) ELSE Told(s, Silent)
      [] m.kind = "forget" -> Told(Forget(s, m.pane), Silent)
      [] m.kind = "projected" -> Told(Retain(s, m.kept), Silent)

(***************************************************************************)
(* The reader, the runtime's loop and the core.                            *)
(***************************************************************************)
\* Later versions replace earlier ones in the reader's copy.
Merge(copy, page) ==
    [i \in DOMAIN copy \cup Ids(page.entries) |->
        IF i \in Ids(page.entries) THEN CHOOSE e \in page.entries : e.id = i ELSE copy[i]]
Heard(r, epoch) ==
    CASE r = Silent -> reader
      [] r.kind = "page" -> [cursor |-> r.page.cursor, copy |-> Merge(reader.copy, r.page), epoch |-> epoch, busy |-> FALSE]
      [] r.kind \in {"cursor_expired", "epoch_mismatch"} ->
             [cursor |-> 0, copy |-> <<>>, epoch |-> epoch, busy |-> FALSE]

\* One turn of agent_main: a message, then the tick at the top of the loop.
Turn(x, t) == LET y == After(x, Tick(x.s, t)) IN service' = y.s /\ reader' = Heard(y.r, y.s.epoch)
RuntimeTake ==
    /\ queue # <<>> /\ service.board.seq < MaxSeq
    /\ queue' = Tail(queue)
    /\ Head(queue).kind # "renamed"
    /\ Turn(Handle(service, Head(queue), now), now)
    /\ bound' = IF Head(queue).kind = "forget" THEN [bound EXCEPT ![Head(queue).pane] = Head(queue).inv] ELSE bound
    /\ UNCHANGED <<inv, last, live, now>>
\* A Workspace rename starts an empty service with a new epoch; connections are dropped.
RuntimeRename ==
    /\ queue # <<>> /\ Head(queue).kind = "renamed"
    /\ queue' = Tail(queue)
    /\ service' = Fresh(service.epoch + 1)
    /\ reader' = [reader EXCEPT !.busy = FALSE]
    /\ UNCHANGED <<inv, last, bound, live, now>>
Timeout == Min({service.next} \cup {service.waiting[c].deadline : c \in DOMAIN service.waiting})
InboxDeadline ==
    /\ Timeout <= now
    /\ Turn(Told(service, Silent), now)
    /\ UNCHANGED <<queue, inv, last, bound, live, now>>
Clock == now < MaxTime /\ now' = now + 1 /\ UNCHANGED <<service, queue, inv, last, bound, live, reader>>

Send(m) == Len(queue) < MaxQueue /\ queue' = Append(queue, m)
Ask(c, p, author, epoch, op) ==
    Send([kind |-> "inbox", connection |-> c, project |-> p, author |-> author, epoch |-> epoch, op |-> op,
          generation |-> service.epoch])

\* What callers name: entries and revisions seen when they ask.
OnSeen(p) == {[op |-> o, id |-> e.id, revision |-> e.revision, lease |-> l] :
                 o \in Verbs \cap {"claim", "release", "ack"}, e \in InProject(service.board, p), l \in Lives}
Posts(p) == {[op |-> "post", key |-> k, task |-> k, reply |-> r, ttl |-> l] :
                 k \in {0, 1}, r \in {0} \cup (IF "reply" \in Verbs THEN Ids(InProject(service.board, p)) ELSE {}), l \in Lives}
Allowed(ops) == {o \in ops : o.op \in Verbs}
AgentAsks(p) ==
    /\ inv[p] # 0 /\ Owner[p] \in live
    /\ \E op \in Posts(Owner[p]) \cup OnSeen(Owner[p])
                 \cup Allowed({[op |-> "credential"], [op |-> "watch", after |-> service.board.seq, timeout |-> 1]}) :
           Ask(p, Owner[p], <<p, inv[p]>>, service.epoch, op)
    /\ UNCHANGED <<service, inv, last, bound, live, now, reader>>
HumanAsks ==
    /\ \E p \in live : \E op \in Allowed({[op |-> "pause", on |-> p \notin service.board.paused], [op |-> "clear"]}
                        \cup {[op |-> "revoke", author |-> <<q, inv[q]>>] : q \in {q \in Panes : inv[q] # 0 /\ Owner[q] = p}}) :
           Ask(-1, p, Human, service.epoch, op)
    /\ UNCHANGED <<service, inv, last, bound, live, now, reader>>
ReaderAsks(wait) ==
    /\ ~reader.busy /\ "read" \in Verbs
    /\ Ask(Reader, ReaderProject, Human, IF reader.cursor = 0 THEN 0 ELSE reader.epoch,
           [op |-> "watch", after |-> reader.cursor, timeout |-> wait])
    /\ reader' = [reader EXCEPT !.busy = TRUE]
    /\ UNCHANGED <<service, inv, last, bound, live, now>>

\* AgentBound, AgentResumed, AgentUnbound and PaneClosed: the core's map, then the log event.
Rebind(p, n) ==
    /\ inv' = [inv EXCEPT ![p] = n]
    /\ Send([kind |-> "forget", pane |-> p, inv |-> n])
    /\ UNCHANGED <<service, bound, live, now, reader>>
Bind(p) == "bind" \in Verbs /\ last < MaxBinds /\ Owner[p] \in live /\ last' = last + 1 /\ Rebind(p, last + 1)
Unbind(p) == "bind" \in Verbs /\ inv[p] # 0 /\ last' = last /\ Rebind(p, 0)
RemoveProject(p) ==
    /\ "bind" \in Verbs /\ p # ReaderProject /\ p \in live /\ \A q \in Panes : Owner[q] = p => inv[q] = 0
    /\ live' = live \ {p}
    /\ Send([kind |-> "projected", kept |-> live \ {p}])
    /\ UNCHANGED <<service, inv, last, bound, now, reader>>
Rename ==
    /\ service.epoch <= MaxRestarts /\ \A i \in 1..Len(queue) : queue[i].kind # "renamed"
    /\ Send([kind |-> "renamed"])
    /\ UNCHANGED <<service, inv, last, bound, live, now, reader>>

Next ==
    \/ RuntimeTake \/ RuntimeRename \/ InboxDeadline \/ Clock \/ HumanAsks \/ Rename
    \/ \E w \in {0, 1} : ReaderAsks(w)
    \/ \E p \in Panes : AgentAsks(p) \/ Bind(p) \/ Unbind(p)
    \/ \E p \in Projects : RemoveProject(p)
Spec == Init /\ [][Next]_vars

(***************************************************************************)
(* Properties.                                                             *)
(***************************************************************************)
\* Every claim, watch and credential belongs to the invocation the runtime knows for that
\* Pane, the claims to an author not revoked; no Task has two claims, not even across
\* Projects; a lease ends with its offer; a reply's parent is still there.  A replacement
\* invocation inherits nothing (Service::forget, Board::forget_pane, apply).
ClaimsAreLive ==
    LET b == service.board
        Known(a) == a = Human \/ bound[a[1]] = a[2]
    IN  /\ \A e \in Entries(b) : Claimed(e) =>
               Known(e.claim.owner) /\ e.claim.owner \notin b.revoked /\ e.claim.expires <= e.expires
        /\ \A e, d \in Entries(b) : e.task # 0 /\ e.task = d.task /\ Claimed(e) /\ Claimed(d) => e = d
        /\ \A e \in Entries(b) : e.reply # 0 => e.reply \in DOMAIN b.entries
        /\ \A c \in DOMAIN service.waiting : Known(service.waiting[c].author)
        /\ \A a \in service.grants \cup b.revoked : Known(a)

\* Nothing is slept through: the service's one timer is the earliest deadline on the board,
\* and a parked watch has nothing to report - no change of its Project, a cursor still
\* good, an author still a member (Service::tick, request, forget, retain_projects).
NothingSleptThrough ==
    /\ service.next = Deadline(service.board)
    /\ \A c \in DOMAIN service.waiting : LET w == service.waiting[c] IN
           /\ service.board.changed[w.project] <= w.after
           /\ ValidCursor(service.board, w.after) /\ w.author \notin service.board.revoked

\* A reader that follows the cursor, and starts over when told that it expired, has every
\* version up to its cursor and no message that is gone: the retention floor makes every
\* removal visible (Board::record, validate_cursor, list).
ReaderIsComplete ==
    reader.epoch = service.epoch /\ reader.cursor # 0 /\ ValidCursor(service.board, reader.cursor) =>
        /\ DOMAIN reader.copy \subseteq Ids(InProject(service.board, ReaderProject))
        /\ \A e \in InProject(service.board, ReaderProject) :
               e.changed <= reader.cursor => e.id \in DOMAIN reader.copy /\ reader.copy[e.id] = e
=============================================================================
