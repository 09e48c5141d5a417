----------------------------- MODULE TaskPages -----------------------------
(***************************************************************************)
(* The task manager of the attach client (uniterm-client/src/taskview.rs)  *)
(* and the pages and details the server sends it (server.rs task_page,     *)
(* reply_task_detail, flush_task_updates): a bounded page of tasks, kept   *)
(* by subscription, and one detail at a time, pulled in chunks from an     *)
(* immutable copy the server keeps per client.                             *)
(*                                                                         *)
(* A detail is two chunks; a task's text is its version.  One filter       *)
(* stands for the four, the scope, the order and the search.               *)
(***************************************************************************)
EXTENDS Naturals, Sequences, FiniteSetsExt, SequencesExt

CONSTANTS Tasks,       \* task ids, a range of positive naturals
          PageSize,    \* TASK_PAGE_SIZE
          MaxChunks,   \* bound: key chunks of the user
          MaxEdits     \* bound: changes by others

VARIABLES board,       \* the tasks: id |-> [version, done], and the log's sequence
          peer,        \* the server's record of this client
          dirty,       \* tasks_dirty
          up, down,
          view,        \* TaskView, or Closed
          draft,       \* what the last launch transfer put together
          refused,     \* a transfer was refused since the view opened
          chunks, edits

vars == <<board, peer, dirty, up, down, view, draft, refused, chunks, edits>>

None == 0
Closed == [open |-> FALSE]
NoTransfer == [id |-> None]
NoPage == [type |-> "none"]
FirstQuery == [generation |-> 0, selected |-> None, offset |-> 0, filter |-> 0]

Init ==
    /\ board = [task |-> [t \in Tasks |-> [version |-> 0, done |-> FALSE]], sequence |-> 0]
    /\ peer = [subscribed |-> TRUE, query |-> FirstQuery, transfer |-> NoTransfer, last |-> NoPage]
    /\ dirty = FALSE
    /\ up = <<[type |-> "Tasks"]>> /\ down = <<>>
    /\ view = Closed /\ draft = <<>> /\ refused = FALSE
    /\ chunks = 0 /\ edits = 0

(***************************************************************************)
(* The server.                                                             *)
(***************************************************************************)
Ids == DOMAIN board.task
\* TaskList::ordered: open tasks first, then the done ones, each by id.
Matching(b, filter) ==
    SetToSortSeq({t \in DOMAIN b.task : ~b.task[t].done}, <)
        \o (IF filter = 0 THEN SetToSortSeq({t \in DOMAIN b.task : b.task[t].done}, <) ELSE <<>>)
Before(n, m) == IF n < m THEN 0 ELSE n - m
PageStart(index) == (index \div PageSize) * PageSize

\* The offset follows the selected task, and stays inside the list.
OffsetFor(query, all) ==
    LET wanted == IF query.selected # None /\ Contains(all, query.selected)
                  THEN PageStart((CHOOSE i \in DOMAIN all : all[i] = query.selected) - 1)
                  ELSE query.offset
        last == PageStart(Before(Len(all), 1))
    IN IF wanted < last THEN wanted ELSE last

PageFrom(b, query, all) ==
    [type |-> "Tasks", total |-> Len(all), query |-> query, revision |-> b.sequence,
     items |-> SubSeq(all, query.offset + 1,
                      IF query.offset + PageSize < Len(all) THEN query.offset + PageSize ELSE Len(all))]

TaskPage(b, query) ==
    LET all == Matching(b, query.filter)
    IN PageFrom(b, [query EXCEPT !.offset = OffsetFor(query, all)], all)

\* reply_tasks.
ReplyTasks(page, from) ==
    /\ peer' = [from EXCEPT !.query = page.query, !.last = page]
    /\ down' = Append(down, page)

RefuseDetail(id) ==
    /\ peer' = [peer EXCEPT !.transfer = NoTransfer]
    /\ down' = Append(down, [type |-> "DetailError", id |-> id])

\* Slip: the chunk is cut from the task as it is now.
SendChunkAgain(from, offset) ==
    LET id == from.transfer.id
    IN /\ down' = Append(down, [type |-> "TaskDetail", offset |-> offset,
                                of |-> IF id \in Ids THEN [from.transfer EXCEPT !.version = board.task[id].version]
                                       ELSE from.transfer])
       /\ peer' = IF offset = 1 THEN [from EXCEPT !.transfer = NoTransfer] ELSE from

SendChunk(from, offset) ==
    /\ down' = Append(down, [type |-> "TaskDetail", offset |-> offset, of |-> from.transfer])
    /\ peer' = IF offset = 1 THEN [from EXCEPT !.transfer = NoTransfer] ELSE from

\* reply_task_detail: offset 0 starts a transfer, a later offset continues the
\* one the server has.
ReplyTaskDetail(id, offset, compose) ==
    IF offset = 0
    THEN IF id \in Ids
         THEN SendChunk([peer EXCEPT !.transfer = [id |-> id, revision |-> board.sequence, compose |-> compose,
                                                   version |-> board.task[id].version],
                                     !.query.selected = IF compose THEN @ ELSE id], 0)
         ELSE RefuseDetail(id)
    ELSE IF peer.transfer.id = id THEN SendChunk(peer, offset) ELSE RefuseDetail(id)

\* The events of the task commands; a reducer applies them and marks the pages.
WithoutTask(id) ==
    [task |-> [t \in Ids \ {id} |-> board.task[t]], sequence |-> board.sequence + 1]
WithStatus(id) ==
    [task |-> [board.task EXCEPT ![id].done = ~@, ![id].version = @ + 1], sequence |-> board.sequence + 1]

ServeTask(request) ==
    \/ /\ request.type \in {"Tasks", "TaskPage"}
       /\ LET query == IF request.type = "Tasks" THEN peer.query ELSE request.query
          IN ReplyTasks(TaskPage(board, query), [peer EXCEPT !.subscribed = TRUE])
       /\ UNCHANGED <<board, dirty>>
    \/ /\ request.type = "TasksClose"
       /\ peer' = [peer EXCEPT !.subscribed = FALSE, !.last = NoPage, !.transfer = NoTransfer]
       /\ UNCHANGED <<board, dirty, down>>
    \/ /\ request.type = "TaskDetail"
       /\ ReplyTaskDetail(request.id, request.offset, FALSE)
       /\ UNCHANGED <<board, dirty>>
    \/ /\ request.type = "TaskCompose"
       /\ ReplyTaskDetail(request.id, 0, TRUE)
       /\ UNCHANGED <<board, dirty>>

\* TaskDelete and TaskSetStatus: the event, then the page that shows it.
ServeChange(request) ==
    /\ request.type \in {"TaskDelete", "TaskSetStatus"}
    /\ board' = IF request.id \notin Ids THEN board
                ELSE IF request.type = "TaskDelete" THEN WithoutTask(request.id) ELSE WithStatus(request.id)
    /\ dirty' = (dirty \/ request.id \in Ids)
    /\ ReplyTasks(TaskPage(board', peer.query), peer)

Serve ==
    /\ up # <<>> /\ up' = Tail(up)
    /\ ServeTask(Head(up)) \/ ServeChange(Head(up))
    /\ UNCHANGED <<view, draft, refused, chunks, edits>>

\* Another client, an agent or the CLI changes or deletes a task.
OtherChange ==
    /\ edits < MaxEdits /\ edits' = edits + 1
    /\ \E t \in Ids : board' \in {WithoutTask(t), WithStatus(t)}
    /\ dirty' = TRUE
    /\ UNCHANGED <<peer, up, down, view, draft, refused, chunks>>

\* flush_task_updates.
FlushUpdates ==
    /\ dirty /\ dirty' = FALSE
    /\ LET page == TaskPage(board, peer.query)
       IN IF peer.subscribed /\ peer.last # page
          THEN ReplyTasks(page, peer)
          ELSE UNCHANGED <<peer, down>>
    /\ UNCHANGED <<board, up, view, draft, refused, chunks, edits>>

(***************************************************************************)
(* The view.                                                               *)
(***************************************************************************)
NewView ==
    [open |-> TRUE, generation |-> 0, revision |-> 0, loading |-> FALSE, items |-> <<>>, sel |-> 1,
     total |-> 0, offset |-> 0, shown |-> 0, asks |-> FALSE, filter |-> 0, detail |-> NoTransfer,
     fetching |-> None, bytes |-> <<>>, from |-> 0, stale |-> FALSE, launch |-> None, confirm |-> None]

Selected(v) == IF v.sel \in DOMAIN v.items THEN v.items[v.sel] ELSE None
PlaceOf(items, id) == CHOOSE i \in DOMAIN items : items[i] = id

\* The selection after a page: the same task, else an end of the page.
SelAfter(v, page) ==
    IF Contains(page.items, Selected(v)) THEN PlaceOf(page.items, Selected(v))
    ELSE IF page.query.offset < v.shown THEN Max({Len(page.items), 1}) ELSE 1

\* A transfer survives a page only when it is of the task that stays selected.
KeepTransfer(v, kept, was) ==
    IF v.loading \/ Selected(kept) # was \/ v.fetching # Selected(kept)
    THEN [kept EXCEPT !.detail = NoTransfer, !.fetching = None, !.bytes = <<>>]
    ELSE kept

WithPage(v, page) ==
    [v EXCEPT !.revision = page.revision, !.loading = FALSE, !.items = page.items, !.total = page.total,
              !.offset = page.query.offset, !.shown = page.query.offset, !.filter = page.query.filter,
              !.sel = SelAfter(v, page), !.asks = FALSE,
              !.confirm = IF Contains(page.items, @) THEN @ ELSE None]

\* refresh_page: older answers are ignored, and a launch pins its task.
RefreshPage(v, page) ==
    IF page.query.generation < v.generation THEN v
    ELSE IF v.launch # None THEN [v EXCEPT !.loading = FALSE, !.asks = TRUE]
    ELSE KeepTransfer(v, WithPage(v, page), Selected(v))

QueryOf(v) == [generation |-> v.generation + 1, selected |-> None, offset |-> v.offset, filter |-> v.filter]

\* requests: the page that was asked for, else the detail of the selection.
Requests(v) ==
    IF v.launch # None THEN <<v, <<>>>>
    ELSE IF v.asks
    THEN <<[v EXCEPT !.asks = FALSE, !.loading = TRUE, !.generation = @ + 1],
           <<[type |-> "TaskPage", query |-> QueryOf(v)]>>>>
    ELSE IF v.loading \/ Selected(v) = None \/ v.fetching = Selected(v)
            \/ ~(v.stale \/ v.detail.id # Selected(v))
    THEN <<v, <<>>>>
    ELSE <<[v EXCEPT !.fetching = Selected(v), !.stale = FALSE, !.bytes = <<>>],
           <<[type |-> "TaskDetail", id |-> Selected(v), offset |-> 0]>>>>

Wanted(v, of) ==
    IF of.compose THEN v.launch ELSE IF v.launch # None THEN None ELSE Selected(v)
Welcome(v, of) == Wanted(v, of) = of.id /\ (v.loading => of.compose)

\* receive_detail up to the last byte: <<the view, whether the chunk was taken>>.
Started(v, chunk) ==
    IF chunk.offset = 0 THEN [v EXCEPT !.bytes = <<>>, !.from = chunk.of.revision] ELSE v
Fits(v, chunk) == chunk.offset = Len(v.bytes) /\ chunk.of.revision = v.from

TakeChunk(v, chunk) ==
    IF ~Welcome(v, chunk.of) \/ ~Fits(Started(v, chunk), chunk)
    THEN IF Welcome(v, chunk.of) THEN Started(v, chunk) ELSE v
    ELSE [Started(v, chunk) EXCEPT !.bytes = Append(@, chunk.of.version)]

Whole(v) == Len(v.bytes) = 2

\* detail_continuation.
Continuation(v, chunk) ==
    IF Welcome(v, chunk.of) /\ v.from = chunk.of.revision /\ Len(v.bytes) = chunk.offset + 1
    THEN <<[type |-> "TaskDetail", id |-> chunk.of.id, offset |-> chunk.offset + 1]>> ELSE <<>>

Shown(v, chunk) ==
    [v EXCEPT !.bytes = <<>>, !.fetching = None, !.detail = [id |-> chunk.of.id, text |-> v.bytes],
              !.stale = chunk.of.revision < v.revision]

Ask(pair, first) == view' = pair[1] /\ up' = up \o first \o pair[2]

\* The detail arrives: a launch closes the manager with its draft.
OnChunk(chunk) ==
    \E v \in {TakeChunk(view, chunk)} :
       IF Whole(v) /\ chunk.of.compose
       THEN /\ view' = Closed /\ draft' = <<chunk.of.id, v.bytes>>
            /\ up' = Append(up, [type |-> "TasksClose"])
       ELSE /\ IF Whole(v) THEN Ask(Requests(Shown(v, chunk)), <<>>)
               ELSE Ask(Requests(v), Continuation(v, chunk))
            /\ UNCHANGED draft

\* detail_error; nothing is asked for after it.
DetailError(v, id) ==
    [v EXCEPT !.launch = IF @ = id THEN None ELSE @, !.fetching = IF @ = id THEN None ELSE @, !.bytes = <<>>]

Receive ==
    /\ down # <<>> /\ down' = Tail(down)
    /\ LET m == Head(down)
       IN \/ /\ m.type = "Tasks"
             /\ IF view.open THEN Ask(Requests(RefreshPage(view, m)), <<>>)
                ELSE chunks = 0 /\ Ask(Requests(RefreshPage([NewView EXCEPT !.generation = m.query.generation], m)), <<>>)
             /\ UNCHANGED <<draft, refused>>
          \/ /\ m.type = "TaskDetail" /\ view.open
             /\ OnChunk(m) /\ UNCHANGED refused
          \/ /\ m.type = "DetailError" /\ view.open
             /\ view' = DetailError(view, m.id) /\ refused' = TRUE
             /\ UNCHANGED <<up, draft>>
          \/ /\ ~view.open /\ (m.type = "Tasks" => chunks > 0)
             /\ UNCHANGED <<view, up, draft, refused>>
    /\ UNCHANGED <<board, peer, dirty, chunks, edits>>

(***************************************************************************)
(* Keys.                                                                   *)
(***************************************************************************)
Nav(v, forward) ==
    IF forward /\ v.sel = Len(v.items) /\ v.offset + Len(v.items) < v.total
    THEN [v EXCEPT !.offset = @ + PageSize, !.asks = TRUE]
    ELSE IF ~forward /\ v.sel = 1 /\ v.offset > 0
    THEN [v EXCEPT !.offset = Before(@, PageSize), !.asks = TRUE]
    ELSE IF v.items = <<>> THEN v
    ELSE [v EXCEPT !.sel = IF forward THEN IF v.sel < Len(v.items) THEN v.sel + 1 ELSE v.sel
                           ELSE Max({Before(v.sel, 1), 1})]

\* One key of the browse or the confirm mode: <<view, the action that ends the chunk>>.
KeyStep(v, key) ==
    IF v.confirm # None
    THEN <<[v EXCEPT !.confirm = None],
           IF key = "x" THEN <<[type |-> "TaskDelete", id |-> v.confirm]>> ELSE <<>>>>
    ELSE CASE key = "j" -> <<Nav(v, TRUE), <<>>>>
           [] key = "k" -> <<Nav(v, FALSE), <<>>>>
           [] key = "f" -> <<[v EXCEPT !.filter = 1 - @, !.offset = 0, !.asks = TRUE], <<>>>>
           [] key = "x" -> <<[v EXCEPT !.confirm = Selected(v)], <<>>>>
           [] key = "l" /\ Selected(v) # None ->
                <<[v EXCEPT !.launch = Selected(v)], <<[type |-> "TaskCompose", id |-> Selected(v)]>>>>
           [] key = " " /\ Selected(v) # None ->
                <<v, <<[type |-> "TaskSetStatus", id |-> Selected(v)]>>>>
           [] OTHER -> <<v, <<>>>>

\* The second key of a chunk is read only when the first produced no action.
KeyPair(first, second) ==
    IF first[2] # <<>> \/ second = "" THEN first ELSE KeyStep(first[1], second)

Chunk ==
    /\ view.open /\ chunks < MaxChunks /\ chunks' = chunks + 1
    /\ \E one \in {"j", "k", "f", "x", "l", " "}, two \in {"", "l", "x"} :
          \E done \in {KeyPair(KeyStep(view, one), two)} : Ask(Requests(done[1]), done[2])
    /\ UNCHANGED <<board, peer, dirty, down, draft, refused, edits>>

Next == Serve \/ OtherChange \/ FlushUpdates \/ Receive \/ Chunk

Spec == Init /\ [][Next]_vars

(***************************************************************************)
(* Properties.                                                             *)
(***************************************************************************)
Quiet == up = <<>> /\ down = <<>> /\ ~dirty

\* A detail on the screen and a draft are one version of one task, never the
\* chunks of two.
OneVersion ==
    /\ view.open /\ view.detail # NoTransfer => view.detail.text[1] = view.detail.text[2]
    /\ draft # <<>> => draft[2][1] = draft[2][2]

Current(id) == [id |-> id, text |-> <<board.task[id].version, board.task[id].version>>]
Idle == Quiet /\ view.open /\ view.launch = None /\ ~view.asks

\* Once nothing is in flight the manager shows the tasks of its query.  When it
\* waits for no transfer and none was refused, it shows the selected task as it
\* is now: an update that came during a transfer is not lost.
Settles ==
    Idle => /\ ~view.loading /\ view.items = TaskPage(board, peer.query).items
            /\ view.fetching = None /\ ~refused /\ Selected(view) # None => view.detail = Current(Selected(view))

\* docs/USAGE.md:335: the manager shows "the selected task's details on the
\* right"; docs/03-system-architecture.md:220: it fetches "exact selected detail".
SelectedIsShown == Idle /\ ~refused /\ Selected(view) # None => view.detail = Current(Selected(view))
=============================================================================
