------------------------------ MODULE TodayView ------------------------------
(***************************************************************************)
(* The Today view of a Workspace (server/today.rs): the core asks the      *)
(* runtime for a page of the day's history, shows what comes back, and     *)
(* asks again when the log grows.  The runtime answers each question on a  *)
(* thread of its own, so answers come in any order; the view's generation  *)
(* tells which one is still wanted.  Lines typed in the view resume a      *)
(* session, start a manager, add a note, or change the date or the filter. *)
(*                                                                         *)
(* What a row shows, and how it is drawn, is left out (TimelineRows has    *)
(* how rows are made); here rows are invocations and single observations.  *)
(***************************************************************************)
EXTENDS Naturals, Sequences, FiniteSets, SequencesExt

CONSTANTS Panes, PageSize,
          Keys,           \* the kinds of key the user presses
          MaxEvents, MaxDays, MaxKeys, MaxFailures

VARIABLES log,      \* the events the core has appended, oldest first
          day,      \* the calendar
          live,     \* Pane -> the invocation running in it (timeline_invocations)
          view,     \* the view (Server.today)
          gen,      \* Server.today_generation
          up, down, \* core -> runtime, runtime -> core
          watch,    \* the runtime's timeline_watch
          work,     \* questions a thread of the runtime is at
          keys, failures,
          rolled,   \* midnight has passed and nothing has happened since
          meant,    \* the row the open line was asked about
          took,     \* what a resume line acted on, against what was meant
          went,     \* where g led, against the row it was pressed on
          manager   \* what became of the managers asked for

vars == <<log, day, live, view, gen, up, down, watch, work, keys, failures, rolled, meant, took, went, manager>>
ghosts == <<meant, took, went, manager>>

None == 0
Today == 0                    \* the date "today"
Bad == MaxDays + 1            \* a date that cannot be read
Dates == 0 .. Bad

-----------------------------------------------------------------------------
(* The history, and a page of it *)

Event(what, pane, inv) == [what |-> what, pane |-> pane, inv |-> inv, day |-> day]
changes_day(e) == e.what # "quiet"

Observation(i) == [seq |-> i, inv |-> log[i].inv, pane |-> log[i].pane]

Matches(e, filter) == filter = "all" \/ (filter = "notes" /\ e.what = "note")

\* The sequence numbers of a set, in their order
Ascending(s) == SetToSortSeq(s, <)

\* An agent is open until its Pane is unbound or bound again; what was last seen of
\* it is shown also when the page no longer has it.
OpenAgents(through) ==
    {i \in 1 .. through :
        /\ log[i].inv # None /\ log[i].what # "unbound"
        /\ \A j \in i + 1 .. through : log[j].pane # log[i].pane}

\* query_once: the newest observations of the day before a cursor
PageOf(date, filter, before, through) ==
    LET on == IF date = Today THEN day ELSE date
        all == {i \in 1 .. through : /\ changes_day(log[i]) /\ log[i].day = on
                                     /\ Matches(log[i], filter) /\ (before # None => i < before)}
        rows == {i \in all : Cardinality({j \in all : j > i}) < PageSize}
        open == IF before = None /\ on = day
                THEN {i \in OpenAgents(through) \ rows : Matches(log[i], filter)} ELSE {}
    IN  [day |-> on, through |-> through, rows |-> rows, open |-> open,
         next |-> IF rows = all THEN None ELSE CHOOSE i \in rows : \A j \in rows : i <= j]

NoPage == [day |-> Bad, through |-> 0, rows |-> {}, open |-> {}, next |-> None]

-----------------------------------------------------------------------------
(* The view *)

Closed == [open |-> FALSE, gen |-> 0, date |-> Today, page |-> NoPage, pending |-> FALSE, dirty |-> 0,
           before |-> None, sel |-> 1, expanded |-> FALSE, rows |-> <<>>, mode |-> "timeline",
           filter |-> "all", input |-> "no", message |-> "loading",
           failed |-> FALSE]   \* the last answer was that the history could not be read

\* One row for an invocation, with its newest observation; Agents and Flow have
\* no others.
RowsOf(page, mode) ==
    LET seen == page.rows \cup page.open
        newest == {i \in seen : \A j \in seen : log[j].inv = log[i].inv /\ log[i].inv # None => j <= i}
        first(i) == CHOOSE k \in seen : /\ (k = i \/ (log[k].inv = log[i].inv /\ log[i].inv # None))
                                        /\ \A j \in seen : log[j].inv = log[i].inv /\ log[i].inv # None => k <= j
        shown == {i \in newest : mode = "timeline" \/ log[i].inv # None}
        order == SetToSortSeq(shown, LAMBDA a, b : first(a) < first(b))
    IN  [k \in DOMAIN order |-> Observation(order[k])]

Same(a, b) == (a.inv # None /\ a.inv = b.inv) \/ a.seq = b.seq
Clamp(sel, rows) == IF rows = <<>> THEN 1 ELSE IF sel > Len(rows) THEN Len(rows) ELSE sel
HasRow(v) == v.sel \in DOMAIN v.rows
Row(v) == IF HasRow(v) THEN v.rows[v.sel] ELSE [seq |-> 0, inv |-> None, pane |-> None]

\* Slip: the selection stays at its place instead of at its row.
rebuild_rowsInPlace(v) ==
    LET rows == RowsOf(v.page, v.mode) IN [v EXCEPT !.rows = rows, !.sel = Clamp(v.sel, rows)]

rebuild_rows(v) ==
    LET rows == RowsOf(v.page, v.mode)
        at == IF HasRow(v) THEN SelectInSeq(rows, LAMBDA r : Same(Row(v), r)) ELSE 0
    IN  [v EXCEPT !.rows = rows, !.sel = Clamp(IF at # 0 THEN at ELSE v.sel, rows)]

\* The question the view asks, and the view that waits for its answer
Asking(v, before) == [v EXCEPT !.gen = gen + 1, !.pending = TRUE, !.before = before]
Query(v, before) == [kind |-> "query", gen |-> gen + 1, date |-> v.date, filter |-> v.filter,
                     before |-> before, through |-> Len(log)]

\* request_today, after whatever else was sent
request_today(v, before, sent) ==
    /\ view' = Asking(v, before)
    /\ gen' = gen + 1
    /\ up' = Append(up \o sent, Query(v, before))
    /\ rolled' = FALSE

Watch(on) == [kind |-> "watch", on |-> on]

\* A line left with the view it was typed in, a manager asked for in it likewise.
LeftWith == IF manager = "asked" THEN "none" ELSE manager

close_today(sent) ==
    /\ view' = Closed
    /\ up' = Append(up \o sent, Watch(FALSE))
    /\ manager' = LeftWith
    /\ UNCHANGED <<gen, rolled>>

Init ==
    /\ log = <<>> /\ day = 1 /\ live = [p \in Panes |-> None] /\ view = Closed /\ gen = 0
    /\ up = <<>> /\ down = <<>> /\ watch = FALSE /\ work = {} /\ keys = 0 /\ failures = 0
    /\ rolled = FALSE /\ meant = None /\ took = TRUE /\ went = TRUE /\ manager = "none"

-----------------------------------------------------------------------------
(* What goes on in the Workspace *)

Logged(e) == /\ log' = Append(log, e)
             /\ up' = Append(up, [kind |-> "event", seq |-> Len(log) + 1])

Invocation == Len(log) + 1     \* an agent is known by the event that bound it

\* An agent is bound to a Pane, is seen to do something, or leaves; or something
\* happens that Today does not show.
Happens ==
    /\ Len(log) < MaxEvents
    /\ \/ \E p \in Panes : /\ Logged(Event("bound", p, Invocation)) /\ live' = [live EXCEPT ![p] = Invocation]
       \/ \E p \in Panes : /\ live[p] # None /\ Logged(Event("status", p, live[p])) /\ UNCHANGED live
       \/ \E p \in Panes : /\ live[p] # None /\ Logged(Event("unbound", p, live[p])) /\ live' = [live EXCEPT ![p] = None]
       \/ Logged(Event("quiet", None, None)) /\ UNCHANGED live
    /\ UNCHANGED <<day, view, gen, down, watch, work, keys, failures, rolled, ghosts>>

Midnight ==
    /\ day < MaxDays
    /\ day' = day + 1 /\ rolled' = TRUE
    /\ UNCHANGED <<log, live, view, gen, up, down, watch, work, keys, failures, ghosts>>

-----------------------------------------------------------------------------
(* The runtime *)

Take ==
    /\ up # <<>>
    /\ up' = Tail(up)
    /\ \E m \in {Head(up)} :
         /\ watch' = IF m.kind = "watch" THEN m.on ELSE watch
         /\ work' = IF m.kind \in {"query", "resume", "resolve"} THEN work \cup {m} ELSE work
         /\ down' = IF m.kind = "event" /\ watch /\ changes_day(log[m.seq])
                    THEN Append(down, [kind |-> "changed", seq |-> m.seq]) ELSE down
    /\ UNCHANGED <<log, day, live, view, gen, keys, failures, rolled, ghosts>>

\* A thread finishes: a page, what is known of a session, or where a provider is.
Finish ==
    /\ \E m \in work : \E ok \in BOOLEAN :
         /\ (~ok /\ (m.kind = "query" => m.date # Bad)) => failures < MaxFailures
         /\ m.kind = "query" /\ m.date = Bad => ~ok
         /\ work' = work \ {m}
         /\ failures' = IF ok \/ (m.kind = "query" /\ m.date = Bad) THEN failures ELSE failures + 1
         /\ down' = Append(down, [kind |-> m.kind, gen |-> m.gen, ok |-> ok,
                                  page |-> IF m.kind = "query" /\ ok
                                           THEN PageOf(m.date, m.filter, m.before, m.through) ELSE NoPage])
    /\ UNCHANGED <<log, day, live, view, gen, up, watch, keys, rolled, ghosts>>

-----------------------------------------------------------------------------
(* The core hears *)

Wanted(m) == view.open /\ view.gen = m.gen

\* timeline_loaded
Loaded(m) ==
    LET read == IF m.ok THEN rebuild_rows([view EXCEPT !.page = m.page, !.message = "clear", !.failed = FALSE])
                ELSE [view EXCEPT !.message = "error", !.dirty = 0, !.failed = TRUE]
        calm == [read EXCEPT !.pending = FALSE]
    IN  /\ IF ~Wanted(m) THEN UNCHANGED <<view, gen, up, rolled>>
           ELSE IF calm.dirty > calm.page.through THEN request_today(calm, calm.before, <<>>)
           ELSE view' = calm /\ UNCHANGED <<gen, up, rolled>>
        /\ UNCHANGED <<log, live, manager>>

\* TimelineChanged
Changed(m) ==
    LET noted == [view EXCEPT !.dirty = m.seq]
    IN  /\ IF ~view.open THEN UNCHANGED <<view, gen, up, rolled>>
           ELSE IF ~view.pending THEN request_today(noted, view.before, <<>>)
           ELSE view' = noted /\ UNCHANGED <<gen, up, rolled>>
        /\ UNCHANGED <<log, live, manager>>

\* The launch a resume or a manager ends in: a new Tab in the background, if the
\* Project is as recorded and the Pane could be made.
Launches(m, p, said) ==
    /\ m.ok /\ Len(log) < MaxEvents
    /\ Logged(Event("bound", p, Invocation))
    /\ live' = [live EXCEPT ![p] = Invocation]
    /\ view' = said

\* finish_timeline_resume: only the view's latest question is served.
Resumed(m) ==
    LET said == [view EXCEPT !.pending = FALSE, !.message = "said"]
    IN  /\ \/ ~Wanted(m) /\ UNCHANGED <<view, log, live, up>>
           \/ Wanted(m) /\ view' = said /\ UNCHANGED <<log, live, up>>
           \/ Wanted(m) /\ \E p \in Panes : live[p] = None /\ Launches(m, p, said)
        /\ UNCHANGED <<gen, rolled, manager>>

\* finish_provider_resolution, for a manager
ManagerResolved(m) ==
    LET said == [view EXCEPT !.message = "said"]
    IN  /\ \/ ~Wanted(m) /\ UNCHANGED <<view, log, live, up>>
           \/ Wanted(m) /\ view' = said /\ UNCHANGED <<log, live, up>>
           \/ Wanted(m) /\ \E p \in Panes : live[p] = None /\ Launches(m, p, said)
        /\ manager' = IF Wanted(m) THEN "answered" ELSE IF manager = "asked" THEN "dropped" ELSE manager
        /\ UNCHANGED <<gen, rolled>>

Hear ==
    /\ down # <<>>
    /\ down' = Tail(down)
    /\ \E m \in {Head(down)} :
         \/ m.kind = "query" /\ Loaded(m)
         \/ m.kind = "changed" /\ Changed(m)
         \/ m.kind = "resume" /\ Resumed(m)
         \/ m.kind = "resolve" /\ ManagerResolved(m)
    /\ UNCHANGED <<day, watch, work, keys, failures, meant, took, went>>

-----------------------------------------------------------------------------
(* The user *)

Press(kind) == /\ kind \in Keys /\ keys < MaxKeys /\ keys' = keys + 1
               /\ UNCHANGED <<day, down, watch, work, failures>>
Driving == view.open /\ view.input = "no" /\ ~view.expanded

\* Ctrl-W t, or a click: opens the view, or asks again for what it shows
open_today ==
    /\ Press("open")
    /\ request_today(IF view.open THEN view ELSE [Closed EXCEPT !.open = TRUE], None, <<Watch(TRUE)>>)
    /\ UNCHANGED <<log, live, ghosts>>

Leave ==
    /\ Press("close") /\ Driving
    /\ close_today(<<>>)
    /\ UNCHANGED <<log, live, meant, took, went>>

Inspect ==
    /\ Press("inspect") /\ view.open /\ view.input = "no"
    /\ view' = [view EXCEPT !.expanded = ~@]
    /\ UNCHANGED <<log, live, gen, up, rolled, ghosts>>

SwitchMode ==
    /\ Press("mode") /\ Driving
    /\ view' = rebuild_rows([view EXCEPT !.mode = IF @ = "agents" THEN "timeline" ELSE "agents"])
    /\ UNCHANGED <<log, live, gen, up, rolled, ghosts>>

\* The arrow keys move the selection; so does the mouse, also while a line is typed,
\* and then the user sees which row the line is about.
Select ==
    /\ Press("select") /\ view.open
    /\ \E to \in DOMAIN view.rows :
         /\ view.input = "no" => (to = view.sel + 1 \/ to + 1 = view.sel)
         /\ view' = [view EXCEPT !.sel = to]
         /\ meant' = IF view.input = "r" THEN view.rows[to].seq ELSE meant
    /\ UNCHANGED <<log, live, gen, up, rolled, took, went, manager>>

\* [ and ] go a day back and forth from the day shown; t is today.
GoToDay ==
    /\ Press("date") /\ Driving
    /\ \E date \in {Today} \cup (IF view.page.day = Bad THEN {Bad} ELSE {view.page.day - 1, view.page.day + 1} \cap Dates) :
         request_today([view EXCEPT !.date = date, !.sel = 1], None, <<>>)
    /\ UNCHANGED <<log, live, ghosts>>

Older ==
    /\ Press("older") /\ Driving /\ view.page.next # None
    /\ request_today(view, view.page.next, <<>>)
    /\ UNCHANGED <<log, live, ghosts>>

\* Slip: the Pane of the row, whoever runs in it now.
LiveRowOfPane(row) == row.inv # None /\ live[row.pane] # None
LiveRow(row) == row.inv # None /\ live[row.pane] = row.inv

\* g: to the agent of the row if it still runs there, to its Project if the row is
\* no agent's.
Visit ==
    /\ Press("go") /\ Driving
    /\ IF HasRow(view) /\ (Row(view).inv = None \/ LiveRow(Row(view)))
       THEN close_today(<<>>)
       ELSE view' = [view EXCEPT !.message = "said"] /\ UNCHANGED <<gen, up, rolled, manager>>
    /\ went' = IF HasRow(view) /\ LiveRow(Row(view)) THEN live[Row(view).pane] = Row(view).inv ELSE went
    /\ UNCHANGED <<log, live, meant, took>>

OpenLine ==
    /\ Driving
    /\ \E line \in {"d", "/", "n", "m", "r"} :
         /\ Press(line)
         /\ view' = [view EXCEPT !.input = line]
         /\ meant' = IF line = "r" THEN Row(view).seq ELSE meant
    /\ UNCHANGED <<log, live, gen, up, rolled, took, went, manager>>

GiveUp ==
    /\ Press("esc") /\ view.open /\ view.input # "no" /\ ~view.expanded
    /\ view' = [view EXCEPT !.input = "no"]
    /\ UNCHANGED <<log, live, gen, up, rolled, ghosts>>

Typed == [view EXCEPT !.input = "no"]

EnterDate(date) ==
    /\ request_today([Typed EXCEPT !.date = date, !.sel = 1], None, <<>>)
    /\ UNCHANGED <<log, live, ghosts>>

EnterFilter(filter) ==
    /\ request_today([Typed EXCEPT !.filter = filter, !.sel = 1], None, <<>>)
    /\ UNCHANGED <<log, live, ghosts>>

EnterNote ==
    /\ Len(log) < MaxEvents
    /\ view' = Typed /\ Logged(Event("note", None, None))
    /\ UNCHANGED <<live, gen, rolled, ghosts>>

\* The row is the one selected now.
EnterResume ==
    /\ IF HasRow(view)
       THEN /\ view' = [Typed EXCEPT !.gen = gen + 1, !.pending = TRUE]
            /\ gen' = gen + 1
            /\ up' = Append(up, [kind |-> "resume", gen |-> gen + 1])
            /\ took' = (meant # None => Same(Row(view), Observation(meant)))
       ELSE view' = Typed /\ UNCHANGED <<gen, up, took>>
    /\ UNCHANGED <<log, live, rolled, meant, went, manager>>

EnterManager ==
    /\ view' = [Typed EXCEPT !.message = "checking"]
    /\ up' = Append(up, [kind |-> "resolve", gen |-> view.gen])
    /\ manager' = "asked"
    /\ UNCHANGED <<log, live, gen, rolled, meant, took, went>>

Enter ==
    /\ Press("enter") /\ view.open /\ ~view.expanded
    /\ \/ view.input = "d" /\ \E date \in {1, Bad} : EnterDate(date)
       \/ view.input = "/" /\ \E filter \in {"all", "notes"} : EnterFilter(filter)
       \/ view.input = "n" /\ EnterNote
       \/ view.input = "r" /\ EnterResume
       \/ view.input = "m" /\ manager = "none" /\ EnterManager

Next ==
    \/ Happens \/ Midnight \/ Take \/ Finish \/ Hear
    \/ open_today \/ Leave \/ Inspect \/ SwitchMode \/ Select \/ GoToDay \/ Older \/ Visit
    \/ OpenLine \/ GiveUp \/ Enter

Spec == Init /\ [][Next]_vars

-----------------------------------------------------------------------------
(* Properties. *)

Quiet == up = <<>> /\ down = <<>> /\ work = {}
Content(page) == [page EXCEPT !.through = 0]

\* When nothing is under way, an open view shows what the day, the filter and the
\* cursor asked for last now have, whatever order the answers came in and whatever
\* happened meanwhile, unless it was told that the history could not be read
\* (request_today, timeline_loaded, TimelineChanged).
TodayCatchesUp ==
    view.open /\ Quiet /\ ~rolled =>
        /\ ~view.pending
        /\ ~view.failed =>
             /\ Content(view.page) = Content(PageOf(view.date, view.filter, view.before, Len(log)))
             /\ view.rows = RowsOf(view.page, view.mode)

\* g leads to the invocation of the row and to no later one in the same Pane.
VisitsAreExact == went

\* A refresh moves the selection only when its row is no longer shown (rebuild_rows).
SelectionKept ==
    (view.open /\ view'.open /\ view.rows # view'.rows /\ HasRow(view) /\ view.mode = view'.mode
       /\ \E k \in DOMAIN view'.rows : Same(Row(view), view'.rows[k]))
    => HasRow(view') /\ Same(Row(view), Row(view'))

\* A resume line acts on the row it was opened for.
ResumedIsMeant == took

\* A manager asked for is started or refused, as long as the view stays open.
ManagerIsAnswered == manager # "dropped"

=============================================================================
