------------------------------ MODULE ListPanels ------------------------------
(***************************************************************************)
(* The client's list panels: the Observatory, Manage Projects, Manage      *)
(* Agents and the Workspace switcher (uniterm-client/src/observatory.rs,   *)
(* projects.rs, agents.rs, sessions.rs, and the apply_*_action of          *)
(* actions.rs).  A panel shows the rows of the last snapshot it was sent,  *)
(* one of them marked; keys act on the marked row, clicks mark a row or    *)
(* act on it, and fresh snapshots arrive whenever the server sends them.   *)
(* Stopping an agent, removing a Project and stopping all agents take two  *)
(* key presses, and a waiting agent is answered in a line of its own.      *)
(*                                                                         *)
(* A row is its identity and one flag: that the agent needs you, is        *)
(* installed and runs, or that the Workspace runs.  Positions start at 1;  *)
(* a position may be past the end, as in the code.  Requests of this       *)
(* client are answered in order; the other clients change the lists        *)
(* between, and only new dev servers are told to everyone.                 *)
(***************************************************************************)
EXTENDS Naturals, Sequences, FiniteSets, SequencesExt

CONSTANTS Ids,        \* Panes, Projects, agents or Workspaces
          DevServers, \* the ids that are dev servers in the Observatory
          Panels,     \* the panels that are opened
          Rows,       \* rows of the list that fit
          MaxKeys,    \* keys and clicks
          MaxChanges  \* changes of the list by others

VARIABLES server,     \* rows, the active one, and the waiting item of each Pane
          up, down,   \* requests, snapshots
          view,       \* the open panel, see Opened
          meant,      \* what a confirmation or an answer was begun for
          did,        \* the last request that was confirmed or answered
          overtaken,  \* others changed the list since this client last asked
          keys, changes

vars == <<server, up, down, view, meant, did, overtaken, keys, changes>>

None == 0
Ways == {"up", "down", "top", "bottom"}
Settings == 3         \* rows below the agents: approval, update, install

Row(id, live) == [id |-> id, live |-> live]
IdsOf(rows) == {rows[i].id : i \in DOMAIN rows}
PlaceOf(rows, id) == SelectInSeq(rows, LAMBDA r : r.id = id)
Least(a, b) == IF a < b THEN a ELSE b
Most(a, b) == IF a > b THEN a ELSE b

-----------------------------------------------------------------------------
(* What is shown and what is marked. *)

\* visible_items, visible_indices: the places of the rows that are listed.
Visible(v) ==
    LET all == [i \in DOMAIN v.items |-> i]
    IN  SelectSeq(all, LAMBDA i : /\ v.filter = "needs" => v.items[i].live \/ v.items[i].id \in DevServers
                                  /\ v.items[i].id \in v.query)

\* The Observatory counts among the listed rows, the others among all.
ByListed(v) == v.panel = "observatory"

Selected(v) ==
    LET listed == Visible(v)
        at == IF ByListed(v) THEN (IF v.sel \in DOMAIN listed THEN listed[v.sel] ELSE 0)
              ELSE IF v.sel \in ToSet(listed) THEN v.sel ELSE 0
    IN  IF at = 0 THEN None ELSE v.items[at].id

\* keep_selection_visible
KeepSelectionVisible(v) ==
    LET listed == Visible(v)
    IN  IF ByListed(v) \/ v.panel = "agents" \/ v.sel \in ToSet(listed) THEN v
        ELSE [v EXCEPT !.sel = IF listed = <<>> THEN 1 ELSE Head(listed)]

\* new: the Projects and the switcher open on the active row.
Opened(panel, rows, active) ==
    [panel |-> panel, items |-> rows, scroll |-> 0, filter |-> "all", query |-> Ids,
     armed |-> FALSE, confirm |-> FALSE, answering |-> None, active |-> active,
     waiting |-> [p \in Ids |-> None],
     sel |-> IF panel \in {"projects", "sessions"} THEN Most(PlaceOf(rows, active), 1) ELSE 1]

-----------------------------------------------------------------------------
(* A fresh snapshot. *)

\* clamp
Clamped(v) ==
    LET sel == Least(v.sel, Most(Len(Visible(v)), 1))
    IN  [v EXCEPT !.sel = sel, !.scroll = Least(@, sel - 1)]

\* restore_selection
RestoreSelection(v, keep) ==
    LET listed == Visible(v)
        at == SelectInSeq(listed, LAMBDA i : v.items[i].id = keep)
    IN  [v EXCEPT !.sel = Most(at, 1)]

\* Slip: the mark stays where it was on the screen.
ObservatoryRefreshInPlace(v, rows) ==
    Clamped([v EXCEPT !.items = rows, !.confirm = FALSE])

ObservatoryRefresh(v, rows) ==
    LET fresh == RestoreSelection([v EXCEPT !.items = rows], Selected(v))
    IN  Clamped([fresh EXCEPT !.confirm = FALSE])

\* ProjectsView::refresh: the same Project, else the active one, else the first
ProjectsRefresh(v, rows, active) ==
    LET kept == IF v.sel \in DOMAIN v.items THEN PlaceOf(rows, v.items[v.sel].id) ELSE 0
        at   == IF kept # 0 THEN kept ELSE Most(PlaceOf(rows, active), 1)
    IN  KeepSelectionVisible([v EXCEPT !.items = rows, !.sel = at, !.confirm = FALSE])

\* AgentsView::refresh: a settings row stays that settings row.
AgentsRefresh(v, rows) ==
    LET kept == IF v.sel \in DOMAIN v.items THEN PlaceOf(rows, v.items[v.sel].id) ELSE 0
        at   == IF v.sel > Len(v.items) THEN Len(rows) + Least(v.sel - Len(v.items), Settings)
                ELSE Most(kept, 1)
    IN  [v EXCEPT !.items = rows, !.sel = at, !.confirm = FALSE]

\* refresh_waiting: an answer to an item that is gone is dropped.
RefreshWaiting(v, waiting) ==
    [v EXCEPT !.waiting = waiting,
              !.answering = IF \E p \in Ids : waiting[p] = @ THEN @ ELSE None]

\* Fleet opens the Observatory when it is not open; the others only refresh.
Refreshed(v, m) ==
    CASE m.panel = "waiting" -> IF v.panel = "observatory" THEN RefreshWaiting(v, m.waiting) ELSE v
      [] m.panel = "observatory" /\ v.panel = "observatory" ->
             RefreshWaiting(ObservatoryRefresh(v, m.rows), m.waiting)
      [] m.panel = "observatory" /\ v.panel # "observatory" /\ m.asked ->
             RefreshWaiting(Opened("observatory", m.rows, m.active), m.waiting)
      [] m.panel = "projects" /\ v.panel = "projects" -> ProjectsRefresh(v, m.rows, m.active)
      [] m.panel = "agents" /\ v.panel = "agents"     -> AgentsRefresh(v, m.rows)
      [] OTHER -> v

Receive ==
    /\ down # <<>> /\ down' = Tail(down)
    /\ view' = Refreshed(view, Head(down))
    /\ UNCHANGED <<server, up, meant, did, overtaken, keys, changes>>

-----------------------------------------------------------------------------
(* Keys. *)

Asked(request) == up' = Append(up, request)
Request(what, id) == [what |-> what, id |-> id]
Closed == Opened("none", <<>>, None)

Press == keys < MaxKeys /\ keys' = keys + 1 /\ view.panel # "none"

\* Any key that is not the confirmation cancels it; one that is, acts on the
\* row that is marked now.
ConfirmKey ==
    /\ Press /\ view.confirm /\ view.answering = None
    /\ view' = [view EXCEPT !.confirm = FALSE]
    /\ \/ UNCHANGED <<up, did>>
       \/ \E what \in {CASE view.panel = "observatory" -> "stop"
                         [] view.panel = "projects"    -> "remove"
                         [] view.panel = "agents"      -> "stop_all"},
             id \in {IF view.panel = "agents" THEN None ELSE Selected(view)} :
             /\ what = "stop_all" \/ id # None
             /\ what = "stop" => id \notin DevServers
             /\ Asked(Request(what, id)) /\ did' = [what |-> what, id |-> id, meant |-> meant]
    /\ meant' = None
    /\ UNCHANGED <<server, down, overtaken, changes>>

\* nav_list and nav: the Observatory and Agents stop at the ends and scroll,
\* the filtered lists go round.
NavList(v, dn, len) ==
    LET sel == IF dn THEN Least(v.sel + 1, len) ELSE Most(v.sel - 1, 1)
        top == IF sel - 1 < v.scroll THEN sel - 1 ELSE v.scroll
    IN  IF len = 0 THEN v
        ELSE [v EXCEPT !.sel = sel, !.scroll = IF sel > top + Rows THEN sel - Rows ELSE top]

NavRound(v, dn) ==
    LET listed == Visible(v)
        n  == Len(listed)
        at == Most(SelectInSeq(listed, LAMBDA i : i = v.sel), 1)
        to == IF dn THEN (IF at = n THEN 1 ELSE at + 1) ELSE (IF at = 1 THEN n ELSE at - 1)
    IN  IF listed = <<>> THEN v ELSE [v EXCEPT !.sel = listed[to]]

Nav(v, dn) ==
    CASE v.panel = "observatory" -> NavList(v, dn, Len(Visible(v)))
      [] v.panel = "agents"      -> NavList(v, dn, Len(v.items) + Settings)
      [] OTHER                   -> NavRound(v, dn)

Free == Press /\ ~view.confirm /\ view.answering = None

NavKey(dn) ==
    /\ Free
    /\ view' = [Nav(view, dn) EXCEPT !.armed = FALSE]
    /\ UNCHANGED <<server, up, down, meant, did, overtaken, changes>>

\* The first of the two keys: `x` on an agent of the Observatory, ^G x in the
\* Projects with more than one left, `X` in the Agents while one runs.
DestroyKey ==
    /\ Free
    /\ \/ view.panel = "observatory" /\ Selected(view) \notin {None} \cup DevServers
       \/ view.panel = "projects" /\ view.armed /\ Len(view.items) > 1 /\ Selected(view) # None
       \/ view.panel = "agents" /\ \E i \in DOMAIN view.items : view.items[i].live
    /\ view' = [view EXCEPT !.confirm = TRUE, !.armed = FALSE]
    /\ meant' = IF view.panel = "agents" THEN None ELSE Selected(view)
    /\ UNCHANGED <<server, up, down, did, overtaken, changes>>

\* ^G, which leaves a confirmation open
ArmKey ==
    /\ Press /\ view.panel \in {"projects", "sessions"}
    /\ view' = [view EXCEPT !.armed = TRUE]
    /\ UNCHANGED <<server, up, down, meant, did, overtaken, changes>>

\* Typing narrows the filtered lists; `f` turns the Observatory's filter.
FilterKey(q) ==
    /\ Free
    /\ \/ /\ view.panel \in {"projects", "sessions"} /\ ~view.armed
          /\ view' = KeepSelectionVisible([view EXCEPT !.query = q])
       \/ /\ view.panel = "observatory" /\ q = Ids
          /\ view' = [view EXCEPT !.filter = IF @ = "all" THEN "needs" ELSE "all",
                                  !.sel = 1, !.scroll = 0]
    /\ UNCHANGED <<server, up, down, meant, did, overtaken, changes>>

\* move_selected: shown at once, before the server has answered.  Up, down, to
\* the top and to the bottom; the keys need ^G, the buttons do not.
Destination(v, way) ==
    CASE way = "up"   -> v.sel - 1
      [] way = "down" -> IF v.sel < Len(v.items) THEN v.sel + 1 ELSE 0
      [] way = "top"  -> IF v.sel > 1 THEN 1 ELSE 0
      [] way = "bottom" -> IF v.sel < Len(v.items) THEN Len(v.items) ELSE 0

MovedRow(rows, from, to) == InsertAt(RemoveAt(rows, from), to, rows[from])

MoveSelected(v, way) ==
    IF Selected(v) = None \/ Destination(v, way) = 0 THEN v
    ELSE [v EXCEPT !.items = MovedRow(@, v.sel, Destination(v, way)),
                   !.sel = Destination(v, way), !.confirm = FALSE]

Move(way) ==
    /\ Press /\ view.panel = "projects"
    /\ way \in {"up", "down"} /\ view.armed => ~view.confirm
    /\ view' = [MoveSelected(view, way) EXCEPT !.armed = FALSE]
    /\ IF Selected(view) = None \/ Destination(view, way) = 0 THEN UNCHANGED up
       ELSE Asked([what |-> way, id |-> Selected(view)])
    /\ UNCHANGED <<server, down, meant, did, overtaken, changes>>

\* Enter: the row is jumped to, switched to or launched and the panel is gone; a
\* dev server is opened in the browser; the setting of a settings row is asked for.
Open(v, id) ==
    IF v.panel = "observatory" /\ id \in DevServers THEN v ELSE Closed

EnterKey ==
    /\ Free /\ view.panel \in {"observatory", "projects"}
    /\ IF Selected(view) = None THEN UNCHANGED up /\ view' = [view EXCEPT !.armed = FALSE]
       ELSE Asked(Request("open", Selected(view))) /\ view' = Open(view, Selected(view))
    /\ UNCHANGED <<server, down, meant, did, overtaken, changes>>

\* Only an agent that is installed is launched.
AgentEnter ==
    /\ Free /\ view.panel = "agents"
    /\ IF view.sel > Len(view.items) THEN Asked(Request("setting", None)) /\ UNCHANGED view
       ELSE IF ~view.items[view.sel].live THEN UNCHANGED <<up, view>>
       ELSE Asked(Request("open", Selected(view))) /\ view' = Closed
    /\ UNCHANGED <<server, down, meant, did, overtaken, changes>>

\* A Workspace that runs is switched to, another revived, this one left.
OpenSession(id) ==
    IF id = view.active THEN UNCHANGED up ELSE Asked(Request("open", id))

SessionEnter ==
    /\ Free /\ view.panel = "sessions"
    /\ IF Selected(view) = None THEN UNCHANGED up /\ view' = [view EXCEPT !.armed = FALSE]
       ELSE OpenSession(Selected(view)) /\ view' = Closed
    /\ UNCHANGED <<server, down, meant, did, overtaken, changes>>

\* `i`, `I` and `A` of the Agents: connectors and the approval row
AgentKey(key) ==
    /\ Free /\ view.panel = "agents"
    /\ key = "i" => Selected(view) # None
    /\ Asked(Request("setting", None))
    /\ view' = IF key # "A" THEN view
               ELSE [view EXCEPT !.sel = Len(view.items) + 1,
                                 !.scroll = IF Len(view.items) + 1 > Rows
                                            THEN Len(view.items) + 1 - Rows ELSE 0]
    /\ UNCHANGED <<server, down, meant, did, overtaken, changes>>

\* ^G x in the switcher: KillServer, then mark_stopped whatever came of it; the
\* current Workspace takes the panel with it.
KillKey ==
    /\ Free /\ view.panel = "sessions" /\ view.armed /\ Selected(view) # None
    /\ IF Selected(view) = view.active THEN Asked(Request("kill", view.active)) /\ view' = Closed
       ELSE IF view.items[view.sel].live
       THEN /\ Asked(Request("kill", Selected(view)))
            /\ view' = KeepSelectionVisible([view EXCEPT !.armed = FALSE, !.items[view.sel].live = FALSE])
       ELSE UNCHANGED up /\ view' = [view EXCEPT !.armed = FALSE]
    /\ UNCHANGED <<server, down, meant, did, overtaken, changes>>

\* `i`: the item is remembered by its own id, not by the row.
AnswerKey ==
    /\ Free /\ view.panel = "observatory" /\ Selected(view) # None
    /\ view.waiting[Selected(view)] # None
    /\ view' = [view EXCEPT !.answering = view.waiting[Selected(view)]]
    /\ meant' = view.waiting[Selected(view)]
    /\ UNCHANGED <<server, up, down, did, overtaken, changes>>

AnswerTarget(v) == v.answering

AnswerLine ==
    /\ Press /\ view.answering # None
    /\ view' = [view EXCEPT !.answering = None]
    /\ \/ UNCHANGED <<up, did>>
       \/ /\ Asked(Request("answer", AnswerTarget(view)))
          /\ did' = [what |-> "answer", id |-> AnswerTarget(view), meant |-> meant]
    /\ meant' = None
    /\ UNCHANGED <<server, down, overtaken, changes>>

\* `d`, `b` and `r` of the Observatory
ObservatoryKey(key) ==
    /\ Free /\ view.panel = "observatory"
    /\ key = "dismiss" => Selected(view) # None /\ view.waiting[Selected(view)] # None
    /\ Asked(Request(key, IF key = "dismiss" THEN view.waiting[Selected(view)] ELSE None))
    /\ UNCHANGED <<server, down, view, meant, did, overtaken, changes>>

\* Escape, `q`, a click outside
Close ==
    /\ Press /\ view' = Closed /\ meant' = None
    /\ UNCHANGED <<server, up, down, did, overtaken, changes>>

-----------------------------------------------------------------------------
(* Clicks. *)

\* A row of the list: the row that is marked is opened, any other is marked.
ClickListed(to) ==
    IF to = view.sel THEN Asked(Request("open", Selected(view))) /\ view' = Open(view, Selected(view))
    ELSE UNCHANGED up /\ view' = [view EXCEPT !.sel = to, !.armed = FALSE]

ObservatoryClick(slot) ==
    /\ Press /\ view.panel = "observatory"
    /\ view.scroll + slot \in DOMAIN Visible(view)
    /\ ClickListed(view.scroll + slot)
    /\ UNCHANGED <<server, down, meant, did, overtaken, changes>>

ProjectsClick(slot) ==
    /\ Press /\ view.panel = "projects"
    /\ slot \in DOMAIN Visible(view)
    /\ ClickListed(Visible(view)[slot])
    /\ UNCHANGED <<server, down, meant, did, overtaken, changes>>

\* The Agents mark the row and forget the confirmation.
AgentsClick(slot) ==
    /\ Press /\ view.panel = "agents"
    /\ view.scroll + slot <= Len(view.items) + Settings
    /\ view' = [view EXCEPT !.sel = view.scroll + slot, !.confirm = FALSE]
    /\ UNCHANGED <<server, up, down, meant, did, overtaken, changes>>

\* The switcher acts at once.
SessionsClick(slot) ==
    /\ Press /\ view.panel = "sessions"
    /\ slot \in DOMAIN Visible(view)
    /\ OpenSession(view.items[Visible(view)[slot]].id)
    /\ view' = Closed
    /\ UNCHANGED <<server, down, meant, did, overtaken, changes>>

-----------------------------------------------------------------------------
(* The server. *)

\* fleet_snapshot: who needs you first, the dev servers last
Fleet(s) ==
    SelectSeq(s.rows, LAMBDA r : r.live /\ r.id \notin DevServers)
    \o SelectSeq(s.rows, LAMBDA r : ~r.live /\ r.id \notin DevServers)
    \o SelectSeq(s.rows, LAMBDA r : r.id \in DevServers)

Snapshot(s, panel) ==
    [panel |-> panel, rows |-> IF panel = "observatory" THEN Fleet(s) ELSE s.rows,
     active |-> s.active, waiting |-> s.waiting, asked |-> TRUE]

Resolved(s, item) ==
    LET of == {p \in Ids : s.waiting[p] = item}
    IN  [s EXCEPT !.waiting = [p \in Ids |-> IF p \in of THEN None ELSE @[p]],
                  !.rows = [i \in DOMAIN @ |-> IF @[i].id \in of THEN Row(@[i].id, FALSE) ELSE @[i]]]

\* remove_project, move_project, waiting_action, switch_project.  An agent that
\* is stopped is gone when its process has ended.
Applied(s, r) ==
    LET at == PlaceOf(s.rows, r.id)
        there == at # 0
        to == Destination([sel |-> at, items |-> s.rows], r.what)
        left == SelectSeq(s.rows, LAMBDA x : x.id # r.id)
    IN  CASE r.what = "remove" /\ there /\ Len(s.rows) > 1 ->
               [s EXCEPT !.rows = left, !.active = IF @ = r.id THEN Head(left).id ELSE @]
          [] r.what \in Ways /\ there ->
               IF to = 0 THEN s ELSE [s EXCEPT !.rows = MovedRow(@, at, to)]
          [] r.what \in {"answer", "dismiss"} -> Resolved(s, r.id)
          [] r.what = "open" /\ there -> [s EXCEPT !.active = r.id]
          [] OTHER -> s

\* reply_workspace, the three replies to Observatory, WaitingActed, Agents
Answered(s, r) ==
    CASE r.what \in {"stop", "refresh"}  -> <<Snapshot(s, "observatory")>>
      [] r.what \in Ways \cup {"remove"} -> <<Snapshot(Applied(s, r), "projects")>>
      [] r.what \in {"answer", "dismiss"} -> <<Snapshot(Applied(s, r), "waiting")>>
      [] r.what \in {"setting", "stop_all"} -> <<Snapshot(s, "agents")>>
      [] OTHER -> <<>>

Serve ==
    /\ up # <<>> /\ up' = Tail(up)
    /\ server' = Applied(server, Head(up))
    /\ down' = down \o Answered(server, Head(up))
    /\ overtaken' = (overtaken /\ Head(up).what \notin Ways \cup {"remove"})
    /\ UNCHANGED <<view, meant, did, keys, changes>>

\* Agents start, end and ask; other clients add, remove and move.  A change of
\* the dev servers is told to everyone.
Others ==
    /\ changes < MaxChanges /\ changes' = changes + 1
    /\ \/ \E id \in Ids \ IdsOf(server.rows) :
            /\ server' = [server EXCEPT !.rows = <<Row(id, FALSE)>> \o @]
            /\ down' = IF id \notin DevServers THEN down
                       ELSE Append(down, [Snapshot(server', "observatory") EXCEPT !.asked = FALSE])
       \/ \E id \in IdsOf(server.rows), what \in {"remove", "down"} :
            server' = Applied(server, Request(what, id)) /\ UNCHANGED down
       \/ \E i \in DOMAIN server.rows :
            /\ server.rows[i].id \notin DevServers
            /\ server' = [server EXCEPT !.rows[i].live = TRUE,
                                        !.waiting[server.rows[i].id] = 10 + changes]
            /\ UNCHANGED down
    /\ overtaken' = TRUE
    /\ UNCHANGED <<up, view, meant, did, keys>>

-----------------------------------------------------------------------------
Init ==
    /\ \E panel \in Panels, n \in 2 .. Cardinality(Ids) :
          /\ server = [rows |-> [i \in 1 .. n |-> Row(i, i = 1 \/ (i = 2 /\ panel = "sessions"))],
                       active |-> 1, waiting |-> [p \in Ids |-> IF p = 1 THEN 9 ELSE None]]
          /\ view = [Opened(panel, server.rows, server.active) EXCEPT !.waiting = server.waiting]
    /\ up = <<>> /\ down = <<>> /\ meant = None
    /\ did = [what |-> "nothing", id |-> None, meant |-> None]
    /\ overtaken = FALSE /\ keys = 0 /\ changes = 0

Next ==
    \/ Receive \/ Serve \/ Others \/ Close
    \/ ConfirmKey \/ DestroyKey \/ ArmKey \/ EnterKey \/ AgentEnter \/ SessionEnter
    \/ KillKey \/ AnswerKey \/ AnswerLine
    \/ \E dn \in BOOLEAN : NavKey(dn)
    \/ \E q \in {Ids} \cup {{id} : id \in Ids} : FilterKey(q)
    \/ \E way \in Ways : Move(way)
    \/ \E key \in {"i", "I", "A"} : AgentKey(key)
    \/ \E key \in {"dismiss", "refresh"} : ObservatoryKey(key)
    \/ \E slot \in 1 .. Rows : ObservatoryClick(slot) \/ ProjectsClick(slot) \/ AgentsClick(slot) \/ SessionsClick(slot)

Spec == Init /\ [][Next]_vars

-----------------------------------------------------------------------------
(* Properties. *)

\* A fresh snapshot does not move the mark to another row: what was marked stays
\* marked while it is still listed, so that a key pressed as the list changes
\* means the row that was looked at.
MarkKept ==
    Receive =>
      LET was == Selected(view)
          listed == {view'.items[i].id : i \in ToSet(Visible(view'))}
      IN  (was # None /\ was \in listed) => Selected(view') = was

\* A list shown ahead of the server's answer is corrected by it: with nothing
\* under way, and nobody else having moved anything since this client last asked,
\* the Projects are shown as the server has them.
GuessesAreCorrected ==
    (view.panel = "projects" /\ up = <<>> /\ down = <<>> /\ ~overtaken) => view.items = server.rows

\* An answer goes to the waiting item for which the line was opened, whatever has
\* been marked, resolved or asked since.
AnswersGoHome == did.what = "answer" => did.id = did.meant

\* The second key of a confirmation acts on the row for which the first asked.
ConfirmedIsMeant == did.what \in {"stop", "remove"} => did.id = did.meant

\* The marked row is on the screen.
MarkIsShown ==
    (view.panel = "observatory" /\ Selected(view) # None) =>
        view.scroll < view.sel /\ view.sel <= view.scroll + Rows

=============================================================================
