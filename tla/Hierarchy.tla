------------------------------ MODULE Hierarchy ------------------------------
(***************************************************************************)
(* The Workspace hierarchy of uniterm-server: Projects own Tabs (the       *)
(* code's windows), Tabs own Panes, a Tab may be stacked under a Pane of   *)
(* another Tab, and exactly one Tab and one Pane have the focus.           *)
(* server/projects.rs, server/tab_stacks.rs, the closing of a Pane in      *)
(* server/agents.rs, the navigation commands of server/messages.rs, the    *)
(* focus requests of server.rs and the catalog definition of               *)
(* server/event_projection.rs all change this one structure.               *)
(*                                                                         *)
(* A layout tree is abstracted to the left-to-right sequence of its Panes  *)
(* (LayoutTree models the tree).  Names, scroll offsets, stack_expanded,   *)
(* repaints and what runs in a Pane are left out: no state below depends   *)
(* on them.  Ids are only ever compared for equality and never reused by   *)
(* the code, so after each step Panes and Projects are renamed in order of *)
(* appearance, and a Pane that is gone is Gone (see Renamed).              *)
(***************************************************************************)
EXTENDS Naturals, FiniteSets, Sequences, SequencesExt

CONSTANTS MaxPanes,     \* most Panes open at once
          MaxProjects,  \* most Projects
          MaxTabs       \* most Tabs

VARIABLE ws     \* [tabs, sel, project, projects, last], see TypeOK

vars == <<ws>>

None == 0
Gone == MaxPanes + 1

PaneIds == 1 .. MaxPanes
ProjectIds == 1 .. MaxProjects

NewTab(project, panes) ==
    [project |-> project, panes |-> panes, active |-> Head(panes),
     zoomed |-> None, parent |-> None]

\* The first of a set of positions, 0 when there is none.
First(positions) ==
    IF positions = {} THEN 0 ELSE CHOOSE i \in positions : \A j \in positions : i <= j

\* The position of e in seq, 0 when it is not there.
Position(seq, e) == First({i \in DOMAIN seq : seq[i] = e})

TabOf(s, pane) == First({i \in DOMAIN s.tabs : Position(s.tabs[i].panes, pane) # 0})

\* project_window_indices, ascending
ProjectTabs(s, project) ==
    SelectSeq([i \in DOMAIN s.tabs |-> i], LAMBDA i : s.tabs[i].project = project)

HasProject(s, project) == \E i \in DOMAIN s.projects : s.projects[i].id = project

Selected(s) == s.tabs[s.sel].active

Panes(s) == UNION {ToSet(s.tabs[i].panes) : i \in DOMAIN s.tabs}

FreshPanes(s) == PaneIds \ Panes(s)

FreshPane(s) == CHOOSE p \in FreshPanes(s) : \A q \in FreshPanes(s) : p <= q

FreshProjects(s) == ProjectIds \ {s.projects[i].id : i \in DOMAIN s.projects}

FreshProject(s) == CHOOSE p \in FreshProjects(s) : \A q \in FreshProjects(s) : p <= q

\* s with Panes numbered in the order of the Tabs and Projects in the order of
\* the list.
Renamed(s) ==
    LET order == FlattenSeq([i \in DOMAIN s.tabs |-> s.tabs[i].panes])
        at == [p \in ToSet(order) |-> Position(order, p)]
        Pane(p) == IF p = None THEN None ELSE IF p \in DOMAIN at THEN at[p] ELSE Gone
        Project(p) == First({i \in DOMAIN s.projects : s.projects[i].id = p})
    IN  [tabs |-> [i \in DOMAIN s.tabs |->
                     [project |-> Project(s.tabs[i].project),
                      panes   |-> [j \in DOMAIN s.tabs[i].panes |-> Pane(s.tabs[i].panes[j])],
                      active  |-> Pane(s.tabs[i].active),
                      zoomed  |-> Pane(s.tabs[i].zoomed),
                      parent  |-> Pane(s.tabs[i].parent)]],
         sel      |-> s.sel,
         project  |-> Project(s.project),
         projects |-> [i \in DOMAIN s.projects |-> [id |-> i, pane |-> Pane(s.projects[i].pane)]],
         last     |-> Pane(s.last)]

Becomes(s) == ws' = Renamed(s)

\* Remember pane as the last one used in project.
Remember(s, project, pane) ==
    [s EXCEPT !.projects =
        [i \in DOMAIN @ |-> IF @[i].id = project THEN [@[i] EXCEPT !.pane = pane] ELSE @[i]]]

\* activate_window
Activate(s, i) ==
    LET left == IF s.sel \in DOMAIN s.tabs
                THEN Remember(s, s.tabs[s.sel].project, Selected(s)) ELSE s
    IN  IF i \notin DOMAIN s.tabs THEN left
        ELSE Remember([left EXCEPT !.sel = i, !.project = s.tabs[i].project],
                      s.tabs[i].project, s.tabs[i].active)

-----------------------------------------------------------------------------
(* Stacks (server/tab_stacks.rs). *)

\* tab_parent: position of the Tab that tab i hangs under, or 0.
TabParent(s, i) ==
    IF s.tabs[i].parent = None THEN 0
    ELSE First({k \in DOMAIN s.tabs :
                  s.tabs[k].project = s.tabs[i].project
                  /\ Position(s.tabs[k].panes, s.tabs[i].parent) # 0})

\* The Tab reached from i after at most n parent links.
Ancestor(s, i, n) ==
    LET up[k \in 0 .. n] ==
          IF k = 0 THEN i
          ELSE LET below == up[k - 1]
               IN  IF TabParent(s, below) = 0 THEN below ELSE TabParent(s, below)
    IN  up[n]

StackRoot(s, i) == Ancestor(s, i, Len(s.tabs))

\* stack_tabs of the selected Tab; empty when the Tab is alone.
StackTabs(s) ==
    LET stack == {i \in DOMAIN s.tabs : /\ s.tabs[i].project = s.project
                                        /\ StackRoot(s, i) = StackRoot(s, s.sel)}
    IN  IF Cardinality(stack) = 1 THEN {} ELSE stack

\* Would hanging tab child under tab parent close a cycle?
IsAncestor(s, child, parent) ==
    \E n \in 0 .. Len(s.tabs) : Ancestor(s, parent, n) = child

\* assign_tab_parent
AssignParent(s, pane, parent) ==
    LET child == TabOf(s, pane)
        under == First({k \in DOMAIN s.tabs :
                          s.tabs[k].project = s.tabs[child].project
                          /\ Position(s.tabs[k].panes, parent) # 0})
    IN  IF \/ child = 0
           \/ parent # None /\ (under = 0 \/ IsAncestor(s, child, under))
        THEN s
        ELSE [s EXCEPT !.tabs[child].parent = parent]

AnchorOf(s, pane) ==
    LET source == s.tabs[TabOf(s, pane)]
        others == SelectSeq(source.panes, LAMBDA p : p # pane)
    IN  IF others # <<>> THEN Head(others) ELSE source.parent

\* repair_stack_anchor: re-hang what hangs under a Pane about to leave its Tab.
RepairAnchor(s, pane) ==
    IF TabOf(s, pane) = 0 THEN s
    ELSE LET hanging  == SelectSeq(s.tabs, LAMBDA t : t.parent = pane)
             children == [i \in DOMAIN hanging |-> hanging[i].active]
             anchor   == AnchorOf(s, pane)
             adopt    == anchor = None /\ children # <<>>
             heir     == IF adopt THEN children[1] ELSE anchor
             base     == IF adopt THEN AssignParent(s, heir, None) ELSE s
         IN  FoldLeft(LAMBDA t, child :
                        IF child = heir THEN t ELSE AssignParent(t, child, heir),
                      base, children)

-----------------------------------------------------------------------------
(* Creation (server/projects.rs). *)

\* insert_tab
InsertTab(s, project, panes, background) ==
    LET pushed == [s EXCEPT !.tabs = Append(@, NewTab(project, panes))]
    IN  IF background THEN pushed ELSE Activate(pushed, Len(pushed.tabs))

\* A layout after pane was split off beside anchor.
Beside(panes, anchor, pane) ==
    InsertAt(panes, 1 + Position(panes, anchor), pane)

\* insert_split
InsertSplit(s, i, anchor, pane, background) ==
    LET split == [s EXCEPT !.tabs[i].panes = Beside(@, anchor, pane)]
    IN  IF background THEN split
        ELSE Activate([split EXCEPT !.last = s.tabs[i].active,
                                    !.tabs[i].active = pane,
                                    !.tabs[i].zoomed = None], i)

-----------------------------------------------------------------------------
(* Closing and moving Panes. *)

\* A Tab's record after pane left it, some other Pane staying.
Without(tab, pane) ==
    LET left == SelectSeq(tab.panes, LAMBDA p : p # pane)
    IN  [tab EXCEPT !.panes  = left,
                    !.active = IF @ = pane THEN Head(left) ELSE @,
                    !.zoomed = IF @ = pane THEN None ELSE @]

Distance(i, j) == IF i < j THEN j - i ELSE i - j

\* The other Tab of the stack that is nearest to the selected one, the left one
\* of two equally near; 0 when the Tab is in no stack.
NearestInStack(s) ==
    LET near    == StackTabs(s) \ {s.sel}
        Key(i)  == 2 * Distance(i, s.sel) + (IF i > s.sel THEN 1 ELSE 0)
    IN  IF near = {} THEN 0 ELSE CHOOSE i \in near : \A j \in near : Key(i) <= Key(j)

\* Slip: the stack of the closed Tab is not asked.
NextSelectionByPosition(s, w, project, focus) ==
    LET left == {i \in 1 .. (w - 1) : s.tabs[i].project = project}
        any  == First({i \in DOMAIN s.tabs : s.tabs[i].project = project})
    IN  CASE left # {} -> CHOOSE i \in left : \A j \in left : j <= i
          [] left = {} /\ any # 0 -> any
          [] OTHER -> IF w > 1 THEN w - 1 ELSE 1

\* Where the selection goes when the selected Tab w of project was removed,
\* leaving the Tabs of s; focus is the Pane its stack offers.
NextSelection(s, w, project, focus) ==
    LET left == {i \in 1 .. (w - 1) : s.tabs[i].project = project}
        any  == First({i \in DOMAIN s.tabs : s.tabs[i].project = project})
    IN  CASE focus # None  -> TabOf(s, focus)
          [] focus = None /\ left # {} -> CHOOSE i \in left : \A j \in left : j <= i
          [] focus = None /\ left = {} /\ any # 0 -> any
          [] OTHER -> IF w > 1 THEN w - 1 ELSE 1

\* The selection after Tab w, not the selected one, was removed.
SelectionAfterRemoval(s, w) == IF w < s.sel THEN s.sel - 1 ELSE s.sel

\* The last Pane of the only Tab of one Project of several takes it along.
ProjectsAfterClose(s, w) ==
    LET project == s.tabs[w].project
    IN  IF /\ Len(s.tabs[w].panes) = 1
           /\ Len(s.projects) > 1
           /\ Len(ProjectTabs(s, project)) = 1
        THEN SelectSeq(s.projects, LAMBDA p : p.id # project) ELSE s.projects

\* close_pane; today says whether the Today panel covers the Workspace.
ClosePane(s, pane, today) ==
    LET w     == TabOf(s, pane)
        alone == Len(s.tabs[w].panes) = 1
        near  == IF today \/ Selected(s) # pane \/ ~alone THEN 0 ELSE NearestInStack(s)
        focus == IF near = 0 THEN None ELSE s.tabs[near].active
        fixed == RepairAnchor(s, pane)
        cut   == [fixed EXCEPT !.projects = ProjectsAfterClose(s, w),
                               !.tabs = IF alone THEN RemoveAt(@, w)
                                        ELSE [@ EXCEPT ![w] = Without(@, pane)]]
        moved == CASE ~alone           -> s.sel
                   [] alone /\ w = s.sel -> NextSelection(cut, w, s.tabs[w].project, focus)
                   [] OTHER            -> SelectionAfterRemoval(s, w)
    IN  IF cut.tabs = <<>> THEN cut
        ELSE Remember([cut EXCEPT !.sel = moved, !.project = cut.tabs[moved].project],
                      cut.tabs[moved].project, cut.tabs[moved].active)

\* The panes in turn; closing the last Pane of all stops the server.
ClosePanes(s, panes, today) ==
    FoldLeft(LAMBDA t, pane : IF t.tabs = <<>> THEN t ELSE ClosePane(t, pane, today),
             s, panes)

\* Slip: the stack hanging under the Pane is not repaired.
DetachPaneUnrepaired(s, pane) ==
    LET source == TabOf(s, pane)
    IN  IF Len(s.tabs[source].panes) > 1
        THEN [s EXCEPT !.tabs[source] = Without(@, pane)]
        ELSE [s EXCEPT !.tabs = RemoveAt(@, source),
                       !.sel  = IF @ > source \/ @ > Len(s.tabs) - 1 THEN @ - 1 ELSE @]

\* detach_pane
DetachPane(s, pane) ==
    LET source == TabOf(s, pane)
        fixed  == RepairAnchor(s, pane)
    IN  IF Len(s.tabs[source].panes) > 1
        THEN [fixed EXCEPT !.tabs[source] = Without(@, pane)]
        ELSE [fixed EXCEPT !.tabs = RemoveAt(@, source),
                           !.sel  = IF @ > source \/ @ > Len(s.tabs) - 1 THEN @ - 1 ELSE @]

\* finish_pane_move
FinishPaneMove(s, target) == Activate([s EXCEPT !.last = None], target)

\* move_pane_to_window, target being a Tab of the same Project
MovePaneToTab(s, pane, target) ==
    LET source == TabOf(s, pane)
        closed == Len(s.tabs[source].panes) = 1
        at     == IF closed /\ source < target THEN target - 1 ELSE target
        free   == DetachPane(s, pane)
    IN  FinishPaneMove(
            [free EXCEPT !.tabs[at] = [@ EXCEPT !.panes  = Beside(@, free.tabs[at].active, pane),
                                                !.zoomed = None,
                                                !.active = pane]], at)

\* move_pane_to_new_window
MovePaneToNewTab(s, pane) ==
    LET source == TabOf(s, pane)
        free   == DetachPane(s, pane)
    IN  FinishPaneMove(
            [free EXCEPT !.tabs = InsertAt(@, source + 1,
                                           NewTab(s.tabs[source].project, <<pane>>))],
            source + 1)

-----------------------------------------------------------------------------
(* Reordering, Projects, and the catalog definition. *)

\* move_tab_to: Tab i takes the Project-relative position to.
MoveTabTo(s, i, to) ==
    LET order == ProjectTabs(s, s.tabs[i].project)
        after == InsertAt(SelectSeq(order, LAMBDA j : j # i), to, i)
        Place(j) == order[Position(after, j)]
    IN  [s EXCEPT !.tabs = [j \in DOMAIN @ |->
                              IF \E k \in DOMAIN order : order[k] = j
                              THEN @[after[Position(order, j)]]
                              ELSE @[j]],
                  !.sel = IF s.tabs[@].project = s.tabs[i].project THEN Place(@) ELSE @]

RememberedPane(s, project) ==
    s.projects[First({i \in DOMAIN s.projects : s.projects[i].id = project})].pane

\* The Tab a Project shows when it is selected: the one with the remembered
\* Pane, else its first.
PreferredTab(s, project) ==
    LET mine == ProjectTabs(s, project)
        kept == SelectSeq(mine, LAMBDA i : RememberedPane(s, project) \in ToSet(s.tabs[i].panes))
    IN  IF kept # <<>> THEN Head(kept) ELSE Head(mine)

\* remove_project
RemoveProject(s, project, today) ==
    LET panes == FlattenSeq([k \in DOMAIN ProjectTabs(s, project) |->
                               s.tabs[ProjectTabs(s, project)[k]].panes])
        cut   == [s EXCEPT !.projects = SelectSeq(@, LAMBDA p : p.id # project)]
        moved == IF s.project = project
                 THEN Activate(cut, Head(ProjectTabs(cut, cut.projects[1].id))) ELSE cut
    IN  ClosePanes(moved, panes, today)

\* Slip: the parent is recorded as a position among all Tabs, not among the
\* Project's own.
DefinitionGlobalParents(s) ==
    LET Ordinal(project, i) == Position(ProjectTabs(s, project), i)
        shown == SelectSeq(s.projects, LAMBDA p : ProjectTabs(s, p.id) # <<>>)
    IN  [active   |-> s.project,
         projects |-> [k \in DOMAIN shown |->
            LET id == shown[k].id
                mine == ProjectTabs(s, id)
            IN  [id     |-> id,
                 active |-> Ordinal(id, IF id = s.project THEN s.sel ELSE PreferredTab(s, id)),
                 tabs   |-> [j \in DOMAIN mine |->
                    [size   |-> Len(s.tabs[mine[j]].panes),
                     parent |-> TabParent(s, mine[j])]]]]]

\* workspace_definition: what a clean stop leaves in the catalog.
Definition(s) ==
    LET Ordinal(project, i) == Position(ProjectTabs(s, project), i)
        shown == SelectSeq(s.projects, LAMBDA p : ProjectTabs(s, p.id) # <<>>)
    IN  [active   |-> s.project,
         projects |-> [k \in DOMAIN shown |->
            LET id == shown[k].id
                mine == ProjectTabs(s, id)
            IN  [id     |-> id,
                 active |-> Ordinal(id, IF id = s.project THEN s.sel ELSE PreferredTab(s, id)),
                 tabs   |-> [j \in DOMAIN mine |->
                    [size   |-> Len(s.tabs[mine[j]].panes),
                     parent |-> IF TabParent(s, mine[j]) = 0 THEN 0
                                ELSE Ordinal(id, TabParent(s, mine[j]))]]]]]

\* The <<Project, Tab>> ordinals of a definition, in order.
Slots(d) ==
    FlattenSeq([k \in DOMAIN d.projects |->
                  [j \in DOMAIN d.projects[k].tabs |-> <<k, j>>]])

\* restore_workspace_definition: fresh Panes for every Tab of d but those in
\* failed, whose shells could not be started.
Restore(d, failed) ==
    LET kept   == SelectSeq(Slots(d), LAMBDA slot : slot \notin failed)
        Tab(k) == d.projects[kept[k][1]].tabs[kept[k][2]]
        before[k \in 1 .. Len(kept)] ==
            IF k = 1 THEN 0 ELSE before[k - 1] + Tab(k - 1).size
        At(project, tab) == Position(kept, <<project, tab>>)
        Pane(k) == before[k] + 1
        bare   == [k \in DOMAIN kept |->
                     NewTab(d.projects[kept[k][1]].id, [m \in 1 .. Tab(k).size |-> before[k] + m])]
        live   == SelectSeq([k \in DOMAIN d.projects |-> k],
                            LAMBDA k : \E j \in DOMAIN kept : kept[j][1] = k)
        Shown(k) == IF At(k, d.projects[k].active) # 0 THEN At(k, d.projects[k].active)
                    ELSE First({j \in DOMAIN kept : kept[j][1] = k})
        front  == LET same == SelectSeq(live, LAMBDA k : d.projects[k].id = d.active)
                  IN  IF same # <<>> THEN Head(same) ELSE Head(live)
        base   == [tabs |-> bare, sel |-> Shown(front), project |-> d.projects[front].id,
                   projects |-> [k \in DOMAIN live |-> [id   |-> d.projects[live[k]].id,
                                                        pane |-> Pane(Shown(live[k]))]],
                   last |-> None]
    IN  FoldLeft(LAMBDA s, k :
                    LET under == At(kept[k][1], Tab(k).parent)
                    IN  IF under = 0 THEN s ELSE AssignParent(s, Pane(k), Pane(under)),
                 base, [k \in DOMAIN kept |-> k])

-----------------------------------------------------------------------------
(* The server's handlers. *)

Bootstrap ==
    [tabs |-> <<NewTab(1, <<1>>)>>, sel |-> 1, project |-> 1,
     projects |-> <<[id |-> 1, pane |-> 1]>>, last |-> None]

Init == ws = Bootstrap

Running == ws.tabs # <<>>

RoomFor(tabs, panes) ==
    Len(ws.tabs) + tabs <= MaxTabs /\ Cardinality(FreshPanes(ws)) >= panes

\* create_tab
CreateTab(s, project, background) == InsertTab(s, project, <<FreshPane(s)>>, background)

\* A stacked Tab: Command::NewStackTab, and launches with LaunchTarget::NewStack.
CreateStackTab(s, anchor, background) ==
    AssignParent(CreateTab(s, s.tabs[TabOf(s, anchor)].project, background),
                 FreshPane(s), anchor)

\* split_pane, and launches with LaunchTarget::NewPane
SplitPane(s, anchor, background) ==
    InsertSplit(s, TabOf(s, anchor), anchor, FreshPane(s), background)

\* The Tab of a workflow or relay run, one Pane per role.
OpenRunTab(s, project) ==
    LET one == FreshPane(s)
        two == CHOOSE p \in FreshPanes(s) \ {one} : \A q \in FreshPanes(s) \ {one} : p <= q
    IN  InsertTab(s, project, <<one, two>>, FALSE)

\* create_project_with_focus
CreateProject(s, background) ==
    LET listed == [s EXCEPT !.projects = Append(@, [id   |-> FreshProject(s),
                                                    pane |-> FreshPane(s)])]
    IN  InsertTab(listed, FreshProject(s), <<FreshPane(s)>>, background)

\* import_workspace, for one imported Tab: an existing Project gains it, an
\* unknown one is added with it.  All PTYs are staged first, so a failed spawn
\* changes nothing; several Tabs are several of these.
Import(s, project) ==
    LET pane   == FreshPane(s)
        listed == IF HasProject(s, project) THEN s
                  ELSE [s EXCEPT !.projects = Append(@, [id |-> project, pane |-> pane])]
    IN  InsertTab(listed, project, <<pane>>, TRUE)

Creating ==
    \/ \E i \in DOMAIN ws.projects, background \in BOOLEAN :
          RoomFor(1, 1) /\ Becomes(CreateTab(ws, ws.projects[i].id, background))
    \/ \E anchor \in Panes(ws), background \in BOOLEAN :
          RoomFor(1, 1) /\ Becomes(CreateStackTab(ws, anchor, background))
    \/ \E anchor \in Panes(ws), background \in BOOLEAN :
          RoomFor(0, 1) /\ Becomes(SplitPane(ws, anchor, background))
    \/ \E i \in DOMAIN ws.projects :
          RoomFor(1, 2) /\ Becomes(OpenRunTab(ws, ws.projects[i].id))
    \/ \E background \in BOOLEAN :
          /\ FreshProjects(ws) # {} /\ RoomFor(1, 1)
          /\ Becomes(CreateProject(ws, background))
    \/ \E project \in ProjectIds :
          /\ HasProject(ws, project) \/ project \in FreshProjects(ws)
          /\ RoomFor(1, 1)
          /\ Becomes(Import(ws, project))

\* A Pane's process exits or it is killed; close_tab; remove_project, which
\* leaves the only Project alone.
Closing ==
    \/ \E pane \in Panes(ws), today \in BOOLEAN : Becomes(ClosePane(ws, pane, today))
    \/ \E i \in DOMAIN ws.tabs, today \in BOOLEAN :
          Becomes(ClosePanes(ws, ws.tabs[i].panes, today))
    \/ \E i \in DOMAIN ws.projects, today \in BOOLEAN :
          Len(ws.projects) > 1 /\ Becomes(RemoveProject(ws, ws.projects[i].id, today))

\* The target of "Move to tab" is the window index the context menu was opened
\* with, which may by now be any Tab; only a Tab of the same Project is taken.
CanMove(s, pane, target) ==
    /\ target # TabOf(s, pane)
    /\ s.tabs[target].project = s.tabs[TabOf(s, pane)].project

\* move_project
MoveProject(s, from, to) ==
    [s EXCEPT !.projects = InsertAt(RemoveAt(@, from), to, @[from])]

Moving ==
    \/ \E pane \in Panes(ws), target \in DOMAIN ws.tabs :
          CanMove(ws, pane, target) /\ Becomes(MovePaneToTab(ws, pane, target))
    \/ \E pane \in Panes(ws) :
          /\ Len(ws.tabs[TabOf(ws, pane)].panes) > 1 /\ RoomFor(1, 0)
          /\ Becomes(MovePaneToNewTab(ws, pane))
    \/ \E i \in DOMAIN ws.tabs : \E to \in DOMAIN ProjectTabs(ws, ws.tabs[i].project) :
          Becomes(MoveTabTo(ws, i, to))
    \/ \E from \in DOMAIN ws.projects :
          \E to \in DOMAIN ws.projects \cap {from - 1, from + 1, 1, Len(ws.projects)} :
             Becomes(MoveProject(ws, from, to))
    \/ \E pane \in Panes(ws), parent \in Panes(ws) \cup {None} :
          Becomes(AssignParent(ws, pane, parent))

-----------------------------------------------------------------------------
(* Navigation. *)

\* switch_project
SwitchProject(project) ==
    /\ HasProject(ws, project) /\ project # ws.project
    /\ Becomes(Activate(ws, PreferredTab(ws, project)))

\* NextWindow, PrevWindow and SelectWindow
SelectTab(i) ==
    /\ i # ws.sel /\ ws.tabs[i].project = ws.project
    /\ Becomes(Activate(ws, i))

\* focus_pane_target
Focused(s, pane) ==
    LET i    == TabOf(s, pane)
        from == Selected(s)
        at   == Activate(s, i)
    IN  Remember([at EXCEPT !.last = IF from # pane THEN from ELSE @,
                            !.tabs[i].active = pane,
                            !.tabs[i].zoomed = IF @ # None THEN pane ELSE None],
                 s.tabs[i].project, pane)

FocusPane(pane) == Becomes(Focused(ws, pane))

\* Command::Focus, and a press that an application in the Pane takes: the Tab
\* is unzoomed.
FocusNeighbour(pane) ==
    /\ pane \in ToSet(ws.tabs[ws.sel].panes) \ {Selected(ws)}
    /\ Becomes([ws EXCEPT !.last = Selected(ws), !.tabs[ws.sel].active = pane,
                        !.tabs[ws.sel].zoomed = None])

\* A click on, or hover over, a Pane that is on screen; also the focus a
\* context-menu action takes first.
ClickPane(pane) ==
    /\ pane \in ToSet(ws.tabs[ws.sel].panes) \ {Selected(ws)}
    /\ ws.tabs[ws.sel].zoomed \in {None, pane}
    /\ Becomes([ws EXCEPT !.last = Selected(ws), !.tabs[ws.sel].active = pane])

ClickNotification(pane) ==
    LET i == TabOf(ws, pane)
    IN  Becomes([Activate(ws, i) EXCEPT !.tabs[i].active = pane])

ZoomToggle ==
    Becomes([ws EXCEPT !.tabs[ws.sel].zoomed = IF @ # None THEN None ELSE Selected(ws)])

LastPane ==
    /\ ws.last \in ToSet(ws.tabs[ws.sel].panes)
    /\ Becomes([ws EXCEPT !.tabs[ws.sel].active = ws.last, !.last = Selected(ws),
                        !.tabs[ws.sel].zoomed = None])

\* A clean stop and the next start; failed are the Tabs whose shells cannot be
\* spawned again, not all of them.
Restart(failed) ==
    /\ \E k \in DOMAIN Slots(Definition(ws)) : Slots(Definition(ws))[k] \notin failed
    /\ Becomes(Restore(Definition(ws), failed))

\* The last Pane closed and the server stopped; a new one binds.
Bind == ~Running /\ ws' = Bootstrap

Navigating ==
    \/ \E i \in DOMAIN ws.projects : SwitchProject(ws.projects[i].id)
    \/ \E i \in DOMAIN ws.tabs : SelectTab(i)
    \/ \E pane \in Panes(ws) : \/ FocusPane(pane) \/ FocusNeighbour(pane)
                               \/ ClickPane(pane) \/ ClickNotification(pane)
    \/ ZoomToggle
    \/ LastPane

Next ==
    \/ Running /\ Creating
    \/ Running /\ Closing
    \/ Running /\ Moving
    \/ Running /\ Navigating
    \/ Running /\ \E failed \in SUBSET ToSet(Slots(Definition(ws))) : Restart(failed)
    \/ Bind

Spec == Init /\ [][Next]_vars

-----------------------------------------------------------------------------
(* Properties. *)

TypeOK ==
    /\ ws \in [tabs : Seq([project : ProjectIds, panes : Seq(PaneIds), active : PaneIds,
                           zoomed : PaneIds \cup {None}, parent : PaneIds \cup {None}]),
               sel : 1 .. MaxTabs, project : ProjectIds,
               projects : Seq([id : ProjectIds, pane : PaneIds \cup {Gone}]),
               last : PaneIds \cup {None, Gone}]
    /\ Len(ws.tabs) <= MaxTabs

\* Whatever was created, closed, moved or imported in which order, every Pane
\* is in exactly one Tab and every Tab in a listed Project, every listed
\* Project has a Tab, a Tab's active and zoomed Panes are its own, and the
\* selected Tab exists and belongs to the active Project.  (The comment in
\* move_pane_to_new_window recalls a release build that left one Pane in two
\* Tabs; close_pane, remove_project and detach_pane each repair the indices.)
WellFormed ==
    Running =>
      /\ \A i, j \in DOMAIN ws.tabs :
            \A m \in DOMAIN ws.tabs[i].panes, n \in DOMAIN ws.tabs[j].panes :
               ws.tabs[i].panes[m] = ws.tabs[j].panes[n] => i = j /\ m = n
      /\ \A i \in DOMAIN ws.tabs :
            /\ ws.tabs[i].panes # <<>>
            /\ ws.tabs[i].active \in ToSet(ws.tabs[i].panes)
            /\ ws.tabs[i].zoomed \in ToSet(ws.tabs[i].panes) \cup {None}
            /\ HasProject(ws, ws.tabs[i].project)
      /\ \A k \in DOMAIN ws.projects : ProjectTabs(ws, ws.projects[k].id) # <<>>
      /\ \A k, l \in DOMAIN ws.projects : ws.projects[k].id = ws.projects[l].id => k = l
      /\ ws.sel \in DOMAIN ws.tabs
      /\ ws.project = ws.tabs[ws.sel].project

\* Stacks stay a forest inside each Project: no Tab hangs under a Pane that is
\* gone or that lives in another Project, and following parents always ends at
\* a Tab that hangs under nothing.  assign_tab_parent refuses cycles and
\* cross-Project links; repair_stack_anchor must re-hang the children of every
\* Pane that closes or moves away.
StackIsForest ==
    \A i \in DOMAIN ws.tabs :
       /\ ws.tabs[i].parent # None => TabParent(ws, i) # 0
       /\ ws.tabs[StackRoot(ws, i)].parent = None

SameFocus(s, t) == t.project = s.project /\ Selected(t) = Selected(s)

\* Wherever the Workspace has got to, background creation keeps the active
\* Project, Pane and zoom (docs/uniterm-skill.md: it "preserves the human's
\* active Project, Tab, Pane, and existing zoom"), and closing another Pane,
\* removing another Project, reordering Tabs or restacking keeps the active
\* Project and Pane although the positions of the Tabs shift.
FocusIsKept ==
    Running =>
      /\ \A anchor \in Panes(ws), project \in {ws.projects[i].id : i \in DOMAIN ws.projects} :
            FreshPanes(ws) # {} =>
               \A after \in {CreateTab(ws, project, TRUE), CreateStackTab(ws, anchor, TRUE),
                             SplitPane(ws, anchor, TRUE), Import(ws, project)} :
                  /\ SameFocus(ws, after)
                  /\ after.tabs[after.sel].zoomed = ws.tabs[ws.sel].zoomed
      /\ \A pane \in Panes(ws) \ {Selected(ws)}, today \in BOOLEAN :
            SameFocus(ws, ClosePane(ws, pane, today))
      /\ \A i \in DOMAIN ws.projects :
            ws.projects[i].id # ws.project =>
               SameFocus(ws, RemoveProject(ws, ws.projects[i].id, FALSE))
      /\ \A i \in DOMAIN ws.tabs : \A to \in DOMAIN ProjectTabs(ws, ws.tabs[i].project) :
            SameFocus(ws, MoveTabTo(ws, i, to))

\* When the focused Pane closes, the focus stays as near as it can: in its Tab
\* if that survives, else in its stack (unless the Today panel covers it),
\* else in its Project (close_pane: "Closing an active child must stay in its
\* stack, even when unrelated root Tabs are interleaved").
FocusStaysNear ==
    Running =>
      \A today \in BOOLEAN :
        LET after == ClosePane(ws, Selected(ws), today)
            stack == StackTabs(ws) \ {ws.sel}
            Within(tabs) == \E i \in tabs : Selected(after) \in ToSet(ws.tabs[i].panes)
        IN  CASE Len(ws.tabs[ws.sel].panes) > 1 -> Within({ws.sel})
              [] Len(ws.tabs[ws.sel].panes) = 1 /\ stack # {} /\ ~today -> Within(stack)
              [] OTHER -> Len(ProjectTabs(ws, ws.project)) > 1 => after.project = ws.project

\* A clean stop and the next start rebuild the same Projects, Tabs, stacks and
\* selected Tabs: what workspace_definition records is what it would record
\* again after restore_workspace_definition.
DefinitionSurvivesRestart ==
    Running => Definition(Restore(Definition(ws), {})) = Definition(ws)

=============================================================================
