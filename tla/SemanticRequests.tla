-------------------------- MODULE SemanticRequests --------------------------
(***************************************************************************)
(* The one-shot commands of `ut` and the two doors of the server they use: *)
(* the binary socket (server/messages.rs) and the control API              *)
(* (server/control.rs).  A command opens a connection, sends one request   *)
(* and turns the first matching answer, or the lack of one, into an exit   *)
(* code (uniterm-client/src/requests.rs, uniterm-cli/src/lib.rs).          *)
(* Commands that name a Tab or a Project first ask the server where it is  *)
(* and act on the answer with a second connection.                         *)
(*                                                                         *)
(* Both doors change one core.  Its hierarchy is that of Hierarchy, whose  *)
(* operators are used here without the renaming of ids, so a closed Pane's *)
(* id is never seen again.  What leaves the hierarchy alone (names, typed  *)
(* input, metadata, Task and queue edits, notes, settings) is a mark       *)
(* naming the command and what it touched.  Answers carry what the exit    *)
(* code looks at and, for the two listings, the hierarchy.                 *)
(***************************************************************************)
EXTENDS Naturals, Sequences, FiniteSets, SequencesExt

CONSTANTS Commands,   \* processes of `ut`
          Panes0,     \* Panes that can be named on a command line
          MaxPanes, MaxProjects, MaxTabs,
          MaxMoves    \* steps of the other users of the Workspace

VARIABLES core,       \* the server, see Boot
          cli,        \* the processes
          link,       \* their connections: request on its way, answers to be read
          moves       \* steps of others so far

H == INSTANCE Hierarchy WITH ws <- core.h

vars == <<core, cli, link, moves>>

None == 0
Statuses == {"idle", "working"}

\* The commands of the control API (ControlCommand) and of the binary socket
\* (ClientMessage) that one-shot callers send, by what they are about.
TimelineCommands == {"timeline_note", "timeline_prompt"}
InstructionCommands == {"instruction_add", "instruction_replace", "instruction_cancel",
                        "instruction_send_now"}
WorktreeCommands == {"worktree_list", "worktree_add", "worktree_open", "worktree_remove",
                     "worktree_cleanup"}
ProjectCommands == {"project_create", "project_rename", "project_move", "project_switch",
                    "project_remove", "project_metadata"}
TabCommands == {"tab_create", "tab_rename", "tab_move", "tab_paste", "tab_close"}
PaneCommands == {"pane_split", "pane_close", "pane_layout", "tab_stack", "pane_paste", "pane_send",
                 "pane_read", "pane_focus", "pane_metadata", "hierarchy_focus", "tab_move_active"}
AgentCommands == {"agent_launch", "agent_focus", "agent_stop", "agent_stop_all"}
ManagerCommands == {"timeline_manager", "timeline_focus"}
TaskCommands == {"task_create", "task_set_status", "task_retitle", "task_notes", "task_delete"}
WaitCommands == {"pane_wait_output", "agent_wait"}
SettingCommands == {"file_sort", "auto_approve", "timeline_open"}

\* Answered when the agent runtime has done its part.
RuntimeCommands == WorktreeCommands \cup {"run_fork", "project_directory", "timeline_query",
                                        "timeline_resume"}

Family(op) ==
    CASE op \in ProjectCommands  -> "project"
      [] op \in TabCommands      -> "tab"
      [] op \in PaneCommands     -> "pane"
      [] op \in AgentCommands \cup ManagerCommands -> "agent"
      [] op \in TaskCommands     -> "task"
      [] op \in TimelineCommands -> "timeline"
      [] op \in SettingCommands  -> "setting"
      [] op \in WaitCommands     -> "wait"
      [] op \in RuntimeCommands  -> "runtime"
      [] op \in InstructionCommands \cup {"waiting_act"} -> "queue"
      [] op = "kill_server" -> "kill"
      [] OTHER -> "list"

\* Two Projects; the first has two Tabs, the first of them two Panes.  Pane 2
\* runs an agent, Pane 3 does not read its input.
Boot ==
    LET tab(p, panes) == H!NewTab(p, panes)
    IN  [h |-> [tabs |-> <<tab(1, <<1, 2>>), tab(1, <<3>>), tab(2, <<4>>)>>,
                sel |-> 1, project |-> 1,
                projects |-> <<[id |-> 1, pane |-> 1], [id |-> 2, pane |-> 4]>>,
                last |-> None],
         pane |-> 5, project |-> 3,
         agents |-> [p \in {2} |-> "idle"],
         full |-> {3},
         printed |-> {},      \* Panes whose output has the text that is waited for
         sound |-> TRUE,      \* the event log takes records
         items |-> {2},       \* Panes with a waiting item or a queued instruction
         tasks |-> {1},
         jobs |-> {},         \* commands whose work is with the agent runtime
         waits |-> << >>,     \* pending_wait of the connections that have one
         served |-> TRUE,     \* no event since the waits were last looked at
         marks |-> {}]

Up(s) == s.h.tabs # <<>>
OpenPanes(s) == H!Panes(s.h)
HasProject(s, p) == H!HasProject(s.h, p)
TabPanes(s, p) == IF p \in OpenPanes(s) THEN ToSet(s.h.tabs[H!TabOf(s.h, p)].panes) ELSE {}
OwnerOf(s, p) == s.h.tabs[H!TabOf(s.h, p)].project

Mark(s, c, on) == [s EXCEPT !.marks = @ \cup {[by |-> c, on |-> on]}]
OnPane(p) == <<"pane", p>>
OnProject(p) == <<"project", p>>
OnTask(t) == <<"task", t>>
OnWorkspace == <<"workspace", 0>>

\* What a handler makes of the core and says about it; hit is what it acted on.
Said(s, found, ok, hit) == [core |-> s, found |-> found, ok |-> ok, hit |-> hit]

\* A Pane's end takes its agent, its queue entries and its unread input along.
Forget(s) ==
    LET left == OpenPanes(s)
    IN  [s EXCEPT !.agents = [p \in DOMAIN @ \cap left |-> @[p]],
                  !.full = @ \cap left, !.items = @ \cap left, !.printed = @ \cap left,
                  !.served = DOMAIN s.waits = {}]

Rehung(s, h) == Forget([s EXCEPT !.h = h])

-----------------------------------------------------------------------------
(* What the commands do to the Workspace (server/projects.rs, server.rs).  *)

\* spawn_pane: the id is taken whether or not the Tab it is for is shown.
Fresh(s) == s.pane <= MaxPanes /\ Len(s.h.tabs) < MaxTabs

\* create_project_with_focus: a shell that does not start changes nothing.
CreateProject(s, c, background, spawns) ==
    IF ~spawns \/ ~Fresh(s) \/ s.project > MaxProjects THEN Said(s, TRUE, FALSE, {})
    ELSE LET listed == [s.h EXCEPT !.projects = Append(@, [id |-> s.project, pane |-> s.pane])]
         IN  Said([s EXCEPT !.h = H!InsertTab(listed, s.project, <<s.pane>>, background),
                            !.pane = @ + 1, !.project = @ + 1],
                  TRUE, TRUE, {OnProject(s.project)})

\* rename_project
RenameProject(s, c, p) ==
    IF HasProject(s, p) THEN Said(Mark(s, c, OnProject(p)), TRUE, TRUE, {OnProject(p)})
    ELSE Said(s, FALSE, FALSE, {})

\* move_project, down
MoveProject(s, p) ==
    LET from == H!First({i \in DOMAIN s.h.projects : s.h.projects[i].id = p})
        can  == from # 0 /\ from < Len(s.h.projects)
    IN  Said(IF can THEN [s EXCEPT !.h = H!MoveProject(@, from, from + 1)] ELSE s,
             from # 0, can, {OnProject(p)})

\* switch_project
SwitchProject(s, p) ==
    IF ~HasProject(s, p) THEN Said(s, FALSE, FALSE, {})
    ELSE Said(IF s.h.project = p THEN s
              ELSE [s EXCEPT !.h = H!Activate(@, H!PreferredTab(@, p))], TRUE, TRUE, {OnProject(p)})

\* remove_project leaves the only Project alone.
RemoveProject(s, p) ==
    LET can == HasProject(s, p) /\ Len(s.h.projects) > 1
    IN  Said(IF can THEN Rehung(s, H!RemoveProject(s.h, p, FALSE)) ELSE s,
             HasProject(s, p), can, {OnProject(p)})

\* create_tab
CreateTab(s, p, background, spawns) ==
    LET can == HasProject(s, p) /\ spawns /\ Fresh(s)
    IN  Said(IF can THEN [s EXCEPT !.h = H!InsertTab(@, p, <<s.pane>>, background), !.pane = @ + 1]
             ELSE s, HasProject(s, p), can, {OnProject(p)})

\* tab_target: the Tab with this ordinal now, 0 when there is none.
TabTarget(s, p, tab) ==
    LET mine == H!ProjectTabs(s.h, p)
    IN  IF tab \in DOMAIN mine THEN mine[tab] ELSE 0

HitTab(s, i) == {OnPane(p) : p \in ToSet(s.h.tabs[i].panes)}

\* Slip: the end of the list is not the end.
TabMoveTargetUnchecked(s, i) ==
    LET mine == H!ProjectTabs(s.h, s.h.tabs[i].project)
        from == H!Position(mine, i)
    IN  IF from < Len(mine) THEN from + 1 ELSE from

\* tab_move_target, to the right, wrapping to the front; 0 for an only Tab
TabMoveTarget(s, i) ==
    LET mine == H!ProjectTabs(s.h, s.h.tabs[i].project)
        from == H!Position(mine, i)
    IN  CASE Len(mine) < 2     -> 0
          [] from < Len(mine)  -> from + 1
          [] OTHER             -> 1

MoveTab(s, i) ==
    LET to == TabMoveTarget(s, i)
    IN  Said(IF to = 0 THEN s ELSE [s EXCEPT !.h = H!MoveTabTo(@, i, to)],
             TRUE, to # 0, HitTab(s, i))

\* queue_pane_input: all of the bytes or none.
TypeInto(s, c, p) ==
    CASE p \notin OpenPanes(s) -> Said(s, FALSE, FALSE, {})
      [] p \in s.full          -> Said(s, TRUE, FALSE, {OnPane(p)})
      [] OTHER                 -> Said(Mark(s, c, OnPane(p)), TRUE, TRUE, {OnPane(p)})

\* split_pane
SplitPane(s, p, background, spawns) ==
    LET can == p \in OpenPanes(s) /\ spawns /\ s.pane <= MaxPanes
    IN  Said(IF can THEN [s EXCEPT !.h = H!InsertSplit(@, H!TabOf(@, p), p, s.pane, background),
                                   !.pane = @ + 1]
             ELSE s, p \in OpenPanes(s), can, {OnPane(p)})

\* close_pane
ClosePane(s, p) ==
    IF p \in OpenPanes(s) THEN Said(Rehung(s, H!ClosePane(s.h, p, FALSE)), TRUE, TRUE, {OnPane(p)})
    ELSE Said(s, FALSE, FALSE, {})

\* focus_pane_target
FocusPane(s, p) ==
    IF p \in OpenPanes(s) THEN Said([s EXCEPT !.h = H!Focused(@, p)], TRUE, TRUE, {OnPane(p)})
    ELSE Said(s, FALSE, FALSE, {})

\* focus_hierarchy_target
FocusTab(s, project, tab) ==
    LET i == TabTarget(s, project, tab)
    IN  IF i = 0 THEN Said(s, FALSE, FALSE, {}) ELSE FocusPane(s, s.h.tabs[i].active)

\* An edit of something that lives outside the hierarchy.
Edit(s, c, found, on) == Said(IF found THEN Mark(s, c, on) ELSE s, found, found, {on})

\* stop_all_agents of a Project
StopAgents(s, p) ==
    LET mine == {q \in DOMAIN s.agents : OwnerOf(s, q) = p}
    IN  Said(IF mine = {} THEN s
             ELSE Rehung(s, H!ClosePanes(s.h, SetToSeq(mine), FALSE)),
             s.agents # << >>, mine # {}, {OnProject(p)})

\* bind_agent, in the Pane that t has just opened
Bound(t, p) ==
    [t EXCEPT !.core = IF t.ok THEN [@ EXCEPT !.agents =
                           [q \in DOMAIN @ \cup {p} |-> IF q = p THEN "working" ELSE @[q]]]
                       ELSE @]

\* launch_agent_at beside an anchor
Launch(s, anchor, spawns) == Bound(SplitPane(s, anchor, TRUE, spawns), s.pane)

\* launch_today_manager: in a Tab of its own
Manager(s, p, spawns) == Bound(CreateTab(s, p, TRUE, spawns), s.pane)

-----------------------------------------------------------------------------
(* The control API (on_control_request).  Every answer to a mutation says  *)
(* whether it was accepted; background says whether the view stays.        *)

ControlProject(s, c, r, spawns) ==
    CASE r.op = "project_create" -> CreateProject(s, c, TRUE, spawns)
      [] r.op = "project_rename" -> RenameProject(s, c, r.project)
      [] r.op = "project_move"   -> MoveProject(s, r.project)
      [] r.op = "project_switch" -> SwitchProject(s, r.project)
      [] r.op = "project_remove" -> RemoveProject(s, r.project)

ControlTab(s, c, r, spawns) ==
    LET i == TabTarget(s, r.project, r.tab)
    IN  CASE r.op = "tab_create" -> CreateTab(s, r.project, TRUE, spawns)
          [] r.op # "tab_create" /\ i = 0 -> Said(s, FALSE, FALSE, {})
          [] r.op = "tab_rename" /\ i # 0 ->
               Said(Mark(s, c, OnPane(s.h.tabs[i].active)), TRUE, TRUE, HitTab(s, i))
          [] r.op = "tab_move" /\ i # 0   -> MoveTab(s, i)
          [] r.op = "tab_paste" /\ i # 0  -> TypeInto(s, c, s.h.tabs[i].active)
          [] r.op = "tab_close" /\ i # 0  ->
               Said(Rehung(s, H!ClosePanes(s.h, s.h.tabs[i].panes, FALSE)), TRUE, TRUE, HitTab(s, i))

ControlPane(s, c, r, spawns) ==
    CASE r.op = "pane_split"  -> SplitPane(s, r.pane, TRUE, spawns)
      [] r.op = "pane_close"  -> ClosePane(s, r.pane)
      [] r.op \in {"pane_paste", "pane_send"} -> TypeInto(s, c, r.pane)
      [] r.op \in {"pane_layout", "tab_stack"} ->
           Edit(s, c, r.pane \in OpenPanes(s), OnPane(r.pane))
      [] r.op = "hierarchy_focus" -> FocusTab(s, r.project, r.tab)

\* agent_focus, timeline_focus and agent_stop want an agent in the Pane, not
\* only a Pane.
ControlAgent(s, c, r, spawns) ==
    LET bound == r.pane \in DOMAIN s.agents
    IN  CASE r.op = "agent_launch"   -> Launch(s, r.pane, spawns)
          [] r.op = "timeline_manager" -> Manager(s, r.project, spawns)
          [] r.op = "agent_stop_all" -> StopAgents(s, r.project)
          [] r.op \in {"agent_focus", "timeline_focus", "agent_stop"} /\ ~bound -> Said(s, FALSE, FALSE, {})
          [] r.op \in {"agent_focus", "timeline_focus"} /\ bound -> FocusPane(s, r.pane)
          [] r.op = "agent_stop" /\ bound  -> ClosePane(s, r.pane)

ControlTask(s, c, r) ==
    CASE r.op = "task_create" -> Said(Mark([s EXCEPT !.tasks = @ \cup {2}], c, OnTask(2)),
                                      TRUE, TRUE, {OnTask(2)})
      [] r.op = "task_delete" -> Said([s EXCEPT !.tasks = @ \ {1}], 1 \in s.tasks, 1 \in s.tasks, {OnTask(1)})
      [] r.op \in {"task_set_status", "task_retitle", "task_notes"} -> Edit(s, c, 1 \in s.tasks, OnTask(1))

\* timeline_note and timeline_prompt: kept text needs a healthy log; the
\* prompt is recorded only once the Pane has taken it.
ControlTimeline(s, c, r) ==
    CASE ~s.sound -> Said(s, FALSE, FALSE, {})
      [] s.sound /\ r.op = "timeline_note" -> Edit(s, c, HasProject(s, r.project), OnProject(r.project))
      [] s.sound /\ r.op = "timeline_prompt" ->
           IF r.pane \in DOMAIN s.agents THEN TypeInto(s, c, r.pane) ELSE Said(s, FALSE, FALSE, {})

\* waiting_act, instruction_add, _replace, _cancel and _send_now: the item's
\* own rules are those of WaitingQueue and InstructionQueue.
QueueItem(s, c, r) ==
    IF r.pane \notin s.items THEN Said(s, FALSE, FALSE, {})
    ELSE Said(Mark([s EXCEPT !.items = @ \ {r.pane}], c, OnPane(r.pane)), TRUE, TRUE, {OnPane(r.pane)})

\* file_sort, auto_approve and timeline_open always succeed.
ControlSetting(s, c) == Edit(s, c, TRUE, OnWorkspace)

\* Listings and reads: capabilities, snapshots, fleet, tasks, runs, artifacts.
Listing(s) == Said(s, TRUE, TRUE, {})

\* guard_semantic: a mass close needs the caller's word for it.
Unconfirmed(r) == r.op \in {"project_remove", "agent_stop_all"} /\ ~r.sure

on_control_request(s, c, r, spawns) ==
    CASE Unconfirmed(r)        -> Said(s, FALSE, FALSE, {})
      [] ~Unconfirmed(r) /\ r.family = "project" -> ControlProject(s, c, r, spawns)
      [] ~Unconfirmed(r) /\ r.family = "agent"   -> ControlAgent(s, c, r, spawns)
      [] r.family = "tab"      -> ControlTab(s, c, r, spawns)
      [] r.family = "pane"     -> ControlPane(s, c, r, spawns)
      [] r.family = "task"     -> ControlTask(s, c, r)
      [] r.family = "timeline" -> ControlTimeline(s, c, r)
      [] r.family = "queue"    -> QueueItem(s, c, r)
      [] r.family = "setting"  -> ControlSetting(s, c)
      [] r.family = "list"     -> Listing(s)

-----------------------------------------------------------------------------
(* The binary socket (handle_msg). *)

\* project_create, _rename, _move, _switch, _remove and _metadata
MessageProject(s, c, r, spawns) ==
    CASE r.op = "project_create" -> CreateProject(s, c, FALSE, spawns)
      [] r.op = "project_metadata" -> RenameProject(s, c, r.project)
      [] OTHER -> ControlProject(s, c, r, spawns)

\* pane_focus, hierarchy_focus, tab_move (of the selected Tab), pane_send
MessagePane(s, c, r) ==
    CASE r.op = "pane_focus"      -> FocusPane(s, r.pane)
      [] r.op = "hierarchy_focus" -> FocusTab(s, r.project, r.tab)
      [] r.op = "tab_move_active" -> MoveTab(s, s.h.sel)
      [] r.op = "pane_send"       -> TypeInto(s, c, r.pane)
      [] r.op = "pane_metadata"   -> Edit(s, c, r.pane \in OpenPanes(s), OnPane(r.pane))
      [] r.op = "pane_read"       -> Said(s, r.pane \in OpenPanes(s), r.pane \in OpenPanes(s), {})

\* kill_all_panes and shutdown
KillServer(s) == Said(Rehung(s, [s.h EXCEPT !.tabs = <<>>]), TRUE, TRUE, {OnWorkspace})

handle_msg(s, c, r, spawns) ==
    CASE Unconfirmed(r)        -> Said(s, FALSE, FALSE, {})
      [] ~Unconfirmed(r) /\ r.family = "project" -> MessageProject(s, c, r, spawns)
      [] r.family = "pane"     -> MessagePane(s, c, r)
      [] r.family = "agent"    -> Launch(s, r.pane, spawns)
      [] r.family = "queue"    -> QueueItem(s, c, r)
      [] r.family = "list"     -> Listing(s)
      [] r.family = "kill"     -> KillServer(s)

\* The messages that go back.  A mutation of the Projects is answered with the
\* listing whatever became of it; the creation's own verdict goes before it.
\* Metadata, submissions and stops are not answered, nor is a mass close that
\* nobody confirmed.
Message(kind, a) == [kind |-> kind, ok |-> a.ok, found |-> a.found, h |-> a.core.h]

AnswerKind(r) ==
    CASE r.family = "project"         -> "Workspace"
      [] r.op = "pane_focus"          -> "PaneFocused"
      [] r.op = "hierarchy_focus"     -> "HierarchyFocused"
      [] r.op = "tab_move_active"     -> "TabMoved"
      [] r.op = "pane_read"           -> "PaneOutput"
      [] r.op = "pane_send"           -> "PaneSent"
      [] r.op = "pane_wait_output"    -> "PaneOutputWaited"
      [] r.op = "agent_wait"          -> "AgentWaited"
      [] r.op = "agent_launch"        -> "AgentLaunchResult"
      [] r.op = "waiting_act"         -> "WaitingActed"
      [] r.op \in InstructionCommands -> "InstructionChanged"
      [] r.op \in WorktreeCommands    -> "Worktrees"
      [] r.op = "run_fork"            -> "RunForked"
      [] r.op = "waiting_list"        -> "Waiting"
      [] r.op = "instruction_list"    -> "Instructions"
      [] r.op = "pane_list"           -> "Panes"
      [] r.op = "run_list"            -> "Runs"
      [] r.op = "artifact_list"       -> "Artifacts"
      [] r.op = "workspace_state"     -> "Workspace"
      [] r.op = "list_info"           -> "Info"
      [] r.op = "agent_explain"       -> "AgentExplanation"

Replies(r, a) ==
    CASE r.door = "control" -> <<Message("Response", a)>>
      [] r.door = "message" /\ r.op \in {"pane_metadata", "kill_server"} -> <<>>
      [] r.door = "message" /\ Unconfirmed(r) -> <<>>
      [] r.door = "message" /\ r.op = "project_create" ->
           <<Message("ProjectCreated", a), Message("Workspace", a)>>
      [] OTHER -> <<Message(AnswerKind(r), a)>>

-----------------------------------------------------------------------------
(* Waiting for a Pane (service_pending_waits). *)

\* A wait that matches is matched even when its deadline has passed; a Pane
\* that is gone answers at once.
Reached(s, w) ==
    IF w.op = "agent_wait" THEN w.pane \in DOMAIN s.agents /\ s.agents[w.pane] = "working"
    ELSE w.pane \in s.printed

Answer(s, w) ==
    [kind |-> AnswerKind(w), found |-> w.pane \in OpenPanes(s), h |-> s.h, ok |-> Reached(s, w)]

Answerable(s, c, due) ==
    LET a == Answer(s, s.waits[c])
    IN  a.ok \/ ~a.found \/ c \in due

\* The waits of s that end now, and what is said to those still connected.
service_pending_waits(s, due) ==
    LET over == {c \in DOMAIN s.waits : Answerable(s, c, due)}
    IN  /\ core' = [s EXCEPT !.waits = [c \in DOMAIN @ \ over |-> @[c]], !.served = TRUE]
        /\ link' = [c \in Commands |->
                      IF c \in over /\ link[c].open
                      THEN [link[c] EXCEPT !.down = Append(@, Answer(s, s.waits[c]))]
                      ELSE link[c]]

\* The end of a turn of the event loop (flush_detection_due).
Settle ==
    /\ Up(core) /\ DOMAIN core.waits # {}
    /\ \E due \in SUBSET DOMAIN core.waits :
          /\ ~core.served \/ due # {}
          /\ service_pending_waits(core, due)
    /\ UNCHANGED <<cli, moves>>

-----------------------------------------------------------------------------
(* The request functions: the door they use, the answers they stop at, and  *)
(* whether they look for a verdict in it or hand it on as it is.            *)

Fn(wants, judged) == [door |-> "message", wants |-> wants, judged |-> judged]

query_info          == Fn({"Info"}, FALSE)
workspace_request   == Fn({"Workspace"}, FALSE)
worktree_request    == Fn({"Worktrees"}, TRUE)
run_fork            == Fn({"RunForked"}, TRUE)
pane_list           == Fn({"Panes"}, FALSE)
run_list            == Fn({"Runs"}, FALSE)
artifact_list       == Fn({"Artifacts"}, FALSE)
pane_focus          == Fn({"PaneFocused"}, TRUE)
pane_read           == Fn({"PaneOutput"}, TRUE)
pane_send           == Fn({"PaneSent"}, TRUE)
tab_move            == Fn({"TabMoved"}, TRUE)
pane_wait_output    == Fn({"PaneOutputWaited"}, TRUE)
agent_wait          == Fn({"AgentWaited"}, TRUE)
agent_launch        == Fn({"AgentLaunchResult"}, TRUE)
hierarchy_focus     == Fn({"HierarchyFocused"}, TRUE)
agent_explain       == Fn({"AgentExplanation"}, FALSE)
waiting_request     == Fn({"Waiting", "WaitingActed"}, TRUE)
instruction_request == Fn({"Instructions", "InstructionChanged"}, TRUE)

\* Written and not answered.
kill_server == Fn({}, FALSE)
control     == Fn({}, FALSE)

\* One line each way on the control socket.
control_request == [Fn({"Response"}, TRUE) EXCEPT !.door = "control"]

-----------------------------------------------------------------------------
(* The subcommands of `ut`: what each asks first, what it then sends, and   *)
(* through which request function.                                          *)

Plan(op, look, fn) ==
    [op |-> op, family |-> Family(op), look |-> look, fn |-> fn, sure |-> TRUE]

\* cmd_project: Projects are resolved to their ids first; only a creation in
\* the background goes through the control API.
ProjectPlans ==
    {Plan("project_create", "none", fn) : fn \in {workspace_request, control_request}}
    \cup {Plan("project_directory", "projects", control_request)}
    \cup {Plan(op, "projects", workspace_request) : op \in ProjectCommands \ {"project_create"}}

\* cmd_project_worktree
WorktreePlans ==
    {Plan(op, "none", worktree_request) : op \in {"worktree_list", "worktree_add"}}
    \cup {Plan(op, "projects", worktree_request) :
            op \in {"worktree_open", "worktree_remove", "worktree_cleanup"}}

\* cmd_run
RunPlans == {Plan("run_list", "none", run_list), Plan("run_fork", "none", run_fork)}

\* cmd_artifact
ArtifactPlans == {Plan("artifact_list", "none", artifact_list)}

\* cmd_tab move: the selected Tab, or a named one
TabMovePlans ==
    {Plan("tab_move_active", "none", tab_move), Plan("tab_move", "tabs", control_request)}

\* cmd_tab new
TabNewPlans == {Plan("tab_create", "projects", control_request)}

\* cmd_tab paste, close and rename
TabEditPlans ==
    {Plan(op, "tabs", control_request) : op \in {"tab_paste", "tab_close", "tab_rename"}}

\* cmd_tab focus, and cmd_pane focus by place
FocusPlans == {Plan("hierarchy_focus", "tabs", hierarchy_focus)}

\* cmd_pane split, close, layout and stack
PaneShapePlans ==
    {Plan(op, "none", control_request) : op \in {"pane_split", "pane_close", "pane_layout", "tab_stack"}}

\* cmd_pane list, read and focus
PaneViewPlans ==
    {Plan("pane_list", "none", pane_list), Plan("pane_read", "none", pane_read),
     Plan("pane_focus", "none", pane_focus)}

\* cmd_pane send and paste, paste_to_pane
PaneInputPlans ==
    {Plan("pane_send", "none", pane_send), Plan("pane_paste", "none", control_request)}

\* cmd_pane wait-output and metadata
PaneWaitPlans ==
    {Plan("pane_wait_output", "none", pane_wait_output), Plan("pane_metadata", "none", control)}

\* cmd_agent list and explain
AgentListPlans ==
    {Plan("agent_list", "none", control_request), Plan("agent_explain", "none", agent_explain)}

\* cmd_agent start; programs may use agent_launch
AgentStartPlans ==
    {Plan("agent_launch", "none", fn) : fn \in {agent_launch, control_request}}

\* cmd_agent prompt, send-keys, read, wait and attach --focus
AgentPanePlans ==
    {Plan("pane_send", "none", pane_send), Plan("pane_read", "none", pane_read),
     Plan("agent_wait", "none", agent_wait), Plan("pane_focus", "none", pane_focus)}

\* cmd_agent auto-approve; the control API alone offers focus, stop and stop-all
AgentControlPlans ==
    {Plan(op, "none", control_request) : op \in {"auto_approve", "agent_focus", "agent_stop"}}
    \cup {[Plan("agent_stop_all", "projects", control_request) EXCEPT !.sure = sure] : sure \in BOOLEAN}

\* cmd_instruction
InstructionPlans ==
    {Plan(op, "none", instruction_request) : op \in InstructionCommands \cup {"instruction_list"}}

\* cmd_waiting
WaitingPlans == {Plan(op, "none", waiting_request) : op \in {"waiting_list", "waiting_act"}}

\* cmd_today: Projects and Panes are given by their ids.
TodayPlans ==
    {Plan(op, "id", control_request) : op \in {"timeline_note", "timeline_manager"}}
    \cup {Plan(op, "none", control_request) :
             op \in {"timeline_prompt", "timeline_open", "timeline_focus", "timeline_resume"}}

\* cmd_today list
TodayListPlans == {Plan("timeline_query", "none", control_request)}

\* cmd_files
FilesPlans == {Plan("file_sort", "none", control_request)}

\* The control API alone edits Tasks.
TaskPlans == {Plan(op, "none", control_request) : op \in TaskCommands}

\* cmd_ls and `ut workspace stop`
WorkspacePlans == {Plan("list_info", "none", query_info), Plan("kill_server", "none", kill_server)}

EveryPlan ==
    UNION {ProjectPlans, WorktreePlans, RunPlans, ArtifactPlans, TabMovePlans, TabNewPlans,
           TabEditPlans, FocusPlans, PaneShapePlans, PaneViewPlans, PaneInputPlans, PaneWaitPlans,
           AgentListPlans, AgentStartPlans, AgentPanePlans, AgentControlPlans, InstructionPlans,
           WaitingPlans, TodayPlans, TodayListPlans, FilesPlans, TaskPlans, WorkspacePlans}

-----------------------------------------------------------------------------
(* One command. *)

Nowhere == [project |-> 0, tab |-> 0, pane |-> 0]

Idle == [stage |-> "idle", plan |-> Plan("none", "none", workspace_request), name |-> {},
         at |-> Nowhere, meant |-> {}, exit |-> "none",
         did |-> [handled |-> FALSE, effect |-> FALSE, changed |-> FALSE, hit |-> {}]]

Closed == [open |-> FALSE, up |-> <<>>, down |-> <<>>]

Request(k) ==
    [op |-> k.plan.op, family |-> k.plan.family, door |-> k.plan.fn.door, sure |-> k.plan.sure,
     project |-> k.at.project, tab |-> k.at.tab, pane |-> k.at.pane]

\* PaneList and WorkspaceState
Lookup(k) ==
    [op |-> IF k.plan.look = "tabs" THEN "pane_list" ELSE "workspace_state", family |-> "list",
     door |-> "message", sure |-> TRUE, project |-> 0, tab |-> 0, pane |-> 0]

\* resolve_hierarchy_location: the Project and ordinal of the Tab so named.
resolve_hierarchy_location(h, name) ==
    LET i == H!First({j \in DOMAIN h.tabs : ToSet(h.tabs[j].panes) \cap name # {}})
    IN  IF i = 0 THEN Nowhere
        ELSE [project |-> h.tabs[i].project, pane |-> 0,
              tab |-> H!Position(H!ProjectTabs(h, h.tabs[i].project), i)]

TabAt(h, at) == {OnPane(p) : p \in ToSet(h.tabs[H!ProjectTabs(h, at.project)[at.tab]].panes)}

\* Connect and send the first request.  A Tab is named by what is in it, a
\* Project by its number, a Pane by its id.
Start(c, plan, p) ==
    LET name == IF plan.look = "tabs" THEN TabPanes(core, p) ELSE {p}
        at   == IF plan.look = "id" THEN [Nowhere EXCEPT !.project = p]
                ELSE IF plan.look = "none" THEN [Nowhere EXCEPT !.pane = p] ELSE Nowhere
        k    == [Idle EXCEPT !.stage = IF at = Nowhere THEN "looking" ELSE "asked",
                             !.plan = plan, !.name = name, !.at = at,
                             !.meant = IF plan.look = "none" THEN {OnPane(p)} ELSE {}]
    IN  /\ cli[c].stage = "idle"
        /\ plan.look = "tabs" => name # {}
        /\ IF Up(core)
           THEN /\ link' = [link EXCEPT ![c] = [open |-> TRUE, down |-> <<>>,
                               up |-> <<IF k.stage = "asked" THEN Request(k) ELSE Lookup(k)>>]]
                /\ cli' = [cli EXCEPT ![c] = IF plan.fn.wants = {}
                                             THEN [k EXCEPT !.stage = "done", !.exit = "sent"] ELSE k]
           ELSE /\ cli' = [cli EXCEPT ![c] = [k EXCEPT !.stage = "done", !.exit = "unknown"]]
                /\ UNCHANGED link
        /\ UNCHANGED <<core, moves>>

\* Where the answer to the lookup says the named thing is.
Resolved(k, h) ==
    CASE k.plan.look = "tabs"     -> resolve_hierarchy_location(h, k.name)
      [] k.plan.look = "projects" ->
           LET p == CHOOSE q \in k.name : TRUE
           IN  IF H!HasProject(h, p) THEN [Nowhere EXCEPT !.project = p] ELSE Nowhere

Found(c) ==
    LET k  == cli[c]
        h  == Head(link[c].down).h
        at == Resolved(k, h)
        next == [k EXCEPT !.stage = "asked", !.at = at,
                          !.meant = IF k.plan.look = "tabs" THEN TabAt(h, at)
                                    ELSE {OnProject(at.project)}]
    IN  /\ k.stage = "looking" /\ link[c].down # <<>>
        /\ CASE at = Nowhere -> /\ cli' = [cli EXCEPT ![c].stage = "done", ![c].exit = "missing"]
                               /\ link' = [link EXCEPT ![c] = Closed]
             [] at # Nowhere /\ ~Up(core) ->
                               /\ cli' = [cli EXCEPT ![c].stage = "done", ![c].exit = "unknown"]
                               /\ link' = [link EXCEPT ![c] = Closed]
             [] at # Nowhere /\ Up(core) ->
                               /\ cli' = [cli EXCEPT ![c] = next]
                               /\ link' = [link EXCEPT ![c] = [open |-> TRUE, down |-> <<>>,
                                                              up |-> <<Request(next)>>]]
        /\ UNCHANGED <<core, moves>>

\* control_mutation, paste_to_pane and the request functions: the exit code.
\* workspace_request has no verdict to look at.  What is not waited for is
\* read and dropped.
Told(c) ==
    LET k == cli[c]
        m == Head(link[c].down)
    IN  /\ k.stage = "asked" /\ link[c].down # <<>>
        /\ IF m.kind \in k.plan.fn.wants
           THEN /\ cli' = [cli EXCEPT ![c].stage = "done",
                              ![c].exit = IF ~k.plan.fn.judged \/ m.ok THEN "ok" ELSE "refused"]
                /\ link' = [link EXCEPT ![c] = Closed]
           ELSE /\ link' = [link EXCEPT ![c].down = Tail(@)]
                /\ UNCHANGED cli
        /\ UNCHANGED <<core, moves>>

\* The read timeout, or the end of the stream.  What was sent stays sent.
GiveUp(c) ==
    /\ cli[c].stage \in {"looking", "asked"} /\ link[c].down = <<>>
    /\ cli' = [cli EXCEPT ![c].stage = "done", ![c].exit = "unknown"]
    /\ link' = [link EXCEPT ![c].open = FALSE]
    /\ UNCHANGED <<core, moves>>

-----------------------------------------------------------------------------
(* The server takes a request. *)

\* Did the core come to what request r of c asks for?
Effect(r, c, s, t) ==
    CASE r.op = "project_create" -> Len(t.h.projects) = Len(s.h.projects) + 1
      [] r.op = "project_move"   -> t.h.projects # s.h.projects
      [] r.op = "project_switch" -> t.h.project = r.project
      [] r.op = "project_remove" -> ~HasProject(t, r.project)
      [] r.op \in {"tab_create", "timeline_manager"} -> Len(H!ProjectTabs(t.h, r.project)) = Len(H!ProjectTabs(s.h, r.project)) + 1
      [] r.op \in {"tab_move", "tab_move_active"} -> t.h.tabs # s.h.tabs
      [] r.op = "tab_close"      -> OpenPanes(t) # OpenPanes(s)
      [] r.op \in {"pane_split", "agent_launch"} -> OpenPanes(t) = OpenPanes(s) \cup {s.pane}
      [] r.op \in {"pane_close", "agent_stop"}   -> r.pane \notin OpenPanes(t)
      [] r.op \in {"pane_focus", "agent_focus", "timeline_focus"} -> Up(t) /\ H!Selected(t.h) = r.pane
      [] r.op = "hierarchy_focus" -> t.h.project = r.project
      [] r.op = "agent_stop_all"  -> \A p \in DOMAIN t.agents : OwnerOf(t, p) # r.project
      [] r.op = "task_delete"     -> 1 \notin t.tasks
      [] r.family \in {"list", "kill"} \/ r.op = "pane_read" -> TRUE
      [] OTHER -> \E m \in t.marks : m.by = c

Visible(s) == <<s.h, s.agents, s.items, s.tasks, s.marks>>

Verdict(k, r, a, c) ==
    IF k.stage = "looking" THEN k
    ELSE [k EXCEPT !.did = [handled |-> TRUE, hit |-> a.hit,
                            effect  |-> Effect(r, c, core, a.core),
                            changed |-> Visible(a.core) # Visible(core)]]

Deliver(c, replies) ==
    link' = [link EXCEPT ![c].up = <<>>,
                         ![c].down = IF link[c].open THEN @ \o replies ELSE @]

\* A request that is answered in the same turn.  The last answer of a server
\* whose last Pane it closed may be lost with the runtime that carries it.
Handle(c) ==
    /\ Up(core) /\ link[c].up # <<>>
    /\ Head(link[c].up).family \notin {"wait", "runtime"}
    /\ \E r \in {Head(link[c].up)}, spawns \in BOOLEAN, lost \in BOOLEAN :
          \E a \in {IF r.door = "control" THEN on_control_request(core, c, r, spawns)
                    ELSE handle_msg(core, c, r, spawns)} :
             /\ lost => r.door = "control" /\ ~Up(a.core)
             /\ core' = a.core
             /\ cli' = [cli EXCEPT ![c] = Verdict(@, r, a, c)]
             /\ Deliver(c, IF lost THEN <<>> ELSE Replies(r, a))
    /\ UNCHANGED moves

\* PaneWaitOutput and AgentWait: looked at once on arrival.
HandleWait(c) ==
    LET r == Head(link[c].up)
        s == [core EXCEPT !.waits = [d \in DOMAIN @ \cup {c} |->
                            IF d = c THEN r ELSE @[d]]]
        a == Answer(s, s.waits[c])
    IN  /\ Up(core) /\ link[c].up # <<>> /\ r.family = "wait"
        /\ IF Answerable(s, c, {})
           THEN /\ Deliver(c, <<a>>) /\ UNCHANGED core
           ELSE /\ Deliver(c, <<>>) /\ core' = s
        /\ UNCHANGED <<cli, moves>>

\* Directory changes, worktree operations, forks and history go to the runtime.
HandleRuntime(c) ==
    /\ Up(core) /\ link[c].up # <<>> /\ Head(link[c].up).family = "runtime"
    /\ core' = [core EXCEPT !.jobs = @ \cup {c}]
    /\ Deliver(c, <<>>)
    /\ UNCHANGED <<cli, moves>>

RuntimeDone(c, ok) ==
    LET s == [core EXCEPT !.jobs = @ \ {c}]
        a == IF ok THEN Said(Mark(s, c, OnWorkspace), TRUE, TRUE, {OnWorkspace})
             ELSE Said(s, TRUE, FALSE, {})
    IN  /\ Up(core) /\ c \in core.jobs
        /\ core' = a.core
        /\ cli' = [cli EXCEPT ![c].did = [handled |-> TRUE, hit |-> a.hit, effect |-> ok, changed |-> ok]]
        /\ Deliver(c, <<Message(IF cli[c].plan.fn.door = "control" THEN "Response"
                             ELSE AnswerKind(Request(cli[c])), a)>>)
        /\ UNCHANGED moves

-----------------------------------------------------------------------------
(* The others: attached users, processes that exit, agents that change.    *)

Others ==
    /\ Up(core) /\ moves < MaxMoves /\ moves' = moves + 1
    /\ \/ \E p \in OpenPanes(core) : core' = ClosePane(core, p).core
       \/ \E i \in DOMAIN core.h.tabs : TabMoveTarget(core, i) # 0 /\ core' = MoveTab(core, i).core
       \/ \E p \in 1 .. MaxProjects : core' = MoveProject(core, p).core
       \/ \E p \in DOMAIN core.agents, a \in Statuses :
             /\ a # core.agents[p]
             /\ core' = [core EXCEPT !.agents[p] = a, !.served = DOMAIN core.waits = {}]
       \/ core' = [core EXCEPT !.sound = ~@]
       \/ core' = KillServer(core).core
       \/ \E p \in OpenPanes(core) \ core.printed :
             core' = [core EXCEPT !.printed = @ \cup {p}, !.served = DOMAIN core.waits = {}]
       \/ \E p \in OpenPanes(core) : core' = [core EXCEPT !.full = IF p \in @ THEN @ \ {p} ELSE @ \cup {p}]
    /\ UNCHANGED <<cli, link>>

Init ==
    /\ core = Boot
    /\ cli = [c \in Commands |-> Idle]
    /\ link = [c \in Commands |-> Closed]
    /\ moves = 0

Next ==
    \/ \E c \in Commands :
         cli[c].stage = "idle" /\ \E plan \in EveryPlan, p \in Panes0 : Start(c, plan, p)
    \/ \E c \in Commands : Found(c) \/ Told(c) \/ GiveUp(c)
    \/ \E c \in Commands : Handle(c) \/ HandleWait(c) \/ HandleRuntime(c)
    \/ \E c \in Commands, ok \in BOOLEAN : RuntimeDone(c, ok)
    \/ Settle
    \/ Others

Spec == Init /\ [][Next]_vars

-----------------------------------------------------------------------------
(* Properties. *)

\* Commands whose exit code is the server's own verdict.
Judged(k) == k.plan.fn.judged /\ k.plan.family # "wait"

\* An exit code of `ut` can be believed: success means that the server did what
\* was asked before it answered, and a refusal means that it did nothing, with
\* other users acting in between and Panes, Tabs and Projects gone since they
\* were looked up.  Only a timeout leaves it open.
ExitTellsTruth ==
    \A c \in Commands :
        /\ (cli[c].exit = "ok" /\ Judged(cli[c])) => (cli[c].did.handled /\ cli[c].did.effect)
        /\ cli[c].exit \in {"refused", "missing"} => ~cli[c].did.changed

\* A wait (`ut agent wait`, `ut pane wait-output`) does not outlive a turn of the
\* event loop in which its Pane closed or came to what is waited for.
WaitsAreCurrent ==
    core.served =>
        \A c \in DOMAIN core.waits :
            LET w == core.waits[c]
            IN  w.pane \in OpenPanes(core)
                /\ ~Reached(core, w)

\* `ut tab close PROJECT TAB` and its kin act on the Tab that was named.
NamedTabIsHit ==
    \A c \in Commands :
        (cli[c].plan.look = "tabs" /\ cli[c].did.hit # {}) => cli[c].did.hit \cap cli[c].meant # {}

\* `ut project add`, `rename`, `move` and the rest succeed only when done.
ProjectExitTellsTruth ==
    \A c \in Commands :
        (cli[c].exit = "ok" /\ cli[c].plan.fn = workspace_request) => cli[c].did.effect

=============================================================================
