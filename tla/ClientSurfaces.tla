--------------------------- MODULE ClientSurfaces ---------------------------
(***************************************************************************)
(* The overlays of the attach client (uniterm-client/src/lib.rs and        *)
(* actions.rs) and the answers of the server they wait for                 *)
(* (server/messages.rs): which overlay is open, which one gets the keys    *)
(* and the clicks, which one is painted on top.                            *)
(*                                                                         *)
(* The requests and the direct answers are FIFO.  Answers that need the    *)
(* disk come from the agent runtime, in a queue of their own.  The         *)
(* Observatory view of the client is left out: only Fleet opens it, and    *)
(* the server sends Fleet only to a client that already shows it.  A click *)
(* inside an overlay does what one of its keys does; detaching ends it all.*)
(***************************************************************************)
EXTENDS Naturals, Sequences

CONSTANTS Remote,     \* the Workspace is on another host
          MaxMoves    \* bound: keys and clicks of the user

VARIABLES open,       \* the overlays that are Some(_)
          flags,      \* tasks_pending, agents_pending, ...
          detail,     \* TaskInput::pending, compose_pending, the New Project step
          up, disk, down,        \* requests, runtime answers, server answers
          subscribed,            \* tasks_subscribed of this client
          told, shown,           \* overlay_visible, and Client::overlay on the server
          asked,      \* overlays the user asked for since they last opened
          uninvited,  \* an overlay opened that nobody asked for
          moves

vars == <<open, flags, detail, up, disk, down, subscribed, told, shown, asked, uninvited, moves>>

Surfaces == {"task", "confirm", "rename", "sessions", "taskman", "agentman", "settings",
             "about", "newproject", "projectman", "menu"}

\* The order in which the key path looks for an open overlay.
KeyOrder == <<"confirm", "menu", "sessions", "taskman", "agentman", "settings", "about",
              "newproject", "projectman", "rename", "task">>
\* The order of the click path.
ClickOrder == <<"confirm", "menu", "taskman", "agentman", "settings", "about",
                "newproject", "projectman", "sessions", "rename", "task">>
\* The order in which a frame is composited.
PaintOrder == <<"task", "confirm", "rename", "sessions", "taskman", "agentman", "settings",
                "about", "newproject", "projectman", "menu">>

FirstOf(order, set) ==
    order[CHOOSE i \in DOMAIN order : order[i] \in set /\ \A j \in 1 .. i - 1 : order[j] \notin set]

NoDetail == [submitted |-> FALSE, composing |-> FALSE, step |-> "none"]

Init ==
    /\ open \in {{}, {"sessions"}} /\ flags = {} /\ detail = NoDetail
    /\ up = <<>> /\ disk = <<>> /\ down = <<>> /\ subscribed = FALSE
    /\ told = (open # {}) /\ shown = (open # {})
    /\ asked = {} /\ uninvited = FALSE /\ moves = 0

(***************************************************************************)
(* The end of a turn of the loop: OverlayVisible follows the overlays.     *)
(***************************************************************************)
\* Slip: the server hears of an overlay that opens, not of one that closes.
TellOpened(now, requests) ==
    /\ told' = (now # {})
    /\ up' = up \o requests \o (IF now # {} /\ ~told THEN <<"visible">> ELSE <<>>)

TellServer(now, requests) ==
    /\ told' = (now # {})
    /\ up' = up \o requests
                \o (IF (now # {}) = told THEN <<>> ELSE IF told THEN <<"hidden">> ELSE <<"visible">>)

Turn(now, requests) == open' = now /\ TellServer(now, requests)

\* A step of the user that asks for `wants` and leaves `now` open.
UserTurn(now, requests, wants) ==
    /\ moves < MaxMoves /\ moves' = moves + 1
    /\ Turn(now, requests)
    /\ asked' = (asked \ (now \ open)) \cup (wants \ (now \ open))
    /\ UNCHANGED <<disk, down, subscribed, shown, uninvited>>

(***************************************************************************)
(* Prefix keys and menu items; `base` is what stays open.                  *)
(***************************************************************************)
OpenTask(base) ==
    /\ UserTurn(base \cup {"task"}, <<>>, {"task"})
    /\ detail' = [detail EXCEPT !.submitted = FALSE] /\ UNCHANGED flags

OpenRename(base) == UserTurn(base \cup {"rename"}, <<>>, {"rename"}) /\ UNCHANGED <<flags, detail>>

OpenSessions(base) ==
    /\ IF Remote
       THEN UserTurn(base, <<"WorkspaceList">>, {"sessions"}) /\ flags' = flags \cup {"sessions"}
       ELSE UserTurn(base \cup {"sessions"}, <<>>, {"sessions"}) /\ UNCHANGED flags
    /\ UNCHANGED detail

Ask(base, request, flag, surface) ==
    /\ UserTurn(base, <<request>>, {surface})
    /\ flags' = flags \cup {flag} /\ UNCHANGED detail

OpenNewProject(base) ==
    /\ UserTurn(base \cup {"newproject"}, <<>>, {"newproject"})
    /\ detail' = [detail EXCEPT !.step = "create"] /\ UNCHANGED flags

Confirm(base) == UserTurn(base \cup {"confirm"}, <<>>, {"confirm"}) /\ UNCHANGED <<flags, detail>>

Surface(base) ==
    \/ OpenTask(base)
    \/ OpenRename(base)
    \/ OpenSessions(base)
    \/ Ask(base, "Tasks", "tasks", "taskman")
    \/ Ask(base, "Agents", "agents", "agentman")
    \/ Ask(base, "Settings", "settings", "settings")
    \/ Ask(base, "WorkspaceState", "projects", "projectman")
    \/ OpenNewProject(base)
    \/ Confirm(base)

\* process_input_with_bindings with no overlay open.
PrefixKey ==
    /\ open = {}
    /\ \/ Surface({})
       \/ UserTurn({"menu"}, <<>>, {"menu"}) /\ UNCHANGED <<flags, detail>>

\* A click on the chrome goes to the server, which says what it opens.
ChromeClick ==
    /\ open = {}
    /\ \E target \in {"OpenMenu", "ChromeTask", "ChromeTasks", "ChromeConfig"} :
          UserTurn({}, <<target>>, {})
    /\ UNCHANGED <<flags, detail>>

(***************************************************************************)
(* Keys and clicks for the overlay that gets them.                         *)
(***************************************************************************)
Close(surface, requests) ==
    /\ UserTurn(open \ {surface}, requests, {})
    /\ flags' = flags \ (IF surface = "newproject" THEN {"create"} ELSE {})
    /\ UNCHANGED detail

Send(requests) == UserTurn(open, requests, {}) /\ UNCHANGED <<flags, detail>>

\* run_menu_action and the overlay it returns.
RunMenu ==
    LET base == open \ {"menu"}
    IN \/ Surface(base)
       \/ /\ UserTurn(base, <<"WorkspaceState">>, {"newproject"})
          /\ flags' = flags \cup {"directory"} /\ UNCHANGED detail
       \/ /\ UserTurn(base \cup {"about"}, <<>>, {"about"})
          /\ flags' = flags \ {"tasks", "agents", "settings", "projects"}
          /\ UNCHANGED detail

\* apply_task_action.
TaskmanKey ==
    \/ Close("taskman", <<"TasksClose">>)
    \/ Send(<<"TaskOp">>)
    \/ /\ UserTurn(open, <<"TaskCompose">>, {})
       /\ detail' = [detail EXCEPT !.composing = TRUE] /\ UNCHANGED flags

\* apply_agents_action.
AgentmanKey ==
    \/ Close("agentman", <<>>)
    \/ Send(<<"ConnectorToggle">>)
    \/ Send(<<"SettingsApply">>)
    \/ Send(<<"AgentConfigEdit">>)

\* apply_settings_action.
SettingsKey == Close("settings", <<>>) \/ Send(<<"SettingsApply">>)

\* apply_new_project_action: a directory change in flight keeps its overlay.
NewProjectKey ==
    \/ detail.step # "moving" /\ Close("newproject", <<>>)
    \/ /\ detail.step = "create"
       /\ UserTurn(open, <<"ProjectCreate">>, {})
       /\ detail' = [detail EXCEPT !.step = "creating"] /\ flags' = flags \cup {"create"}
    \/ /\ detail.step = "directory"
       /\ UserTurn(open, <<"ProjectDirectory">>, {})
       /\ detail' = [detail EXCEPT !.step = "moving"] /\ UNCHANGED flags

\* apply_project_action.
ProjectmanKey ==
    \/ Close("projectman", <<>>)
    \/ Send(<<"ProjectOp">>)
    \/ Close("projectman", <<"ProjectOp">>)
    \/ OpenNewProject(open \ {"projectman"})
    \/ OpenRename(open \ {"projectman"})

\* The New Task box: closed only while nothing is in flight.
TaskKey ==
    /\ ~detail.submitted
    /\ \/ Close("task", <<>>)
       \/ /\ UserTurn(open, <<"NewTask">>, {})
          /\ detail' = [detail EXCEPT !.submitted = TRUE] /\ UNCHANGED flags

Key ==
    /\ open # {}
    /\ LET top == FirstOf(KeyOrder, open)
       IN \/ top \in {"confirm", "sessions", "about"} /\ Close(top, <<>>)
          \/ top = "menu" /\ (Close("menu", <<>>) \/ RunMenu)
          \/ top = "taskman" /\ TaskmanKey
          \/ top = "agentman" /\ AgentmanKey
          \/ top = "settings" /\ SettingsKey
          \/ top = "newproject" /\ NewProjectKey
          \/ top = "projectman" /\ ProjectmanKey
          \/ top = "rename" /\ (Close("rename", <<>>) \/ Close("rename", <<"ProjectOp">>))
          \/ top = "task" /\ TaskKey

\* A click outside the box.  On New Project it forgets the overlay only.
ClickOutside ==
    /\ open # {}
    /\ LET top == FirstOf(ClickOrder, open)
       IN /\ top = "task" => ~detail.submitted
          /\ top = "newproject" => detail.step # "moving"
          /\ UserTurn(open \ {top}, IF top = "taskman" THEN <<"TasksClose">> ELSE <<>>, {})
    /\ UNCHANGED <<flags, detail>>

(***************************************************************************)
(* The server and the runtime.                                             *)
(***************************************************************************)
Client == <<open, flags, detail, told, asked, uninvited, moves>>

AnswersTo(request) ==
    CASE request \in {"Tasks", "TaskOp"} -> {<<"Tasks">>}
      [] request \in {"Settings", "SettingsApply"} -> {<<"Settings">>}
      [] request \in {"WorkspaceState", "ProjectOp"} -> {<<"Workspace">>}
      [] request = "NewTask" -> {<<"TaskStarted">>, <<"TaskRefused">>}
      [] request = "TaskCompose" -> {<<"TaskDraft">>, <<"DetailError">>}
      [] request = "ProjectCreate" -> {<<"Created", "Workspace">>, <<"Refused", "Workspace">>}
      [] request = "ProjectDirectory" -> {<<"Moved">>, <<"NotMoved">>}
      [] request \in {"OpenMenu", "ChromeTask", "ChromeTasks", "ChromeConfig"} -> {<<request>>}
      [] OTHER -> {<<>>}

DiskAnswer(request) ==
    CASE request \in {"Agents", "ConnectorToggle"} -> <<"Agents">>
      [] request = "WorkspaceList" -> <<"Workspaces">>
      [] request = "AgentConfigEdit" -> <<"ConfigOpened">>
      [] OTHER -> <<>>

\* handle_message for one request.
Serve ==
    /\ up # <<>>
    /\ up' = Tail(up)
    /\ \E answers \in AnswersTo(Head(up)) : down' = down \o answers
    /\ disk' = disk \o DiskAnswer(Head(up))
    /\ subscribed' = CASE Head(up) = "Tasks" -> TRUE
                       [] Head(up) = "TasksClose" -> FALSE
                       [] OTHER -> subscribed
    /\ shown' = CASE Head(up) = "visible" -> TRUE [] Head(up) = "hidden" -> FALSE [] OTHER -> shown
    /\ UNCHANGED Client

\* on_agent_reply: an answer of the runtime joins the others.
RuntimeAnswers ==
    /\ disk # <<>>
    /\ disk' = Tail(disk) /\ down' = Append(down, Head(disk))
    /\ UNCHANGED <<Client, up, subscribed, shown>>

(***************************************************************************)
(* Answers at the client.                                                  *)
(***************************************************************************)
\* The overlays that open with a snapshot of the server.
Snapshots == {"sessions", "taskman", "agentman", "settings", "projectman"}

\* A step of a server message that leaves `now` open.
Answered(now, requests, wants) ==
    /\ Turn(now, requests)
    /\ asked' = (asked \ (now \ open)) \cup wants
    /\ uninvited' = (uninvited \/ ~((now \ open) \cap Snapshots \subseteq asked))

ServerTurn(now, requests) == Answered(now, requests, {})

Dropped == ServerTurn(open, <<>>) /\ UNCHANGED <<flags, detail>>

OnTasks ==
    /\ IF "taskman" \notin open /\ "tasks" \in flags
       THEN ServerTurn((open \ {"agentman"}) \cup {"taskman"}, <<>>) /\ detail' = [detail EXCEPT !.composing = FALSE]
       ELSE ServerTurn(open, <<>>) /\ UNCHANGED detail
    /\ flags' = flags \ {"tasks"}

CloseTasks == IF "taskman" \in open THEN <<"TasksClose">> ELSE <<>>

OnAgents ==
    /\ IF open \cap {"settings", "agentman"} = {} /\ "agents" \in flags
       THEN ServerTurn((open \ {"taskman"}) \cup {"agentman"}, CloseTasks)
       ELSE ServerTurn(open, <<>>)
    /\ flags' = flags \ {"agents"} /\ UNCHANGED detail

OnSettings ==
    /\ IF "settings" \notin open /\ "settings" \in flags
       THEN ServerTurn((open \ {"taskman", "agentman"}) \cup {"settings"}, Append(CloseTasks, "Agents"))
       ELSE ServerTurn(open, <<>>)
    /\ flags' = flags \ {"settings"} /\ UNCHANGED detail

OnWorkspaces ==
    /\ ServerTurn(IF "sessions" \in flags THEN open \cup {"sessions"} ELSE open, <<>>)
    /\ flags' = flags \ {"sessions"} /\ UNCHANGED detail

\* The directory picker and the Project manager may both be waiting; the picker
\* opens when its Project is still there.
OnWorkspace ==
    /\ \E found \in {"directory" \in flags, FALSE} :
          /\ ServerTurn(open \cup (IF found THEN {"newproject"} ELSE {})
                             \cup (IF "projects" \in flags THEN {"projectman"} ELSE {}), <<>>)
          /\ detail' = IF found THEN [detail EXCEPT !.step = "directory"] ELSE detail
    /\ flags' = flags \ {"directory", "projects"}

OnTaskStarted(refused) ==
    IF "task" \in open /\ detail.submitted
    THEN /\ ServerTurn(IF refused THEN open ELSE open \ {"task"}, <<>>)
         /\ detail' = [detail EXCEPT !.submitted = FALSE] /\ UNCHANGED flags
    ELSE Dropped

\* The last chunk of a composing transfer.
OnTaskDraft ==
    IF "taskman" \in open /\ detail.composing
    THEN /\ ServerTurn((open \ {"taskman"}) \cup {"task"}, <<"TasksClose">>)
         /\ detail' = [detail EXCEPT !.composing = FALSE, !.submitted = FALSE] /\ UNCHANGED flags
    ELSE Dropped

OnDetailError ==
    IF "taskman" \in open
    THEN ServerTurn(open, <<>>) /\ detail' = [detail EXCEPT !.composing = FALSE] /\ UNCHANGED flags
    ELSE Dropped

\* NewProjectView::reject, on whichever New Project box is open.
Rejected(step) == CASE step = "creating" -> "create" [] step = "moving" -> "directory" [] OTHER -> step

OnCreated(refused) ==
    IF "create" \in flags
    THEN /\ ServerTurn(IF refused THEN open ELSE open \ {"newproject", "projectman"}, <<>>)
         /\ flags' = flags \ (IF refused THEN {"create"} ELSE {"create", "projects"})
         /\ detail' = IF refused THEN [detail EXCEPT !.step = Rejected(@)] ELSE detail
    ELSE Dropped

OnMoved(refused) ==
    IF "newproject" \in open /\ detail.step \in {"directory", "moving"}
    THEN /\ ServerTurn(IF refused THEN open ELSE open \ {"newproject"}, <<>>)
         /\ detail' = [detail EXCEPT !.step = "directory"] /\ UNCHANGED flags
    ELSE Dropped

\* request_chrome_menu and the chrome's own actions.
OnChrome(what) ==
    \/ what = "OpenMenu" /\ ServerTurn(open \cup {"menu"}, <<>>) /\ UNCHANGED <<flags, detail>>
    \/ /\ what = "ChromeTask" /\ ServerTurn(open \cup {"task"}, <<>>)
       /\ detail' = [detail EXCEPT !.submitted = FALSE] /\ UNCHANGED flags
    \/ /\ what = "ChromeTasks" /\ Answered(open, <<"Tasks">>, {"taskman"})
       /\ flags' = flags \cup {"tasks"} /\ UNCHANGED detail
    \/ /\ what = "ChromeConfig" /\ Answered(open, <<"Agents">>, {"agentman"})
       /\ flags' = flags \cup {"agents"} /\ UNCHANGED detail

OnConfigOpened ==
    \/ Dropped
    \/ ServerTurn(open \ {"agentman"}, <<>>) /\ UNCHANGED <<flags, detail>>

Receive ==
    /\ down # <<>>
    /\ down' = Tail(down) /\ UNCHANGED <<disk, subscribed, shown, moves>>
    /\ LET what == Head(down)
       IN \/ what = "Tasks" /\ OnTasks
          \/ what = "Agents" /\ OnAgents
          \/ what = "Settings" /\ OnSettings
          \/ what = "Workspaces" /\ OnWorkspaces
          \/ what = "Workspace" /\ OnWorkspace
          \/ what \in {"TaskStarted", "TaskRefused"} /\ OnTaskStarted(what = "TaskRefused")
          \/ what = "TaskDraft" /\ OnTaskDraft
          \/ what = "DetailError" /\ OnDetailError
          \/ what \in {"Created", "Refused"} /\ OnCreated(what = "Refused")
          \/ what \in {"Moved", "NotMoved"} /\ OnMoved(what = "NotMoved")
          \/ what = "ConfigOpened" /\ OnConfigOpened
          \/ OnChrome(what)

Next ==
    \/ PrefixKey
    \/ ChromeClick
    \/ Key
    \/ ClickOutside
    \/ Serve
    \/ RuntimeAnswers
    \/ Receive

Spec == Init /\ [][Next]_vars

(***************************************************************************)
(* Properties.                                                             *)
(***************************************************************************)
\* The task manager, the agents and Settings replace one another: the agents
\* are never open with either of the others.
OneManager == "agentman" \in open => open \cap {"taskman", "settings"} = {}

\* A late answer does not bring back an overlay the user dismissed: what an
\* answer opens was asked for since it last opened.
NotReopened == ~uninvited

\* Once every message is handled, the server holds its frame back exactly while
\* an overlay is open.
ServerKnows == up = <<>> /\ down = <<>> => shown = (open # {})

\* uniterm-client/src/lib.rs:1904: "with a single modal at a time, keys and
\* paint can never disagree about which one is on top".
KeysDriveTheTop == open # {} => FirstOf(KeyOrder, open) = FirstOf(PaintOrder, open)
=============================================================================
