----------------------------- MODULE MCWorkspace -----------------------------
(***************************************************************************)
(* A Workspace's structure and what it keeps in the world outside, checked *)
(* by two runs.  The structure: the hierarchy of Projects, Tabs and Panes, *)
(* the layout of one Tab, and Projects in Git worktrees.  What is outside: *)
(* the servers and files of several Workspaces (WorkspaceLifecycle), the   *)
(* configuration (Settings, ConfigText), the provider catalog, the         *)
(* detection of agents, and their hooks (Connectors).  They share no       *)
(* state; part says which one this behaviour exercises, the others stay    *)
(* where they start.                                                       *)
(***************************************************************************)
EXTENDS Naturals, Sequences, TLC

CONSTANTS Parts, MaxPanes, MaxProjects, MaxTabs, MaxTiles, MaxLeaves, MaxId, MaxJobs, Paths

VARIABLES part, ws, tree,                                   \* of Hierarchy and LayoutTree
  projects, nextId, busy, sent, queued, answers, checking, git, disk, log,
  released,                                                 \* of Worktrees
  kind, cli, hooks, toml, own, holder, proc, users, false, edits, kills, \* of Connectors
  files, lastGood, run, load, pane, writes, restarts,       \* of ProviderCatalog
  view, up, down, config, queue, job, done, names, content, writer, ghost, used, \* of Settings
  file, began, parsed, chosen, saves,                       \* of ConfigText
  procs, fg, tty, screen, cache, evidence, verdicts, notice, latest, wrong, drawn, \* of Detection
  sock, claim, snapshots, texts, srv, cmd, born, forgotten, troubles \* of WorkspaceLifecycle

worktreeVars  == <<projects, nextId, busy, sent, queued, answers, checking, git, disk, log, released>>
structureVars == <<ws, tree, worktreeVars>>
hookVars      == <<kind, cli, hooks, toml, own, holder, proc, users, false, edits, kills>>
providerVars  == <<files, lastGood, run, load, pane, writes, restarts>>
settingVars   == <<view, up, down, config, queue, job, done, names, content, writer, ghost, used>>
textVars      == <<file, began, parsed, chosen, saves>>
detectVars    == <<procs, fg, tty, screen, cache, evidence, verdicts, notice, latest, wrong, drawn>>
lifeVars      == <<sock, claim, snapshots, texts, srv, cmd, born, forgotten, troubles>>
outsideVars   == <<hookVars, providerVars, settingVars, textVars, detectVars, lifeVars>>
vars == <<part, structureVars, outsideVars>>

-----------------------------------------------------------------------------
(* The structure.                                                          *)

H == INSTANCE Hierarchy

\* A screen, one too narrow and one too low to divide, and one wide enough
\* for two scrolling columns.
Box(x, y, w, h) == [x |-> x, y |-> y, w |-> w, h |-> h]
Screens == {Box(1, 2, 8, 5)}
AllScreens == Screens \cup {Box(0, 0, 2, 4), Box(0, 1, 50, 2)}
L == INSTANCE LayoutTree WITH MaxPanes <- MaxLeaves, DragAreas <- Screens, Areas <- AllScreens

\* Two names that give one branch name; and, for directory changes and forks, a
\* plain Project beside one worktree.
Branch == ("Fix it" :> "uniterm/fix-it") @@ ("fix-it" :> "uniterm/fix-it")
W == INSTANCE Worktrees WITH
       Names <- DOMAIN Branch, Slug <- Branch, Roots <- {"/a", "/b"},
       Runners <- {1}, Forks <- {FALSE}, MaxChecks <- 0
D == INSTANCE Worktrees WITH
       Names <- {"fix-it"}, Slug <- Branch, Roots <- {"/a", "/b"},
       Runners <- 1 .. MaxId, Forks <- BOOLEAN, MaxJobs <- 1, MaxChecks <- 1

-----------------------------------------------------------------------------
(* What is outside.                                                        *)

\* Every provider, two processes, and hand-written TOML around the switch.
Tomls ==
  {<<>>, <<"key">>, <<"features">>, <<"features", "off#", "key">>, <<"features", "on">>,
   <<"table", "off">>, <<"table", "off", "features", "key", "off">>,
   <<"key", "blank", "features", "table", "on">>}
Hooks == INSTANCE Connectors WITH
  Kinds <- {"nested", "codex", "grok", "cursor", "kiro", "opencode", "pi"}, Procs <- {1, 2},
  Ops <- {"install", "remove", "toggle", "auto", "update"}, Switches <- Tomls,
  EditAnyTime <- FALSE, MaxEdits <- 1, MaxKills <- 1

\* A bundled catalog and two edited ones that give its alias to other providers.
Provider(id, aliases) ==
  [id |-> id, aliases |-> aliases, caps |-> {"process"}, rules |-> {}, log |-> FALSE]
Document(providers) == [fine |-> TRUE, providers |-> providers]
Edited ==
  {Document(<<Provider(1, <<"y">>), Provider(2, <<"x">>)>>),
   Document(<<Provider(3, <<"x">>), Provider(1, <<"x">>)>>)}
Providers == INSTANCE ProviderCatalog WITH
  Servers <- {1}, Docs <- Edited, Bundled <- Document(<<Provider(1, <<"x">>)>>), Command <- "x",
  Connectors <- {}, MaxWrites <- 3, MaxRestarts <- 1, disk <- lastGood

\* One modal over every kind of row; two modals of one server; one of each of two.
Modal   == INSTANCE Settings WITH
  Servers <- {1}, Clients <- {1}, Home <- <<1>>,
  Fields <- <<"theme", "delivery", "follow", "width", "editor", "rules", "projects">>,
  MaxMoves <- 4, MaxToggles <- 0, MaxDefaults <- 0, MaxTroubles <- 1, MaxRestarts <- 0
Modals  == INSTANCE Settings WITH
  Servers <- {1}, Clients <- {1, 2}, Home <- <<1, 1>>, Fields <- <<"width", "follow">>,
  MaxMoves <- 2, MaxToggles <- 1, MaxDefaults <- 1, MaxTroubles <- 0, MaxRestarts <- 1
Peers   == INSTANCE Settings WITH
  Servers <- {1, 2}, Clients <- {1, 2}, Home <- <<1, 2>>, Fields <- <<"width", "follow">>,
  MaxMoves <- 2, MaxToggles <- 0, MaxDefaults <- 0, MaxTroubles <- 0, MaxRestarts <- 0

\* Two lines by hand, of every kind of setting, with quotes, comments and escapes.
Entry(key, raw) == [key |-> key, raw |-> raw]
ByHand ==
  {Entry("#", <<"a">>), Entry("mine", <<"a">>), Entry("sidebar", <<"off">>),
   Entry("sidebar", <<"on", " ", "#", "a">>), Entry("sidebar", <<"on", " ", "\"", "#">>),
   Entry("width", <<"w9">>), Entry("width", <<"?">>), Entry("theme", <<"nord">>),
   Entry("autosave", <<"off">>), Entry("editor", <<"a", " ", "a">>),
   Entry("editor", <<"\"", "a", "\\", "#", "\\", "\\", "\"">>), Entry("project", <<"a">>),
   Entry("rule", <<"a", "\"", "#", "\"">>), Entry("bind", <<"zoom">>), Entry("bind", <<"a">>),
   Entry("confirm", <<"off">>), Entry("sound", <<"a">>),
   Entry("default-workspace", <<"\"", "a", "\"">>),
   Entry("default-workspace", <<"a", " ", "#", "a">>)}
Config == INSTANCE ConfigText WITH
  HandWritten <- ByHand, Sounds <- {<<"a", " ">>}, MaxLines <- 2, MaxSaves <- 2, config <- parsed,
  Texts <- {<<"a">>, <<"a", "#">>, <<"a", " ", "\"", "#", "\"">>, <<"a", "\\", "#">>, <<" ">>}

\* Two agents that take turns in a Pane; one with a log and envelopes.
Turns == INSTANCE Detection WITH
  Agents <- {"a", "b"}, Screens <- {"working", "ask", "done"}, Logs <- {"none"},
  Envelopes <- {"working"}, MaxPid <- 3, MaxDraws <- 2, MaxWrites <- 0, MaxQueue <- 2,
  pane <- screen, used <- drawn
Logged == INSTANCE Detection WITH
  Agents <- {"a"}, Screens <- {"working", "ask", "done"}, Logs <- {"none", "working"},
  Envelopes <- {"working", "idle", "exited"}, MaxPid <- 2, MaxDraws <- 2, MaxWrites <- 1,
  MaxQueue <- 2, pane <- screen, used <- drawn

\* Commands that start, stop and forget; and a migration of two old sessions.
Do(k, name, from, policy) == [kind |-> k, name |-> name, own |-> from, policy |-> policy]
Daily ==
  [c \in {11, 12, 13} |->
     CASE c = 11 -> {Do("up", 1, 0, "none")}
       [] c = 12 -> {Do("up", 2, 0, "none"), Do("new", 1, 0, "none"), Do("stop", 1, 0, "none")}
       [] c = 13 -> {Do("stop", 1, 0, "none"), Do("stopall", 0, 1, "none"),
                     Do("forget", 1, 0, "none"), Do("forgetall", 0, 0, "none")}]
Migration ==
  [c \in {11, 12} |->
     IF c = 11 THEN {Do("migrate", 0, 0, p) : p \in {"skip", "cancel", "rename", "merge", "archive"}}
     ELSE {Do("up", 1, 0, "none"), Do("revive", 1, 0, "none"), Do("stop", 1, 0, "none")}]
Lives == INSTANCE WorkspaceLifecycle WITH
  Names <- {1, 2}, Suffixed <- <<3>>, Existing <- {1, 2}, Servers <- {1, 2}, Cmds <- {11, 12, 13},
  Plans <- Daily, Sources <- <<>>, MaxTroubles <- 1, MaxSwitches <- 0,
  files <- snapshots, content <- texts
Moves == INSTANCE WorkspaceLifecycle WITH
  Names <- {1, 2, 3}, Suffixed <- <<3>>, Existing <- {1}, Servers <- {1, 2, 3}, Cmds <- {11, 12},
  Plans <- Migration, Sources <- <<1, 2>>, MaxTroubles <- 1, MaxSwitches <- 1,
  files <- snapshots, content <- texts

-----------------------------------------------------------------------------
(* The state of the parts that do not move is fixed.                       *)

NoWorktree ==
  /\ projects = 0 /\ nextId = 0 /\ busy = 0 /\ sent = 0 /\ queued = 0 /\ answers = 0
  /\ checking = 0 /\ git = 0 /\ disk = 0 /\ log = 0 /\ released = 0
NoHook ==
  /\ kind = 0 /\ cli = 0 /\ hooks = 0 /\ toml = 0 /\ own = 0 /\ holder = 0 /\ proc = 0 /\ users = 0
  /\ false = 0 /\ edits = 0 /\ kills = 0
NoProvider ==
  /\ files = 0 /\ lastGood = 0 /\ run = 0 /\ load = 0 /\ pane = 0 /\ writes = 0 /\ restarts = 0
NoSetting ==
  /\ view = 0 /\ up = 0 /\ down = 0 /\ config = 0 /\ queue = 0 /\ job = 0 /\ done = 0 /\ names = 0
  /\ content = 0 /\ writer = 0 /\ ghost = 0 /\ used = 0
NoText == file = 0 /\ began = 0 /\ parsed = 0 /\ chosen = 0 /\ saves = 0
NoAgent ==
  /\ procs = 0 /\ fg = 0 /\ tty = 0 /\ screen = 0 /\ cache = 0 /\ evidence = 0 /\ verdicts = 0
  /\ notice = 0 /\ latest = 0 /\ wrong = 0 /\ drawn = 0
NoServer ==
  /\ sock = 0 /\ claim = 0 /\ snapshots = 0 /\ texts = 0 /\ srv = 0 /\ cmd = 0 /\ born = 0
  /\ forgotten = 0 /\ troubles = 0

Init ==
  /\ part \in Parts
  /\ IF part = "hierarchy" THEN H!Init ELSE ws = 0
  /\ IF part = "layout" THEN L!Init ELSE tree = 0
  /\ IF part \in {"worktrees", "directories"} THEN W!Init ELSE NoWorktree
  /\ IF part = "hooks" THEN Hooks!Init ELSE NoHook
  /\ IF part = "providers" THEN Providers!Init ELSE NoProvider
  /\ CASE part = "modal"  -> Modal!Init
       [] part = "modals" -> Modals!Init
       [] part = "peers"  -> Peers!Init
       [] OTHER           -> NoSetting
  /\ IF part = "config" THEN Config!Init ELSE NoText
  /\ CASE part = "turns"  -> Turns!Init
       [] part = "logged" -> Logged!Init
       [] OTHER           -> NoAgent
  /\ CASE part = "lives" -> Lives!Init
       [] part = "moves" -> Moves!Init
       [] OTHER          -> NoServer

StructureStep ==
  /\ UNCHANGED <<part, outsideVars>>
  /\ \/ part = "hierarchy" /\ UNCHANGED <<tree, worktreeVars>> /\ H!Next
     \/ part = "layout" /\ UNCHANGED <<ws, worktreeVars>> /\ L!Next
     \/ part = "worktrees" /\ UNCHANGED <<ws, tree>> /\ W!Next
     \/ part = "directories" /\ UNCHANGED <<ws, tree>> /\ D!Next

HookStep ==
  /\ UNCHANGED <<providerVars, settingVars, textVars, detectVars, lifeVars>>
  /\ part = "hooks" /\ Hooks!Next
ProviderStep ==
  /\ UNCHANGED <<hookVars, settingVars, textVars, detectVars, lifeVars>>
  /\ part = "providers" /\ Providers!Next
SettingStep ==
  /\ UNCHANGED <<hookVars, providerVars, textVars, detectVars, lifeVars>>
  /\ \/ part = "modal" /\ Modal!Next
     \/ part = "modals" /\ Modals!Next
     \/ part = "peers" /\ Peers!Next
TextStep ==
  /\ UNCHANGED <<hookVars, providerVars, settingVars, detectVars, lifeVars>>
  /\ part = "config" /\ Config!Next
DetectionStep ==
  /\ UNCHANGED <<hookVars, providerVars, settingVars, textVars, lifeVars>>
  /\ \/ part = "turns" /\ Turns!Next
     \/ part = "logged" /\ Logged!Next
LifeStep ==
  /\ UNCHANGED <<hookVars, providerVars, settingVars, textVars, detectVars>>
  /\ \/ part = "lives" /\ Lives!Next
     \/ part = "moves" /\ Moves!Next
OutsideStep ==
  /\ UNCHANGED <<part, structureVars>>
  /\ HookStep \/ ProviderStep \/ SettingStep \/ TextStep \/ DetectionStep \/ LifeStep

Next == StructureStep \/ OutsideStep

Spec == Init /\ [][Next]_vars

\* Worktrees only compares paths.
Symmetry == Permutations(Paths)

-----------------------------------------------------------------------------
(* The properties; each conjunct is stated and explained in its module.    *)

\* Hierarchy: every Pane in one Tab, every Tab in a listed Project, selections that
\* exist and stacks that are forests, whatever was created, closed, moved or
\* restored (server/projects.rs, tab_stacks.rs, close_pane); and a clean stop and
\* the next start rebuild them (restore_workspace_definition).
HierarchyIsSound ==
  part = "hierarchy" =>
    H!TypeOK /\ H!WellFormed /\ H!StackIsForest /\ H!DefinitionSurvivesRestart

\* Hierarchy: background work and changes elsewhere leave the human's focus alone,
\* and when its Pane closes it stays as near as it can.
FocusIsStable == part = "hierarchy" => H!FocusIsKept /\ H!FocusStaysNear

\* LayoutTree: what is drawn covers the area exactly, shows the focused Pane in the
\* automatic arrangements, and directional focus reaches every Pane on screen; Panes
\* keep their order, and a dragged divider lands on the pointer (layout.rs,
\* compute_mode, neighbor, split, without, set_divider_at).
ScreenIsCovered ==
  part = "layout" =>
    /\ L!OverviewFits /\ L!TilesArea /\ L!FocusedPaneShown /\ L!EveryPaneReachable
    /\ L!OrderIsKept /\ L!DragFollowsPointer

\* Worktrees: Git and the Projects agree, no creation is forgotten half-way and no
\* branch has two Projects.
WorktreesAgree ==
  /\ part = "worktrees" => W!TypeOK
  /\ part = "directories" => D!TypeOK
  /\ part \in {"worktrees", "directories"} => W!NothingOrphaned /\ W!BranchHasOneProject

\* Worktrees: uncommitted work, registrations and directories change only after the
\* checks that protect them still hold.
WorkIsProtected ==
  [][(part \in {"worktrees", "directories"}) =>
       W!UncommittedWorkKept /\ W!ForgottenAfterGit /\ W!DirectoryIsStable]_worktreeVars

\* Connectors: hooks and settings of the user outlive Uniterm's, what is reported
\* happened, and a connector shown as current is complete.
HooksAreKept ==
  part = "hooks" => Hooks!UserHooksKept /\ Hooks!ReportsAreTrue /\ Hooks!CurrentIsComplete

\* ProviderCatalog and Detection: the catalog in use follows the files, the last
\* good one is never half-written, and the status settles on what the screen shows.
AgentsAreKnown ==
  /\ part = "providers" => Providers!CatalogFollowsFiles /\ Providers!LastGoodIsWhole
  /\ part \in {"turns", "logged"} => Turns!ScreenStatusSettles

\* Settings and ConfigText: a modal settles on what the server holds, the file is
\* whole, and a save keeps every setting and every line it does not own.
SettingsAreKept ==
  /\ part = "modal" => Modal!ModalSettles /\ Modal!ModeFitsRow
  /\ part = "modals" => Modals!ModalSettles /\ Modals!ModeFitsRow
  /\ part = "peers" => Peers!ModalSettles /\ Peers!ModeFitsRow
  /\ part = "modal" => Modal!FileIsWhole /\ Modal!PlainIsKept
  /\ part = "modals" => Modals!FileIsWhole /\ Modals!PlainIsKept
  /\ part = "config" =>
       /\ Config!SettingsSurvive /\ Config!RestIsKept
       /\ Config!ChosenIsConfigured /\ Config!ChecksStayClean

\* WorkspaceLifecycle: no command loses a Workspace it was not told to forget, stop
\* means stopped, a launch means a server that answers, and peers stop first.
WorkspacesAreKept ==
  /\ part = "lives" => Lives!WorkspacesKept /\ Lives!StopMeansStopped
                       /\ Lives!LaunchMeansServing /\ Lives!PeersFirst
  /\ part = "moves" => Moves!WorkspacesKept /\ Moves!StopMeansStopped
                       /\ Moves!LaunchMeansServing /\ Moves!PeersFirst
=============================================================================
