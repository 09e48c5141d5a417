------------------------------ MODULE MCClient ------------------------------
(***************************************************************************)
(* What a person or a program sees of a Workspace, checked by two runs.    *)
(* The Panes: the terminal emulator three times (text and reflow, the      *)
(* alternate screen, frames for a client), the tables behind its cells,    *)
(* copy-mode over a Pane that keeps printing, and the frames on their way  *)
(* to clients that are slow, closing or sharing.  And the clients: what    *)
(* keys become (AttachInput), the surfaces a client opens                  *)
(* (ClientSurfaces), the lists it pages and marks (TaskPages, ListPanels,  *)
(* TodayView, TimelineRows), the commands of the CLI (SemanticRequests)    *)
(* and the control connections of programs (ControlApi).  They share no    *)
(* state; part says which one this behaviour exercises, the others stay    *)
(* where they start.                                                       *)
(***************************************************************************)
EXTENDS Integers, Sequences

CONSTANTS Parts,
          Limit, Chars, Counts, ReflowSeq, AltSeq, PaintSeq, Rows, Wheel, MaxText,
          FrameCap, FrameRoom, MaxFrames,
          MaxTyped, MaxMoves, MaxSteps

VARIABLES part,
  g, cur, region, mode, saved, alt, shown, mixed, count,                  \* of Terminal
  hist, screen, nextId, texts, copy, sel, press, appMouse, freezes, marked,
  gap,                                                                    \* of CopyMode
  kind, grid, pen, spoiled, writes,                                       \* of Arena
  client, scene, width, phase,                                            \* of ClientOutput
  wire, late, leftover, st, pointer, typed, want, split, joined,          \* of AttachInput
  open, flags, detail, tell, disk, told, subscribed, overlay, covered, asked, uninvited,
  moves,                                                                  \* of ClientSurfaces
  board, peer, dirty, ask, pages, list, draft, refused, chunks, edits,    \* of TaskPages
  server, up, down, view, meant, did, overtaken, keys, changes,           \* of ListPanels
  log, day, live, today, gen, questions, answers, watch, work, pressed, failures, rolled,
  rowMeant, took, went, manager,                                          \* of TodayView
  entries,                                                                \* of TimelineRows
  task, out, inbound, runtime, ends, streams, seen, written, toCore, toAgent, core, workers,
  ids, orphans,                                                           \* of ControlApi
  hub, cli, link, others                                                  \* of SemanticRequests

terminal    == <<g, cur, region, mode, saved, alt, shown, mixed, count>>
copymode    == <<hist, screen, nextId, texts, copy, sel, press, appMouse, freezes, marked, gap>>
arena       == <<kind, grid, pen, spoiled, writes>>
output      == <<client, scene, width, phase>>
paneVars    == <<terminal, copymode, arena, output>>
keyVars     == <<wire, late, leftover, st, pointer, typed, want, split, joined>>
surfaceVars == <<open, flags, detail, tell, disk, told, subscribed, overlay, covered, asked,
                 uninvited, moves>>
taskVars    == <<board, peer, dirty, ask, pages, list, draft, refused, chunks, edits>>
panelVars   == <<server, up, down, view, meant, did, overtaken, keys, changes>>
todayVars   == <<log, day, live, today, gen, questions, answers, watch, work, pressed, failures,
                 rolled, rowMeant, took, went, manager>>
clientVars  == <<keyVars, surfaceVars, taskVars, panelVars, todayVars, entries>>
controlVars == <<task, out, inbound, runtime, ends, streams, seen, written, toCore, toAgent, core,
                 workers, ids, orphans>>
requestVars == <<hub, cli, link, others>>
programVars == <<controlVars, requestVars>>
vars == <<part, paneVars, clientVars, programVars>>

-----------------------------------------------------------------------------
(* The Panes.                                                              *)

\* One to three columns, so that wide glyphs fit, wrap or are squeezed.
Reflow == INSTANCE Terminal WITH
            Sizes <- {<<3, 2>>, <<2, 2>>, <<1, 2>>, <<2, 3>>}, MaxSeq <- ReflowSeq,
            Features <- {"combine", "insert", "autowrap"}, Paint <- FALSE
Alt    == INSTANCE Terminal WITH
            Sizes <- {<<3, 1>>, <<2, 2>>}, MaxSeq <- AltSeq,
            Features <- {"alt", "save"}, Paint <- FALSE
Paint  == INSTANCE Terminal WITH
            Sizes <- {<<2, 3>>, <<2, 2>>}, MaxSeq <- PaintSeq, Limit <- 0,
            Features <- {"region", "origin", "alt"}, Paint <- TRUE
Copy   == INSTANCE CopyMode
\* Tables of two or three entries, so that they fill up, are compacted and wrap.
Tables == INSTANCE Arena WITH
            Texts <- {"x", "y", "z"}, Columns <- 2, Window <- 1, MinGc <- 2,
            MaxColors <- 3, MaxHandle <- 5, MaxWrites <- 2

\* A client that cannot keep up, also with answers in its queue; Panes that close under one; two clients that
\* share the geometry.
Behind  == INSTANCE ClientOutput WITH
  Clients <- {1}, Sizes <- {1}, Modes <- {"attached", "observer"}, Surfaces <- {"picker", "chrome"},
  Cap <- 2, MaxPending <- 6, MaxBody <- 3, MaxCloses <- 0
Answered == INSTANCE ClientOutput WITH
  Clients <- {1}, Sizes <- {1}, Modes <- {"attached"}, Surfaces <- {"note"},
  Cap <- 2, MaxPending <- 5, MaxBody <- 3, MaxCloses <- 0
Closing == INSTANCE ClientOutput WITH
  Clients <- {1}, Sizes <- {1}, Modes <- {"attached", "observer"}, Surfaces <- {"overlay"},
  Cap <- FrameCap, MaxPending <- FrameRoom, MaxBody <- MaxFrames, MaxCloses <- 1
Sharing == INSTANCE ClientOutput WITH
  Clients <- {1, 2}, Sizes <- {1, 2}, Modes <- {"attached", "controller", "takeover"},
  Surfaces <- {}, Cap <- 3, MaxPending <- 4, MaxBody <- 1, MaxCloses <- 0

-----------------------------------------------------------------------------
(* The clients.                                                            *)

\* Every kind of key but a paste; and pastes among keys and prefixes.
Typing  == INSTANCE AttachInput WITH
             Keys <- {"x", "c", "p", "esc", "up", "csip", "mouse", "focus"},
             mixed <- joined
Pasting == INSTANCE AttachInput WITH Keys <- {"x", "p", "paste"}, mixed <- joined

Local  == INSTANCE ClientSurfaces WITH
            Remote <- FALSE, up <- tell, down <- told, told <- overlay, shown <- covered
Remote == INSTANCE ClientSurfaces WITH
            Remote <- TRUE, MaxMoves <- MaxMoves - 1, up <- tell, down <- told, told <- overlay, shown <- covered

\* Three Tasks, two to a page.
Tasks == INSTANCE TaskPages WITH
           Tasks <- 1 .. 3, PageSize <- 2, MaxChunks <- 2, MaxEdits <- 1,
           up <- ask, down <- pages, view <- list

\* Three rows of which two fit.
Panels == INSTANCE ListPanels WITH
            Ids <- 1 .. 3, DevServers <- {3},
            Panels <- {"observatory", "projects", "agents", "sessions"}, Rows <- 2,
            MaxKeys <- MaxSteps, MaxChanges <- 1

\* Today: most keys over one Pane, the mark over two, a midnight, and the lines
\* that resume an agent or launch a manager.
Browsing == INSTANCE TodayView WITH
  Keys <- {"open", "close", "d", "date", "/", "n", "enter", "older", "go", "select", "mode",
           "esc", "inspect"},
  Panes <- {1}, PageSize <- 1, MaxEvents <- 2, MaxDays <- 1, MaxKeys <- 3, MaxFailures <- 1,
  view <- today, up <- questions, down <- answers, keys <- pressed, meant <- rowMeant
Marking == INSTANCE TodayView WITH
  Keys <- {"open", "go", "select"},
  Panes <- {1, 2}, PageSize <- 1, MaxEvents <- 3, MaxDays <- 1, MaxKeys <- 2, MaxFailures <- 0,
  view <- today, up <- questions, down <- answers, keys <- pressed, meant <- rowMeant
Overnight == INSTANCE TodayView WITH
  Keys <- {"open", "date"},
  Panes <- {1}, PageSize <- 2, MaxEvents <- 2, MaxDays <- 2, MaxKeys <- 2, MaxFailures <- 0,
  view <- today, up <- questions, down <- answers, keys <- pressed, meant <- rowMeant
Resuming == INSTANCE TodayView WITH
  Keys <- {"open", "r", "m", "enter"},
  Panes <- {1}, PageSize <- 2, MaxEvents <- 2, MaxDays <- 1, MaxKeys <- MaxSteps,
  MaxFailures <- 0,
  view <- today, up <- questions, down <- answers, keys <- pressed, meant <- rowMeant

\* Notes, and agents named by invocation, session, parent session or parent
\* invocation, in two Projects; see Observation in TimelineRows.
Said(inv, sess, psess, pinv, proj) ==
  [kind |-> "agent", inv |-> inv, sess |-> sess, psess |-> psess, pinv |-> pinv, proj |-> proj]
Noted ==
  {[Said(0, 0, 0, 0, 1) EXCEPT !.kind = "note"]}
  \cup {Said(i, s, p, 0, 1) : i \in 1 .. 2, s \in 0 .. 2, p \in 0 .. 2}
  \cup {Said(i, 0, 0, q, 1) : i \in 0 .. 2, q \in 0 .. 2}
  \cup {Said(1, s, 0, 0, 2) : s \in 0 .. 2}
DayRows == INSTANCE TimelineRows WITH Observations <- Noted, MaxEntries <- 3

-----------------------------------------------------------------------------
(* The programs: two connections whose requests outlive them, a            *)
(* subscription behind a full log, and a command of every kind.            *)

Control   == INSTANCE ControlApi WITH
  Conns <- {1, 2}, Kinds <- {"launch", "resume", "query", "directory", "inbox"}, Limit <- 2,
  Frames <- 1, MaxLaunches <- 1, MaxRequests <- 2, MaxEvents <- 1, MaxRenames <- 1,
  MaxMoves <- 1, work <- workers, asked <- ids
Subscribe == INSTANCE ControlApi WITH
  Conns <- {1}, Kinds <- {"subscribe", "mutate"}, Limit <- 2,
  Frames <- 2, MaxLaunches <- 1, MaxRequests <- 2, MaxEvents <- 3, MaxRenames <- 0,
  MaxMoves <- 0, work <- workers, asked <- ids
Command   == INSTANCE SemanticRequests WITH
  Commands <- {1}, Panes0 <- {2, 3}, MaxPanes <- 5,
  MaxProjects <- 3, MaxTabs <- 4, MaxMoves <- 2, core <- hub, moves <- others

-----------------------------------------------------------------------------
(* The state of the parts that do not move is fixed.                       *)

NoPane ==
  /\ g = 0 /\ cur = 0 /\ region = 0 /\ mode = 0 /\ saved = 0 /\ alt = 0 /\ shown = 0 /\ mixed = 0
  /\ count = 0
NoCopy ==
  /\ hist = 0 /\ screen = 0 /\ nextId = 0 /\ texts = 0 /\ copy = 0 /\ sel = 0 /\ press = 0
  /\ appMouse = 0 /\ freezes = 0 /\ marked = 0 /\ gap = 0
NoTable == kind = 0 /\ grid = 0 /\ pen = 0 /\ spoiled = 0 /\ writes = 0
NoOutput == client = 0 /\ scene = 0 /\ width = 0 /\ phase = 0
NoKey ==
  /\ wire = 0 /\ late = 0 /\ leftover = 0 /\ st = 0 /\ pointer = 0 /\ typed = 0 /\ want = 0
  /\ split = 0 /\ joined = 0
NoSurface ==
  /\ open = 0 /\ flags = 0 /\ detail = 0 /\ tell = 0 /\ disk = 0 /\ told = 0 /\ subscribed = 0
  /\ overlay = 0 /\ covered = 0 /\ asked = 0 /\ uninvited = 0 /\ moves = 0
NoTask ==
  /\ board = 0 /\ peer = 0 /\ dirty = 0 /\ ask = 0 /\ pages = 0 /\ list = 0 /\ draft = 0
  /\ refused = 0 /\ chunks = 0 /\ edits = 0
NoPanel ==
  /\ server = 0 /\ up = 0 /\ down = 0 /\ view = 0 /\ meant = 0 /\ did = 0 /\ overtaken = 0
  /\ keys = 0 /\ changes = 0
NoToday ==
  /\ log = 0 /\ day = 0 /\ live = 0 /\ today = 0 /\ gen = 0 /\ questions = 0 /\ answers = 0
  /\ watch = 0 /\ work = 0 /\ pressed = 0 /\ failures = 0 /\ rolled = 0 /\ rowMeant = 0
  /\ took = 0 /\ went = 0 /\ manager = 0
NoControl ==
  /\ task = 0 /\ out = 0 /\ inbound = 0 /\ runtime = 0 /\ ends = 0 /\ streams = 0 /\ seen = 0
  /\ written = 0 /\ toCore = 0 /\ toAgent = 0 /\ core = 0 /\ workers = 0 /\ ids = 0
  /\ orphans = 0
NoCommand == hub = 0 /\ cli = 0 /\ link = 0 /\ others = 0

PaneInit ==
  /\ CASE part = "reflow" -> Reflow!Init
       [] part = "alt"    -> Alt!Init
       [] part = "paint"  -> Paint!Init
       [] OTHER           -> NoPane
  /\ IF part = "copy" THEN Copy!Init ELSE NoCopy
  /\ IF part = "arena" THEN Tables!Init ELSE NoTable
  /\ CASE part \in {"behind", "answered", "closing"} -> Behind!Init
       [] part = "sharing" -> Sharing!Init
       [] OTHER            -> NoOutput
ClientInit ==
  /\ IF part \in {"typing", "pasting"} THEN Typing!Init ELSE NoKey
  /\ IF part \in {"local", "remote"} THEN Local!Init ELSE NoSurface
  /\ IF part = "tasks" THEN Tasks!Init ELSE NoTask
  /\ IF part = "panels" THEN Panels!Init ELSE NoPanel
  /\ CASE part = "marking" -> Marking!Init
       [] part \in {"browsing", "overnight", "resuming"} -> Browsing!Init
       [] OTHER                              -> NoToday
  /\ IF part = "rows" THEN DayRows!Init ELSE entries = 0
ProgramInit ==
  /\ CASE part = "control"   -> Control!Init
       [] part = "subscribe" -> Subscribe!Init
       [] OTHER              -> NoControl
  /\ IF part = "command" THEN Command!Init ELSE NoCommand

Init == part \in Parts /\ PaneInit /\ ClientInit /\ ProgramInit

TerminalStep ==
  /\ UNCHANGED <<copymode, arena, output>>
  /\ \/ part = "reflow" /\ Reflow!Next
     \/ part = "alt" /\ Alt!Next
     \/ part = "paint" /\ Paint!Next
CopyStep  == part = "copy" /\ UNCHANGED <<terminal, arena, output>> /\ Copy!Next
ArenaStep == part = "arena" /\ UNCHANGED <<terminal, copymode, output>> /\ Tables!Next
OutputStep ==
  /\ UNCHANGED <<terminal, copymode, arena>>
  /\ \/ part = "behind" /\ Behind!Next
     \/ part = "answered" /\ Answered!Next
     \/ part = "closing" /\ Closing!Next
     \/ part = "sharing" /\ Sharing!Next
PaneStep ==
  /\ UNCHANGED <<part, clientVars, programVars>>
  /\ TerminalStep \/ CopyStep \/ ArenaStep \/ OutputStep

KeyStep ==
  /\ UNCHANGED <<surfaceVars, taskVars, panelVars, todayVars, entries>>
  /\ \/ part = "typing" /\ Typing!Next
     \/ part = "pasting" /\ Pasting!Next
SurfaceStep ==
  /\ UNCHANGED <<keyVars, taskVars, panelVars, todayVars, entries>>
  /\ \/ part = "local" /\ Local!Next
     \/ part = "remote" /\ Remote!Next
TaskStep ==
  /\ UNCHANGED <<keyVars, surfaceVars, panelVars, todayVars, entries>>
  /\ part = "tasks" /\ Tasks!Next
PanelStep ==
  /\ UNCHANGED <<keyVars, surfaceVars, taskVars, todayVars, entries>>
  /\ part = "panels" /\ Panels!Next
TodayStep ==
  /\ UNCHANGED <<keyVars, surfaceVars, taskVars, panelVars, entries>>
  /\ \/ part = "browsing" /\ Browsing!Next
     \/ part = "marking" /\ Marking!Next
     \/ part = "overnight" /\ Overnight!Next
     \/ part = "resuming" /\ Resuming!Next
RowStep ==
  /\ UNCHANGED <<keyVars, surfaceVars, taskVars, panelVars, todayVars>>
  /\ part = "rows" /\ DayRows!Next
ClientStep ==
  /\ UNCHANGED <<part, paneVars, programVars>>
  /\ KeyStep \/ SurfaceStep \/ TaskStep \/ PanelStep \/ TodayStep \/ RowStep

ProgramStep ==
  /\ UNCHANGED <<part, paneVars, clientVars>>
  /\ \/ part = "control" /\ UNCHANGED requestVars /\ Control!Next
     \/ part = "subscribe" /\ UNCHANGED requestVars /\ Subscribe!Next
     \/ part = "command" /\ UNCHANGED controlVars /\ Command!Next

Next == PaneStep \/ ClientStep \/ ProgramStep

Spec == Init /\ [][Next]_vars

-----------------------------------------------------------------------------
(* The properties; each conjunct is stated and explained in its module.    *)

\* Terminal, Arena and CopyMode: the cursor and the region stay inside the grid, no
\* row has the wrong width or half of a wide glyph, and the alternate screen keeps no
\* history, whatever the program prints and however the Pane is resized (grid.rs,
\* terminal.rs); every cell shows what was written to it, however often its tables
\* were compacted; and the line copy-mode is anchored on keeps its text while the
\* program scrolls (copymode.rs, evict and sync_history).
ScreenIsSound ==
  /\ part = "reflow" => Reflow!ScreenIsSound
  /\ part = "alt" => Alt!ScreenIsSound
  /\ part = "paint" => Paint!ScreenIsSound
  /\ part = "arena" => Tables!CellsResolve
  /\ part = "copy" => Copy!ViewportInBuffer /\ Copy!HoldsStillWhenScrolling

\* Terminal: a resize reorders, duplicates and invents no glyph of either screen, and
\* loses only what history has no room for (resize_reflow).
ResizeKeepsText ==
  [][CASE part = "reflow" -> Reflow!ResizeKeepsText
       [] part = "alt"    -> Alt!ResizeKeepsText
       [] OTHER           -> TRUE]_terminal

\* Terminal and ClientOutput: the next frame brings a client up to date (renderer.rs
\* and the grid's damage), apart from a region scroll that meets a pending
\* whole-screen scroll; and a client that fell behind sees the newest picture once
\* nothing more is to be written.
PicturesCatchUp ==
  /\ part = "paint" => Paint!CatchesUpUnlessMixed
  /\ part \in {"behind", "answered"} => Behind!PicturesCatchUp

\* ClientOutput, ControlApi and SemanticRequests: a closed Pane's last frame precedes
\* its exit, and the geometry is the one its sharing asks for; the places for control
\* requests never leak, a subscriber gets every event once and in order, a stream that
\* runs is fed, no request of a caller that left starts anything (runtime.rs,
\* native_resume.rs, launch.rs); and a command's exit status tells what the Workspace
\* did (client requests.rs).
CallersAreServed ==
  /\ part = "closing" => Closing!LastWordsFirst /\ Closing!SharedFairly
  /\ part = "sharing" => Sharing!SharedFairly
  /\ part \in {"control", "subscribe"} => Control!PendingIsOutstanding /\ Control!RunningIsFed
  /\ part = "control" => Control!CancelledNeverStarts
  /\ part = "subscribe" => Subscribe!EventsInOrder
  /\ part = "command" => Command!ExitTellsTruth /\ Command!WaitsAreCurrent

\* AttachInput: however the bytes of a key are cut into reads, it means what it
\* says (client input.rs, palette.rs, the pastes and pointer reports).
KeysMeanWhatTheySay == part \in {"typing", "pasting"} => Typing!KeysMeanWhatTheySay

\* ClientSurfaces: one manager at a time, nothing the user closed opens again, and
\* the server knows whether something covers the Panes.
SurfacesAgree ==
  part \in {"local", "remote"} => Local!OneManager /\ Local!NotReopened /\ Local!ServerKnows

\* TaskPages, ListPanels, TodayView and TimelineRows: pages belong to one version and
\* settle, guesses about a change are corrected, an answer goes to the item it was
\* read from; with nothing on its way Today shows its newest page and a visit leads
\* to the invocation of its row; every entry is evidence of one row, a session has
\* one row, and a line joins rows of one Project.  What a refused resume leaves
\* behind is not claimed.
ListsAreCurrent ==
  /\ part = "tasks" => Tasks!OneVersion /\ Tasks!Settles
  /\ part = "panels" => Panels!GuessesAreCorrected /\ Panels!AnswersGoHome
  /\ part = "browsing" => Browsing!TodayCatchesUp
  /\ part = "overnight" => Overnight!TodayCatchesUp
  /\ part = "marking" => Marking!TodayCatchesUp
  /\ part \in {"browsing", "marking", "overnight", "resuming"} => Browsing!VisitsAreExact
  /\ part = "rows" => DayRows!EvidenceIsKept /\ DayRows!SessionsAreOne /\ DayRows!LinesStayHome

\* ListPanels and TodayView: a refresh leaves the mark on the row it was on.
MarkStaysOnItsRow ==
  [][/\ part = "panels" => Panels!MarkKept
     /\ part \in {"browsing", "marking", "overnight", "resuming"} => Browsing!SelectionKept]_vars

\* docs/14-ssh-remote-sessions.md: "After writable readiness drains the older frame,
\* the server sends one authoritative full repaint from its current grids", also for
\* a client that stays connected while a Pane closes (server/io.rs, on_client).
FullRepaintFollows == part = "closing" => Closing!PicturesCatchUp
=============================================================================
