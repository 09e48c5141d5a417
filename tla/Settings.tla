------------------------------- MODULE Settings -------------------------------
(***************************************************************************)
(* Settings from the key to the disk: the thin client's modal              *)
(* (uniterm-client/src/settings.rs and theme_picker.rs), the server's      *)
(* Config (apply_settings of server.rs), the runtime's saves               *)
(* (save_config_atomic of runtime.rs), and the other writers of the same   *)
(* file: a second Workspace's server and the choice of a default Workspace *)
(* (save_default_workspace).                                               *)
(*                                                                         *)
(* One row stands for each way a setting is handled: "theme" has its own   *)
(* browser, "delivery" a list of options, "follow" is a switch that every  *)
(* client is told of, "width" is a bounded number, "editor" and "rules"    *)
(* are validated by the runtime, "projects" is refused or taken at once.   *)
(* What a file holds of the settings is the Config itself: ConfigText says *)
(* how they are spelled.                                                   *)
(***************************************************************************)
EXTENDS Naturals, Sequences, FiniteSets

CONSTANTS Servers, Clients,
          Home,         \* the server each client is attached to
          Fields,       \* the rows of the rail, in order
          MaxMoves,     \* keys and clicks
          MaxToggles,   \* sidebar commands outside the modal
          MaxDefaults,  \* choices of a default Workspace
          MaxTroubles,  \* saves that fail
          MaxRestarts

VARIABLES view,      \* client -> the modal
          up, down,  \* the sockets
          config,    \* server -> Config
          queue,     \* server -> what the runtime is yet to do
          job,       \* server -> what it is doing
          done,      \* server -> its answers
          names,     \* the live file and the servers' temporary, by inode
          content,   \* inode -> what is in it
          writer,    \* the one who chooses a default Workspace
          ghost,     \* what was asked for, and what got in its way
          used

vars == <<view, up, down, config, queue, job, done, names, content, writer, ghost, used>>

Kind == [theme |-> "choice", delivery |-> "choice", follow |-> "switch", width |-> "number",
         editor |-> "text", rules |-> "text", projects |-> "text"]
Names == {Fields[i] : i \in DOMAIN Fields}
Widest == 2

\* What can be entered: an editor may be empty (0) or no command (3), rules and
\* projects malformed (0 or 3, and 3), a width beyond the widest.
Entered == 0 .. 3
Options == <<0, 1>>

Shut(pending) == [open |-> FALSE, pending |-> pending]
NoEdit == [field |-> "none", text |-> 0]
NoList == [query |-> FALSE, at |-> 0]       \* at counts from 1; 0 is closed
Idle == [step |-> "none"]
Partial == [whole |-> FALSE]

View(settings, saved, error) ==
    [open |-> TRUE, settings |-> settings, saved |-> saved, error |-> error, sel |-> 1,
     edit |-> NoEdit, options |-> NoList, picker |-> NoList]

-----------------------------------------------------------------------------
(* The modal.  An operation gives the new view and the patch to send, if    *)
(* any.                                                                     *)

Field(v) == Fields[v.sel]
Patch(f, x) == <<[kind |-> "apply", field |-> f, value |-> x]>>
Redraw(v) == [view |-> v, patch |-> <<>>]

\* set_choice, toggle, set_number: shown at once, and sent
Set(v, f, x) ==
    [view |-> [v EXCEPT !.settings[f] = x, !.saved = FALSE, !.error = FALSE], patch |-> Patch(f, x)]

\* change: the next or the one before of what is shown
change(v, forward) ==
    LET f == Field(v)
        x == v.settings[f]
        n == IF Kind[f] = "number"
               THEN IF forward THEN (IF x < Widest THEN x + 1 ELSE Widest) ELSE (IF x > 1 THEN x - 1 ELSE 1)
               ELSE 1 - x
    IN  Set(v, f, n)

begin_edit(v) == [v EXCEPT !.edit = [field |-> Field(v), text |-> v.settings[Field(v)]], !.error = FALSE]

\* The options that answer the search, and where one stands among them
Filtered(query) == IF query THEN SelectSeq(Options, LAMBDA o : o = 1) ELSE Options
OptionAt(v) == CHOOSE i \in DOMAIN Options : Options[i] = v.settings[Field(v)]

enter_options(v) ==
    LET list == [query |-> FALSE, at |-> OptionAt(v)]
    IN  IF Field(v) = "theme" THEN [v EXCEPT !.picker = list] ELSE [v EXCEPT !.options = list]

\* What Enter, or a click on the selected row, does
Chosen(v) ==
    CASE Kind[Field(v)] \in {"text", "number"} -> Redraw(begin_edit(v))
      [] Kind[Field(v)] = "choice" -> Redraw(enter_options(v))
      [] Kind[Field(v)] = "switch" -> change(v, TRUE)

changes_from_rail(v) == Field(v) # "theme" /\ Kind[Field(v)] # "text"

OnRail(v) == v.picker = NoList /\ v.edit = NoEdit /\ v.options = NoList

\* handle, on the rail
RailKey(v) ==
         {Redraw([v EXCEPT !.sel = i]) : i \in {v.sel - 1, v.sel + 1} \cap DOMAIN Fields}
    \cup {Chosen(v)}
    \cup (IF changes_from_rail(v) THEN {change(v, TRUE), change(v, FALSE)} ELSE {})

\* handle_edit; a number out of its range is refused here
EditKey(v) ==
    LET shut == [v EXCEPT !.edit = NoEdit]
        f == v.edit.field
    IN       {Redraw(shut)}
        \cup {Redraw([v EXCEPT !.edit.text = x]) : x \in Entered}
        \cup {IF Kind[f] = "number" /\ v.edit.text \notin 1 .. Widest
                THEN Redraw([shut EXCEPT !.error = TRUE])
                ELSE Set(shut, f, v.edit.text)}

\* handle_options, and ThemePicker's handle and wheel: moving and searching
Moved(list) ==
    LET n == Len(Filtered(list.query))
    IN       {[list EXCEPT !.at = i] : i \in {list.at - 1, list.at + 1} \cap 1 .. n}
        \cup {[query |-> ~list.query, at |-> 1]}

OptionsKey(v) ==
         {Redraw([v EXCEPT !.options = NoList])}
    \cup {Redraw([v EXCEPT !.options = l]) : l \in Moved(v.options)}
    \cup {Set([v EXCEPT !.options = NoList], Field(v), Filtered(v.options.query)[v.options.at])}

PickerKey(v) ==
         {Redraw([v EXCEPT !.picker = NoList])}
    \cup {Redraw([v EXCEPT !.picker = l]) : l \in Moved(v.picker)}
    \cup {Set([v EXCEPT !.picker = NoList], "theme", Filtered(v.picker.query)[v.picker.at])}

\* handle: the theme browser first, then the editor, then the options
Key(v) ==
    IF v.picker # NoList THEN PickerKey(v)
    ELSE IF v.edit # NoEdit THEN EditKey(v)
    ELSE IF v.options # NoList THEN OptionsKey(v)
    ELSE RailKey(v)

\* click on a row of the rail, and the wheel over it
RailClick(v, i) ==
    LET w == [v EXCEPT !.edit = NoEdit, !.options = NoList]
    IN  IF i = v.sel THEN Chosen(w) ELSE Redraw([w EXCEPT !.sel = i])

\* click_pane, and the wheel over the pane
PaneClick(v) ==
    CASE Field(v) = "theme" -> {Redraw(enter_options(v))}
      [] Kind[Field(v)] = "choice" /\ Field(v) # "theme" ->
           {Set([v EXCEPT !.options = NoList], Field(v), o) : o \in {0, 1}}
      [] Kind[Field(v)] = "switch" -> {change(v, TRUE)}
      [] Kind[Field(v)] = "number" -> {change(v, TRUE), change(v, FALSE)}
      [] Kind[Field(v)] = "text" -> {Redraw(begin_edit(v))}

\* click: the theme browser, when it is up, takes every click
Click(v) ==
    IF v.picker # NoList THEN PickerKey(v)
    ELSE {RailClick(v, i) : i \in DOMAIN Fields} \cup PaneClick(v)

\* refresh: the snapshot replaces what is shown; an open editor keeps its text
refresh(v, m) == [v EXCEPT !.settings = m.settings, !.saved = m.saved, !.error = m.error]

UseModal(c) ==
    /\ used.moves < MaxMoves /\ used' = [used EXCEPT !.moves = @ + 1]
    /\ view[c].open
    /\ \E r \in Key(view[c]) \cup Click(view[c]) :
         /\ view' = [view EXCEPT ![c] = r.view]
         /\ up' = [up EXCEPT ![c] = @ \o r.patch]
    /\ UNCHANGED <<down, config, queue, job, done, names, content, writer, ghost>>

OpenModal(c) ==
    /\ used.moves < MaxMoves /\ used' = [used EXCEPT !.moves = @ + 1]
    /\ view[c] = Shut(FALSE)
    /\ view' = [view EXCEPT ![c] = Shut(TRUE)]
    /\ up' = [up EXCEPT ![c] = Append(@, [kind |-> "settings"])]
    /\ UNCHANGED <<down, config, queue, job, done, names, content, writer, ghost>>

CloseModal(c) ==
    /\ used.moves < MaxMoves /\ used' = [used EXCEPT !.moves = @ + 1]
    /\ view[c].open /\ view[c].picker = NoList
    /\ view' = [view EXCEPT ![c] = Shut(FALSE)]
    /\ UNCHANGED <<up, down, config, queue, job, done, names, content, writer, ghost>>

\* ServerMessage::Settings at the client: into the open modal, or opening the one
\* that is waited for; otherwise it is passed over.
Shown(c) ==
    /\ down[c] # <<>>
    /\ LET m == Head(down[c])
       IN  view' = [view EXCEPT ![c] = IF @.open THEN refresh(@, m)
                                       ELSE IF @.pending THEN View(m.settings, m.saved, m.error)
                                       ELSE @]
    /\ down' = [down EXCEPT ![c] = Tail(@)]
    /\ UNCHANGED <<up, config, queue, job, done, names, content, writer, ghost, used>>

-----------------------------------------------------------------------------
(* The server. *)

Nobody == 0

\* reply_settings: a snapshot of the Config as it is now
Reply(d, cs, cfg, saved, error) ==
    [c \in Clients |-> IF c \in cs THEN Append(d[c], [settings |-> cfg, saved |-> saved, error |-> error])
                       ELSE d[c]]

ConfigSave(c, cfg) == [kind |-> "save", client |-> c, config |-> cfg]
EditorSettingsValidate(c, f, ed, ru) ==
    [kind |-> "validate", client |-> c, field |-> f, editor |-> ed, rules |-> ru]

Clamped(f, x) == IF f = "width" THEN (IF x = 0 THEN 1 ELSE IF x > Widest THEN Widest ELSE x) ELSE x

\* Who has to hear of a change that was not theirs: those who look at the old
\* value, until they are sent a snapshot.
Stale(s, told) == (ghost.stale \cup {c \in Clients : Home[c] = s}) \ told

BadProjects(x) == x = 3       \* parse_guardrail_allowed_projects
BadRules(x) == x = 0          \* parse_editor_rules

\* apply_settings, an editor or its rules: the other of the two is taken from the
\* Config as it is now, and both go to be validated
ApplyEditor(s, c, f, x) ==
    LET ed == IF f = "editor" THEN x ELSE config[s]["editor"]
        ru == IF f = "rules" THEN x ELSE config[s]["rules"]
        refused == ed = 0 \/ (f = "rules" /\ BadRules(x))
    IN  /\ down' = IF refused THEN Reply(down, {c}, config[s], FALSE, TRUE) ELSE down
        /\ queue' = IF refused THEN queue
                    ELSE [queue EXCEPT ![s] = Append(@, EditorSettingsValidate(c, f, ed, ru))]
        /\ ghost' = IF refused THEN [ghost EXCEPT !.stale = @ \ {c}] ELSE ghost
        /\ UNCHANGED config

\* apply_settings, any other row: taken at once, told to every client when it is
\* the one their pointers follow, and saved
ApplyPlain(s, c, f, x) ==
    LET cfg == [config[s] EXCEPT ![f] = Clamped(f, x)]
        told == IF f = "follow" /\ cfg # config[s] THEN {d \in Clients : Home[d] = s} ELSE {}
    IN  IF f = "projects" /\ BadProjects(x)
        THEN /\ down' = Reply(down, {c}, config[s], FALSE, TRUE)
             /\ ghost' = [ghost EXCEPT !.stale = @ \ {c}]
             /\ UNCHANGED <<config, queue>>
        ELSE /\ config' = [config EXCEPT ![s] = cfg]
             /\ down' = Reply(down, told, cfg, FALSE, FALSE)
             /\ queue' = [queue EXCEPT ![s] = Append(@, ConfigSave(c, cfg))]
             /\ ghost' = [ghost EXCEPT !.stale = Stale(s, told), !.want[f] = cfg[f]]

Request(c) ==
    /\ up[c] # <<>>
    /\ up' = [up EXCEPT ![c] = Tail(@)]
    /\ LET m == Head(up[c])
           s == Home[c]
       IN  IF m.kind = "settings"
           THEN /\ down' = Reply(down, {c}, config[s], TRUE, FALSE)
                /\ ghost' = [ghost EXCEPT !.stale = @ \ {c}]
                /\ UNCHANGED <<config, queue>>
           ELSE IF m.field \in {"editor", "rules"} THEN ApplyEditor(s, c, m.field, m.value)
           ELSE ApplyPlain(s, c, m.field, m.value)
    /\ UNCHANGED <<view, job, done, names, content, writer, used>>

\* Command::SidebarToggle and its like: changed and saved, with nobody to answer
Toggle(s) ==
    /\ used.toggles < MaxToggles /\ used' = [used EXCEPT !.toggles = @ + 1]
    /\ LET cfg == [config[s] EXCEPT !["follow"] = 1 - @]
       IN  /\ config' = [config EXCEPT ![s] = cfg]
           /\ queue' = [queue EXCEPT ![s] = Append(@, ConfigSave(Nobody, cfg))]
           /\ ghost' = [ghost EXCEPT !.want["follow"] = cfg["follow"], !.stale = Stale(s, {})]
    /\ UNCHANGED <<view, up, down, job, done, names, content, writer>>

\* A refusal is answered; what passed is both halves, and is saved.
EditorSettingsValidated(s, m) ==
    IF ~m.ok
    THEN /\ down' = Reply(down, {m.client} \ {Nobody}, config[s], FALSE, TRUE)
         /\ ghost' = [ghost EXCEPT !.stale = @ \ {m.client}]
         /\ UNCHANGED <<config, queue>>
    ELSE LET cfg == [config[s] EXCEPT !["editor"] = m.editor, !["rules"] = m.rules]
         IN  /\ config' = [config EXCEPT ![s] = cfg]
             /\ queue' = [queue EXCEPT ![s] = Append(@, ConfigSave(m.client, cfg))]
             /\ ghost' = [ghost EXCEPT !.want[m.field] = cfg[m.field], !.stale = Stale(s, {})]
             /\ UNCHANGED down

Answered(s) ==
    /\ done[s] # <<>>
    /\ done' = [done EXCEPT ![s] = Tail(@)]
    /\ LET m == Head(done[s])
       IN  IF m.kind = "saved"
           THEN /\ down' = Reply(down, {m.client} \ {Nobody}, config[s], m.ok, ~m.ok)
                /\ ghost' = [ghost EXCEPT !.stale = @ \ {m.client}]
                /\ UNCHANGED <<config, queue>>
           ELSE EditorSettingsValidated(s, m)
    /\ UNCHANGED <<view, up, job, names, content, writer, used>>

-----------------------------------------------------------------------------
(* The runtime: one thing at a time, in the order it was sent. *)

Take(s) ==
    /\ job[s] = Idle /\ queue[s] # <<>>
    /\ job' = [job EXCEPT ![s] = [step |-> "begin", todo |-> Head(queue[s])]]
    /\ queue' = [queue EXCEPT ![s] = Tail(@)]
    /\ UNCHANGED <<view, up, down, config, done, names, content, writer, ghost, used>>

Finish(s, answer) ==
    /\ job' = [job EXCEPT ![s] = Idle]
    /\ done' = [done EXCEPT ![s] = Append(@, answer)]

\* validate_editor_commands
Validate(s) ==
    /\ job[s].step = "begin" /\ job[s].todo.kind = "validate"
    /\ LET t == job[s].todo
       IN  Finish(s, [kind |-> "validated", client |-> t.client, field |-> t.field, editor |-> t.editor,
                      rules |-> t.rules, ok |-> t.editor # 3 /\ t.rules # 3])
    /\ UNCHANGED <<view, up, down, config, queue, names, content, writer, ghost, used>>

\* save_config_atomic: the file is read ...
ReadFile(s) ==
    /\ job[s].step = "begin" /\ job[s].todo.kind = "save"
    /\ job' = [job EXCEPT ![s] = [step |-> "read", todo |-> @.todo, from |-> names.live,
                                  default |-> IF content[names.live].whole THEN content[names.live].default
                                              ELSE 0]]
    /\ UNCHANGED <<view, up, down, config, queue, done, names, content, writer, ghost, used>>

\* ... the temporary, one for all servers, opened and cut short ...
Fresh == 1 + Len(content)

\* Slip: the live file is opened itself.
OpenTempLive(s) ==
    /\ content' = [content EXCEPT ![names.live] = Partial]
    /\ job' = [job EXCEPT ![s] = [step |-> "open", todo |-> @.todo, from |-> @.from,
                                  default |-> @.default, inode |-> names.live]]
    /\ names' = [names EXCEPT !.temp = names.live]

OpenTemp(s) ==
    LET inode == IF names.temp = 0 THEN Fresh ELSE names.temp
    IN  /\ content' = IF names.temp = 0 THEN Append(content, Partial)
                      ELSE [content EXCEPT ![inode] = Partial]
        /\ job' = [job EXCEPT ![s] = [step |-> "open", todo |-> @.todo, from |-> @.from,
                                      default |-> @.default, inode |-> inode]]
        /\ names' = [names EXCEPT !.temp = inode]

Open(s) ==
    /\ job[s].step = "read"
    /\ OpenTemp(s)
    /\ UNCHANGED <<view, up, down, config, queue, done, writer, ghost, used>>

\* ... written, wherever the open file is by now ...
Write(s) ==
    /\ job[s].step = "open"
    /\ content' = [content EXCEPT ![job[s].inode] =
                     [whole |-> TRUE, config |-> job[s].todo.config, default |-> job[s].default]]
    /\ job' = [job EXCEPT ![s].step = "written"]
    /\ UNCHANGED <<view, up, down, config, queue, done, names, writer, ghost, used>>

SaveAnswer(s, ok) == [kind |-> "saved", client |-> job[s].todo.client, ok |-> ok]

\* ... and renamed over the live one.
Rename(s) ==
    /\ job[s].step = "written"
    /\ IF names.temp = 0
       THEN UNCHANGED names /\ ghost' = [ghost EXCEPT !.behind = TRUE]
       ELSE /\ names' = [live |-> names.temp, temp |-> 0]
            /\ ghost' = [ghost EXCEPT !.behind = FALSE, !.clash = @ \/ names.live # job[s].from]
    /\ Finish(s, SaveAnswer(s, names.temp # 0))
    /\ UNCHANGED <<view, up, down, config, queue, content, writer, used>>

\* A full disk, say: the save ends there, its temporary where it is.
SaveFails(s) ==
    /\ used.troubles < MaxTroubles /\ used' = [used EXCEPT !.troubles = @ + 1]
    /\ job[s].step \in {"read", "open", "written"}
    /\ ghost' = [ghost EXCEPT !.behind = TRUE]
    /\ Finish(s, SaveAnswer(s, FALSE))
    /\ UNCHANGED <<view, up, down, config, queue, names, content, writer>>

\* save_default_workspace, with a temporary of its own
ReadDefault ==
    /\ used.defaults < MaxDefaults /\ used' = [used EXCEPT !.defaults = @ + 1]
    /\ writer = Idle
    /\ writer' = [step |-> "read", from |-> names.live, was |-> content[names.live]]
    /\ UNCHANGED <<view, up, down, config, queue, job, done, names, content, ghost>>

RenameDefault ==
    /\ writer.step = "read"
    /\ content' = Append(content, IF writer.was.whole THEN [writer.was EXCEPT !.default = used.defaults]
                                  ELSE writer.was)
    /\ names' = [names EXCEPT !.live = Fresh]
    /\ ghost' = [ghost EXCEPT !.default = used.defaults, !.clash = @ \/ names.live # writer.from]
    /\ writer' = Idle
    /\ UNCHANGED <<view, up, down, config, queue, job, done, used>>

\* A server ends, wherever it is, and one starts in its place from the file.
Default == [f \in Names |-> IF Kind[f] \in {"text", "number"} /\ f # "projects" THEN 1 ELSE 0]

Restart(s) ==
    /\ used.restarts < MaxRestarts /\ used' = [used EXCEPT !.restarts = @ + 1]
    /\ LET cfg == IF content[names.live].whole THEN content[names.live].config ELSE Default
           gone == {c \in Clients : Home[c] = s}
       IN  /\ config' = [config EXCEPT ![s] = cfg]
           /\ view' = [c \in Clients |-> IF c \in gone THEN Shut(FALSE) ELSE view[c]]
           /\ up' = [c \in Clients |-> IF c \in gone THEN <<>> ELSE up[c]]
           /\ down' = [c \in Clients |-> IF c \in gone THEN <<>> ELSE down[c]]
           /\ ghost' = [ghost EXCEPT !.want = cfg, !.stale = @ \ gone, !.behind = FALSE]
    /\ queue' = [queue EXCEPT ![s] = <<>>]
    /\ job' = [job EXCEPT ![s] = Idle]
    /\ done' = [done EXCEPT ![s] = <<>>]
    /\ UNCHANGED <<names, content, writer>>

-----------------------------------------------------------------------------
Init ==
    /\ config = [s \in Servers |-> Default]
    /\ view = [c \in Clients |-> View(Default, TRUE, FALSE)]
    /\ up = [c \in Clients |-> <<>>] /\ down = [c \in Clients |-> <<>>]
    /\ queue = [s \in Servers |-> <<>>] /\ done = [s \in Servers |-> <<>>]
    /\ job = [s \in Servers |-> Idle] /\ writer = Idle
    /\ names = [live |-> 1, temp |-> 0]
    /\ content = <<[whole |-> TRUE, config |-> Default, default |-> 0]>>
    /\ ghost = [want |-> Default, default |-> 0, stale |-> {}, behind |-> FALSE, clash |-> FALSE]
    /\ used = [moves |-> 0, toggles |-> 0, defaults |-> 0, troubles |-> 0, restarts |-> 0]

Next ==
    \/ \E c \in Clients : UseModal(c) \/ OpenModal(c) \/ CloseModal(c) \/ Shown(c) \/ Request(c)
    \/ \E s \in Servers :
         \/ Toggle(s) \/ Answered(s) \/ Take(s) \/ Validate(s) \/ ReadFile(s) \/ Open(s)
         \/ Write(s) \/ Rename(s) \/ SaveFails(s) \/ Restart(s)
    \/ ReadDefault \/ RenameDefault

Spec == Init /\ [][Next]_vars

-----------------------------------------------------------------------------
(* Properties. *)

Quiet(s) == queue[s] = <<>> /\ job[s] = Idle /\ done[s] = <<>> /\ \A c \in Clients : Home[c] = s => up[c] = <<>>

\* Once everything a client asked for is answered, its modal shows the Config the
\* server runs with: no guess outlives a refusal or a clamp (refresh and
\* reply_settings), unless another client or command changed it meanwhile.
ModalSettles ==
    \A c \in Clients :
        (view[c].open /\ Quiet(Home[c]) /\ down[c] = <<>> /\ c \notin ghost.stale)
            => view[c].settings = config[Home[c]]

\* An editor, an option list or the theme browser is open on the row that is
\* selected (click and wheel of SettingsView).
ModeFitsRow ==
    \A c \in Clients : view[c].open =>
        /\ view[c].edit # NoEdit => view[c].edit.field = Field(view[c])
        /\ view[c].options # NoList => Kind[Field(view[c])] = "choice" /\ Field(view[c]) # "theme"
        /\ view[c].picker # NoList => Field(view[c]) = "theme"

\* The live file is a whole one at every moment, and so after every stop
\* (save_config_atomic's temporary and rename).
FileIsWhole == content[names.live].whole

AllKept(fs) ==
    ((\A s \in Servers : Quiet(s)) /\ writer = Idle /\ ~ghost.behind /\ ~ghost.clash)
        => /\ content[names.live].whole
           /\ \A f \in fs : content[names.live].config[f] = ghost.want[f]

\* When the saves are done the file has every setting as it was last accepted
\* (apply_settings and ConfigSave), whoever asked for it.
PlainIsKept == AllKept(Names \ {"editor", "rules"})

\* The same of the editor and the rules, which are validated on the way.
AcceptedIsKept == AllKept(Names)

\* A default Workspace that was chosen is still chosen when Settings has saved.
DefaultIsKept ==
    ((\A s \in Servers : Quiet(s)) /\ writer = Idle)
        => content[names.live].default = ghost.default

=============================================================================
