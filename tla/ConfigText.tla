------------------------------ MODULE ConfigText ------------------------------
(***************************************************************************)
(* uniterm.conf as text: how it is read (uniterm-core/src/config.rs,       *)
(* parse), judged (diagnostics), and written back by Settings (to_text,    *)
(* and merge_config_text of uniterm-server/src/runtime.rs), and by the     *)
(* choice of a default Workspace (merge_default_workspace).                *)
(*                                                                         *)
(* A line is a key and what stands right of the equals sign, a sequence of *)
(* characters of five kinds ("a" is any ordinary one) and of words that    *)
(* need no telling apart inside.  One key stands for each way a key is     *)
(* treated: "sidebar" for every switch, "width" for the numbers, "editor"  *)
(* for the texts that are quoted, "sound" for the one that is not,         *)
(* "project" for the key that repeats, "rule" and "bind" for the families, *)
(* "tint" for the colours that are only written by hand, "autosave" for    *)
(* the second names, "mine" for everything unknown.                        *)
(***************************************************************************)
EXTENDS Naturals, Sequences, FiniteSets, SequencesExt

CONSTANTS HandWritten,  \* lines a human writes
          MaxLines,     \* lines of the file to begin with
          Texts,        \* what is entered for "editor" and "rule"
          Sounds,       \* what is entered for "sound"
          MaxSaves

VARIABLES file,    \* the lines
          began,   \* the file before Settings touched it
          config,  \* the server's Config
          chosen,  \* the default Workspace that was chosen, if one was
          saves

vars == <<file, began, config, chosen, saves>>

Line(key, raw) == [key |-> key, raw |-> raw]
Comment == "#"            \* the key of a line that is a remark
None == <<>>

-----------------------------------------------------------------------------
(* One value. *)

Trim(s) ==
    LET dark == {i \in DOMAIN s : s[i] # " "}
        first == CHOOSE i \in dark : \A j \in dark : i <= j
        last  == CHOOSE i \in dark : \A j \in dark : j <= i
    IN  IF dark = {} THEN <<>> ELSE SubSeq(s, first, last)

\* strip_inline_comment: a # after a blank, outside quotes
StripInlineComment(s) ==
    LET cut[i \in 1 .. Len(s) + 2, quoted \in BOOLEAN] ==
          IF i >= Len(s) THEN Len(s)
          ELSE IF quoted /\ s[i] = "\\" THEN cut[i + 2, quoted]
          ELSE LET q == IF s[i] = "\"" THEN ~quoted ELSE quoted
               IN  IF ~q /\ s[i] = " " /\ s[i + 1] = "#" THEN i - 1 ELSE cut[i + 1, q]
    IN  SubSeq(s, 1, cut[1, FALSE])

\* unescape_quoted
Unescape(s) ==
    LET from[i \in 1 .. Len(s) + 2] ==
          IF i > Len(s) THEN <<>>
          ELSE IF s[i] # "\\" THEN <<s[i]>> \o from[i + 1]
          ELSE IF i = Len(s) THEN <<"\\">>
          ELSE (IF s[i + 1] \in {"\"", "\\"} THEN <<s[i + 1]>> ELSE <<"\\", s[i + 1]>>) \o from[i + 2]
    IN  from[1]

\* The last quote closes the value unless an odd run of backslashes precedes it.
Closed(s) ==
    LET run[i \in 0 .. Len(s)] == IF i = 0 \/ s[i] # "\\" THEN 0 ELSE 1 + run[i - 1]
    IN  run[Len(s) - 1] % 2 = 0

config_value(raw) ==
    LET s == Trim(raw)
    IN  IF Len(s) >= 2 /\ s[1] = "\"" /\ s[Len(s)] = "\"" /\ Closed(s)
        THEN Unescape(SubSeq(s, 2, Len(s) - 1))
        ELSE Trim(StripInlineComment(s))

\* Slip: inner quotes are written as they are.
config_value_textUnescaped(v) ==
    IF "#" \notin ToSet(v) THEN v ELSE <<"\"">> \o v \o <<"\"">>

config_value_text(v) ==
    IF "#" \notin ToSet(v) THEN v
    ELSE <<"\"">>
         \o FlattenSeq([i \in DOMAIN v |-> IF v[i] \in {"\\", "\""} THEN <<"\\", v[i]>> ELSE <<v[i]>>])
         \o <<"\"">>

\* inline_comment: what merge_config_text keeps of an old line, quotes or not
inline_comment(raw) ==
    LET s == <<" ">> \o raw
        at == {i \in 1 .. Len(s) - 1 : s[i] = " " /\ s[i + 1] = "#"}
    IN  IF at = {} THEN <<>> ELSE SubSeq(s, CHOOSE i \in at : \A j \in at : i <= j, Len(s))

-----------------------------------------------------------------------------
(* The file. *)

Themes == {"nord", "dark"}
Switch == [on |-> TRUE, off |-> FALSE]
Widths == [w1 |-> 1, w2 |-> 2, w9 |-> 2]      \* w9 is beyond the widest, and clamped

Word(v) == IF Len(v) = 1 THEN v[1] ELSE "?"

Default ==
    [preset |-> "dark", theme |-> "dark", tint |-> "none", restore |-> TRUE, sidebar |-> TRUE,
     confirm |-> TRUE, tabs |-> <<>>, width |-> 1, editor |-> <<"vi">>, sound |-> <<>>, projects |-> <<>>, rule |-> None, bind |-> None]

\* Theme::named: an unknown name, and "custom", are dark.
Named(name) == IF name \in Themes THEN name ELSE "dark"

\* One line read into the Config; what is malformed is passed over.
Read(c, line) ==
    LET v == config_value(line.raw)
        w == Word(v)
    IN  CASE line.key = "theme" ->
               [c EXCEPT !.preset = IF w \in Themes \cup {"custom"} THEN w ELSE "dark",
                         !.theme = Named(w), !.tint = "none"]
          [] line.key = "tint" /\ w \in {"c1", "c2"} -> [c EXCEPT !.preset = "custom", !.tint = w]
          [] line.key \in {"restore", "autosave"} /\ w \in DOMAIN Switch -> [c EXCEPT !.restore = Switch[w]]
          [] line.key = "sidebar" /\ w \in DOMAIN Switch -> [c EXCEPT !.sidebar = Switch[w]]
          [] line.key = "confirm" /\ w \in DOMAIN Switch -> [c EXCEPT !.confirm = Switch[w]]
          [] line.key = "tabs" /\ w \in DOMAIN Switch -> [c EXCEPT !.tabs = <<Switch[w]>>]
          [] line.key = "width" /\ w \in DOMAIN Widths -> [c EXCEPT !.width = Widths[w]]
          [] line.key = "editor" /\ v # <<>> -> [c EXCEPT !.editor = v]
          [] line.key = "sound" -> [c EXCEPT !.sound = Trim(v)]
          [] line.key = "project" /\ v # <<>> /\ v \notin ToSet(c.projects) ->
               [c EXCEPT !.projects = Append(@, v)]
          [] line.key = "rule" /\ v # <<>> -> [c EXCEPT !.rule = v]
          [] line.key = "bind" /\ w = "zoom" -> [c EXCEPT !.bind = v]
          [] OTHER -> c

\* "confirm" once covered Tabs as well, and does until "tabs" is written.
parse(lines) ==
    LET c == FoldLeft(Read, Default, lines)
    IN  IF c.tabs = <<>> THEN [c EXCEPT !.tabs = <<c.confirm>>] ELSE c

SwitchText(b) == <<IF b THEN "on" ELSE "off">>

to_text(c) ==
    <<Line("theme", <<c.preset>>), Line("sidebar", SwitchText(c.sidebar)),
      Line("width", <<IF c.width = 1 THEN "w1" ELSE "w2">>), Line("sound", c.sound),
      Line("confirm", SwitchText(c.confirm)), Line("tabs", SwitchText(c.tabs[1])),
      Line("restore", SwitchText(c.restore)), Line("editor", config_value_text(c.editor))>>
    \o [i \in DOMAIN c.projects |-> Line("project", config_value_text(c.projects[i]))]
    \o (IF c.rule = None THEN <<>> ELSE <<Line("rule", config_value_text(c.rule))>>)
    \o (IF c.bind = None THEN <<>> ELSE <<Line("bind", c.bind)>>)

KeysOf(lines) == {lines[i].key : i \in DOMAIN lines}
Repeated(key) == key = "project"

\* merge_config_text: a line Settings owns is rewritten where it stands, with its
\* remark; every other stays, but for editor rules that are gone; the rest follows.
merge_config_text(existing, settings) ==
    LET kept == SelectSeq(existing, LAMBDA l : /\ ~Repeated(l.key)
                                               /\ l.key = "rule" => "rule" \in KeysOf(settings))
        rewritten(l) ==
          LET at == SelectInSeq(settings, LAMBDA s : s.key = l.key)
          IN  IF at = 0 THEN l ELSE Line(l.key, settings[at].raw \o inline_comment(l.raw))
    IN  [i \in DOMAIN kept |-> rewritten(kept[i])]
        \o SelectSeq(settings, LAMBDA s : Repeated(s.key) \/ s.key \notin KeysOf(kept))

IsDefault(l) == l.key = "default-workspace"

\* merge_default_workspace: the first line of its key is rewritten and any other
\* dropped, or there is a line more at the end
merge_default_workspace(existing, name) ==
    LET at == SelectInSeq(existing, IsDefault)
        new == Line("default-workspace", name)
        rest(s) == SelectSeq(s, LAMBDA l : ~IsDefault(l))
    IN  IF at = 0 THEN Append(existing, new)
        ELSE SubSeq(existing, 1, at - 1) \o <<new>> \o rest(SubSeq(existing, at + 1, Len(existing)))

\* configured_default_workspace: the last line of its key that names a Workspace
configured_default_workspace(lines) ==
    LET value(l) == SelectSeq(Trim(SubSeq(l.raw, 1, Len(l.raw) - Len(inline_comment(l.raw)))),
                              LAMBDA x : x # "\"")
        named == SelectSeq([i \in DOMAIN lines |-> IF IsDefault(lines[i]) THEN value(lines[i]) ELSE <<>>],
                           LAMBDA v : Len(v) = 1 /\ v[1] \in {"a", "b"})
    IN  IF named = <<>> THEN None ELSE Last(named)

\* diagnostics: the places of the lines `ut config check` complains of
diagnostics(lines) ==
    {i \in DOMAIN lines :
        LET v == config_value(lines[i].raw)
            w == Word(v)
            key == lines[i].key
        IN  \/ key \in {"restore", "autosave", "sidebar", "confirm", "tabs"} /\ w \notin DOMAIN Switch
            \/ key = "width" /\ w \notin DOMAIN Widths
            \/ key = "theme" /\ w \notin Themes \cup {"custom"}
            \/ key = "tint" /\ w \notin {"c1", "c2"}
            \/ key \in {"editor", "rule", "project"} /\ v = <<>>
            \/ key = "bind" /\ w # "zoom"
            \/ key = "mine"}

-----------------------------------------------------------------------------
(* Settings saves, and the file is read again. *)

\* apply_settings: one row of Settings at a time; a text is trimmed, an editor
\* may not be empty.
Patched(c) ==
       {[c EXCEPT !.sidebar = ~@]}
    \cup {[c EXCEPT !.restore = ~@]}
    \cup {[c EXCEPT !.confirm = ~@]}
    \cup {[c EXCEPT !.sound = Trim(t)] : t \in Sounds}
    \cup {[c EXCEPT !.width = w] : w \in 1 .. 2}
    \cup {[c EXCEPT !.preset = t, !.theme = t, !.tint = "none"] : t \in Themes}
    \cup {[c EXCEPT !.editor = Trim(t)] : t \in {t \in Texts : Trim(t) # <<>>}}
    \cup {[c EXCEPT !.rule = Trim(t)] : t \in {t \in Texts : Trim(t) # <<>>} \cup {None}}
    \cup {[c EXCEPT !.projects = ps] : ps \in {<<>>, <<<<"a">>>>, <<<<"b">>, <<"a">>>>}}

Save ==
    /\ saves < MaxSaves /\ saves' = saves + 1
    /\ \E c \in Patched(config) :
         config' = c /\ file' = merge_config_text(file, to_text(c))
    /\ UNCHANGED <<began, chosen>>

SaveDefault ==
    /\ saves < MaxSaves /\ saves' = saves + 1
    /\ chosen' = <<"b">>
    /\ file' = merge_default_workspace(file, chosen')
    /\ UNCHANGED <<began, config>>

Init ==
    /\ \E n \in 0 .. MaxLines : file \in [1 .. n -> HandWritten]
    /\ began = file /\ config = parse(file) /\ chosen = None /\ saves = 0

Next == Save \/ SaveDefault

Spec == Init /\ [][Next]_vars

-----------------------------------------------------------------------------
(* Properties. *)

\* What the server runs with is what the next start reads: a setting that was
\* changed is found again, and one that was not is not changed by saving another
\* (to_text, merge_config_text and parse, over any file written by hand).
SettingsSurvive == saves > 0 => parse(file) = config

\* Remarks and keys that Settings does not own stay, in their order, and so does
\* the remark behind a line that it rewrites (merge_config_text).
RestIsKept ==
    LET own == KeysOf(to_text(config)) \cup {"project", "rule", "default-workspace"}
        rest(lines) == SelectSeq(lines, LAMBDA l : l.key \notin own)
        remarks(lines) == SelectSeq([i \in DOMAIN lines |-> inline_comment(lines[i].raw)],
                                    LAMBDA r : r # <<>>)
        lasting(lines) == SelectSeq(lines, LAMBDA l : l.key \notin {"project", "rule", "default-workspace"})
    IN  /\ rest(began) = rest(file)
        /\ remarks(lasting(began)) = remarks(lasting(file))

\* Settings never writes what `ut config check` complains of (diagnostics).
ChecksStayClean == diagnostics(began) = {} => diagnostics(file) = {}

\* The default Workspace that was chosen is the one commands without a name go to,
\* whatever lines for it the file had, and Settings leaves it so.
ChosenIsConfigured == chosen # None => configured_default_workspace(file) = chosen

=============================================================================
