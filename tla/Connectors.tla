------------------------------ MODULE Connectors ------------------------------
(***************************************************************************)
(* Installing, upgrading and removing an agent's connector (connectors.rs):*)
(* hooks in a configuration file that belongs to the agent and its user,   *)
(* files of our own beside it, and for Codex a switch in a second file.    *)
(* The server, ut and the automatic refresh do it in processes of their    *)
(* own, under one advisory lock; a process can be killed between any two   *)
(* of its writes.  Each write replaces a file whole (write_atomic).        *)
(***************************************************************************)
EXTENDS Naturals, Sequences, FiniteSets, SequencesExt

CONSTANTS Kinds,        \* the shapes of provider that are checked
          Procs,        \* processes that run one operation each
          Ops,          \* what they may run: install, remove, toggle, and the automatic
                        \* refresh with both policies (auto) or one (update)
          Switches,     \* what config.toml may hold at first
          EditAnyTime,  \* whether the user edits also while an operation runs
          MaxEdits, MaxKills

VARIABLES kind,      \* which provider
          cli,       \* the version its command reports: 1, 2, or 0 for neither
          hooks,     \* the shared configuration file
          toml,      \* config.toml, line by line
          own,       \* files of ours: "none", "old" or "new"
          holder,    \* who holds the lock; 0 is nobody
          proc,      \* what each process is at
          users,     \* the user's hooks, as the user left them
          false,     \* operations whose report was not so
          edits, kills

vars == <<kind, cli, hooks, toml, own, holder, proc, users, false, edits, kills>>

-----------------------------------------------------------------------------
(* The shared file: for an event, groups of commands with a matcher.  A    *)
(* flat file (Cursor, Kiro) has one command to a group.                     *)

Events == {"start", "tool"}
Group(match, cmds) == [match |-> match, cmds |-> cmds]
Ours == {"old", "new"}           \* commands with our marker, of an earlier build and of this one

\* The entries this build writes
expected == <<[event |-> "start", match |-> "any", cmd |-> "new"],
              [event |-> "tool", match |-> "any", cmd |-> "new"],
              [event |-> "tool", match |-> "wake", cmd |-> "new"]>>

marked_entries(file) ==
    IF ~file.readable THEN {}
    ELSE UNION {UNION {{[event |-> e, match |-> g.match, cmd |-> c] : c \in ToSet(g.cmds) \cap Ours}
                         : g \in ToSet(file.groups[e])} : e \in Events}

\* marker_status: the marker is looked for in the text, readable or not
Marked(file) == \E e \in Events : \E i \in DOMAIN file.groups[e] : ToSet(file.groups[e][i].cmds) \cap Ours # {}

strip_marked(groups) ==
    [e \in Events |->
       SelectSeq([i \in DOMAIN groups[e] |-> [groups[e][i] EXCEPT !.cmds = SelectSeq(@, LAMBDA c : c \notin Ours)]],
                 LAMBDA g : g.cmds # <<>>)]

\* An entry is added unless a group with its matcher has its command.
Added(groups, x) ==
    IF \E i \in DOMAIN groups[x.event] : groups[x.event][i].match = x.match /\ x.cmd \in ToSet(groups[x.event][i].cmds)
    THEN groups
    ELSE [groups EXCEPT ![x.event] = Append(@, Group(x.match, <<x.cmd>>))]

add_entries(groups) == FoldLeft(Added, groups, expected)

-----------------------------------------------------------------------------
(* config.toml: "features" and "table" are headers, "on" and "off" the     *)
(* hooks key ("on#" and "off#" with a remark), the rest are other lines.    *)

Header == {"features", "features#", "table"}

\* The header a line stands under: 0 before the first
Under(lines, i) == SelectLastInSubSeq(lines, 1, i - 1, LAMBDA l : l \in Header)

\* ensure_hooks_flag: only a line that is exactly [features] is the header.
ensure_hooks_flag(lines) ==
    LET head == SelectInSeq(lines, LAMBDA l : l = "features")
        keyed == {i \in DOMAIN lines : /\ lines[i] \in {"on", "on#", "off", "off#"}
                                       /\ Under(lines, i) # 0 /\ lines[Under(lines, i)] = "features"}
        key == IF keyed = {} THEN 0 ELSE CHOOSE i \in keyed : \A j \in keyed : j <= i
    IN  IF key # 0
        THEN [lines EXCEPT ![key] = CASE @ = "off" -> "on" [] @ = "off#" -> "on#" [] OTHER -> @]
        ELSE IF head # 0 THEN SubSeq(lines, 1, head) \o <<"on">> \o SubSeq(lines, head + 1, Len(lines))
        ELSE lines \o (IF lines # <<>> /\ Last(lines) # "blank" THEN <<"blank">> ELSE <<>>) \o <<"features", "on">>

\* What Codex reads: a table is defined once, and dotted keys define it too.
FeatureHeads(lines) == {i \in DOMAIN lines : lines[i] \in {"features", "features#"}}
Reads(lines) ==
    /\ Cardinality(FeatureHeads(lines)) + Cardinality({i \in DOMAIN lines : lines[i] = "dotted"}) = 1
    /\ \/ \E i \in DOMAIN lines : lines[i] = "dotted"
       \/ \E i \in DOMAIN lines : lines[i] \in {"on", "on#"} /\ Under(lines, i) \in FeatureHeads(lines)

-----------------------------------------------------------------------------
(* status *)

Shared == kind \in {"nested", "codex", "grok", "cursor", "kiro"}
Files == {"global", "legacy", "index", "tui"}

FileStatus(file) ==
    IF ~Marked(file) THEN "absent"
    ELSE IF marked_entries(file) = ToSet(expected) THEN "installed" ELSE "outdated"

KiroStatus(file, mine) ==
    IF FileStatus(file) = "installed" /\ mine["global"] = "new" THEN "installed"
    ELSE IF FileStatus(file) = "installed" \/ mine["global"] # "none" THEN "outdated"
    ELSE FileStatus(file)

OpenCodeStatus(mine) ==
    IF \/ mine["legacy"] = "new" /\ mine["index"] = "none" /\ mine["tui"] = "none"
       \/ mine["legacy"] = "none" /\ mine["index"] = "new" /\ mine["tui"] = "new"
    THEN "installed"
    ELSE IF \E f \in Files : mine[f] # "none" THEN "outdated" ELSE "absent"

PiStatus(mine) == CASE mine["legacy"] = "new" -> "installed" [] mine["legacy"] = "old" -> "outdated" [] OTHER -> "absent"

status(file, mine) ==
    CASE kind = "kiro" -> KiroStatus(file, mine)
      [] kind = "opencode" -> OpenCodeStatus(mine)
      [] kind = "pi" -> PiStatus(mine)
      [] OTHER -> FileStatus(file)

-----------------------------------------------------------------------------
(* What an operation writes, in order *)

Put(f) == [do |-> "put", file |-> f]
Drop(f) == [do |-> "drop", file |-> f]
Merge == [do |-> "merge", file |-> "hooks"]
Strip == [do |-> "strip", file |-> "hooks"]
Flag == [do |-> "flag", file |-> "toml"]
Erase == [do |-> "erase", file |-> "hooks"]
Refuse == [do |-> "refuse", file |-> "hooks"]      \* the version of the command is not known

\* Slip: the switch after the hooks.
CodexStepsFlagLast == <<Merge, Flag>>
CodexSteps == <<Flag, Merge>>

KiroInstall == <<Merge, Put("global")>>
KiroRemove == <<Strip, Drop("global")>>
CursorInstall == <<Merge>>
CursorRemove == <<Strip>>
GrokInstall == <<Merge>>
GrokRemove == <<Erase>>           \* the whole file is ours
PiInstall == <<Put("legacy")>>
PiRemove == <<Drop("legacy")>>
OpenCodeInstall ==
    CASE cli = 1 -> <<Put("legacy"), Drop("index"), Drop("tui")>>
      [] cli = 2 -> <<Put("index"), Put("tui"), Drop("legacy")>>
      [] OTHER -> <<Refuse>>
OpenCodeRemove == <<Drop("legacy"), Drop("index"), Drop("tui")>>

InstallSteps ==
    CASE kind = "codex" -> CodexSteps
      [] kind = "kiro" -> KiroInstall
      [] kind = "cursor" -> CursorInstall
      [] kind = "grok" -> GrokInstall
      [] kind = "pi" -> PiInstall
      [] kind = "opencode" -> OpenCodeInstall
      [] OTHER -> <<Merge>>

RemoveSteps ==
    CASE kind = "kiro" -> KiroRemove
      [] kind = "cursor" -> CursorRemove
      [] kind = "grok" -> GrokRemove
      [] kind = "pi" -> PiRemove
      [] kind = "opencode" -> OpenCodeRemove
      [] OTHER -> <<Strip>>

-----------------------------------------------------------------------------
Idle == [op |-> "none", at |-> "idle", todo |-> <<>>, read |-> <<>>]

\* A user's command alone, together with one of ours of an earlier build, ours alone
Lists == {<<>>, <<Group("any", <<"user">>)>>, <<Group("any", <<"user", "old">>)>>,
          <<Group("any", <<"old">>), Group("wake", <<"user">>)>>, <<Group("any", <<"new">>)>>}
Kept(groups) == [e \in Events |-> SelectSeq([i \in DOMAIN groups[e] |->
                    [groups[e][i] EXCEPT !.cmds = SelectSeq(@, LAMBDA c : c = "user")]], LAMBDA g : g.cmds # <<>>)]

NoFile == [readable |-> TRUE, groups |-> [e \in Events |-> <<>>]]

Init ==
    /\ kind \in Kinds
    /\ cli \in IF kind = "opencode" THEN 0 .. 2 ELSE {0}
    /\ hooks \in IF Shared THEN [readable : BOOLEAN, groups : [Events -> Lists]] ELSE {NoFile}
    /\ kind = "grok" => \A e \in Events : Kept(hooks.groups)[e] = <<>>
    /\ kind \in {"kiro", "cursor"} =>
         \A e \in Events : \A i \in DOMAIN hooks.groups[e] : Len(hooks.groups[e][i].cmds) = 1
    /\ own \in [Files -> {"none", "old", "new"}]
    /\ \A f \in Files : own[f] # "none" => f \in (CASE kind = "kiro" -> {"global"} [] kind = "pi" -> {"legacy"}
                                                    [] kind = "opencode" -> {"legacy", "index", "tui"} [] OTHER -> {})
    /\ kind = "opencode" /\ own["legacy"] # "none" => own["index"] = "none" /\ own["tui"] = "none"
    /\ toml \in IF kind = "codex" THEN Switches ELSE {<<>>}
    /\ kind = "codex" /\ Marked(hooks) => Reads(toml)
    /\ holder = 0 /\ proc = [p \in Procs |-> Idle]
    /\ users = Kept(hooks.groups) /\ false = {} /\ edits = 0 /\ kills = 0

-----------------------------------------------------------------------------
(* A process *)

Now == status(hooks, own)

\* toggle looks first and locks later; a refresh does only what its policies ask.
Wants(op) ==
    CASE op = "toggle" -> IF Now = "installed" THEN "remove" ELSE "install"
      [] OTHER -> op

Choose(p, op) ==
    /\ proc[p].at = "idle" /\ proc[p].op = "none"
    /\ proc' = [proc EXCEPT ![p] = [Idle EXCEPT !.op = Wants(op), !.at = "lock"]]
    /\ UNCHANGED <<kind, cli, hooks, toml, own, holder, users, false, edits, kills>>

LockFree == holder = 0

Steps(op) ==
    CASE op = "remove" -> IF Now = "absent" THEN <<>> ELSE RemoveSteps
      [] op = "auto" -> IF Now = "installed" THEN <<>> ELSE InstallSteps
      [] op = "update" -> IF Now = "outdated" THEN InstallSteps ELSE <<>>
      [] OTHER -> InstallSteps

\* Busy is an error for the user, and nothing for the automatic refresh.
TryLock(p) ==
    /\ proc[p].at = "lock"
    /\ IF LockFree
       THEN /\ holder' = p
            /\ proc' = [proc EXCEPT ![p].at = "work", ![p].todo = Steps(proc[p].op)]
       ELSE proc' = [proc EXCEPT ![p].at = "done"] /\ UNCHANGED holder
    /\ UNCHANGED <<kind, cli, hooks, toml, own, users, false, edits, kills>>

Failed(p) == /\ proc' = [proc EXCEPT ![p].at = "done", ![p].todo = <<>>]
             /\ holder' = IF holder = p THEN 0 ELSE holder

\* The file is read, and what will be written is made of it.  A file that cannot be
\* read ends the operation.
Read(p) ==
    /\ proc[p].at = "work" /\ proc[p].todo # <<>>
    /\ \E s \in {Head(proc[p].todo)} :
         IF s.do = "refuse" \/ (s.do \in {"merge", "strip"} /\ ~hooks.readable) THEN Failed(p)
         ELSE /\ proc' = [proc EXCEPT ![p].at = "write",
                            ![p].read = CASE s.do = "flag" -> <<ensure_hooks_flag(toml)>>
                                          [] s.do = "merge" -> <<add_entries(strip_marked(hooks.groups))>>
                                          [] s.do = "strip" -> <<strip_marked(hooks.groups)>>
                                          [] OTHER -> <<>>]
              /\ UNCHANGED holder
    /\ UNCHANGED <<kind, cli, hooks, toml, own, users, false, edits, kills>>

Write(p) ==
    /\ proc[p].at = "write"
    /\ \E s \in {Head(proc[p].todo)} :
         /\ hooks' = CASE s.do \in {"merge", "strip"} -> [readable |-> TRUE, groups |-> Head(proc[p].read)]
                       [] s.do = "erase" -> NoFile
                       [] OTHER -> hooks
         /\ toml' = IF s.do = "flag" THEN Head(proc[p].read) ELSE toml
         /\ own' = CASE s.do = "put" -> [own EXCEPT ![s.file] = "new"]
                     [] s.do = "drop" -> [own EXCEPT ![s.file] = "none"]
                     [] OTHER -> own
    /\ proc' = [proc EXCEPT ![p].at = "work", ![p].todo = Tail(@), ![p].read = <<>>]
    /\ UNCHANGED <<kind, cli, holder, users, false, edits, kills>>

AsAsked(op) ==
    CASE op = "remove" -> Now = "absent" [] op = "update" -> Now # "outdated" [] OTHER -> Now = "installed"

\* The state reported is read from the files again, and the lock let go.
Report(p) ==
    /\ proc[p].at = "work" /\ proc[p].todo = <<>>
    /\ Failed(p)
    /\ false' = IF AsAsked(proc[p].op) THEN false ELSE false \cup {p}
    /\ UNCHANGED <<kind, cli, hooks, toml, own, users, edits, kills>>

Kill(p) ==
    /\ kills < MaxKills /\ proc[p].at \in {"work", "write"}
    /\ kills' = kills + 1
    /\ Failed(p)
    /\ UNCHANGED <<kind, cli, hooks, toml, own, users, false, edits>>

\* The user, or the agent itself, changes the user's hooks.
Edit ==
    /\ edits < MaxEdits /\ kind \in {"nested", "codex", "cursor", "kiro"} /\ hooks.readable
    /\ EditAnyTime \/ holder = 0
    /\ edits' = edits + 1
    /\ hooks' = [hooks EXCEPT !.groups["tool"] = Append(@, Group("wake", <<"user">>))]
    /\ users' = Kept(hooks'.groups)
    /\ UNCHANGED <<kind, cli, toml, own, holder, proc, false, kills>>

Next ==
    \/ Edit
    \/ \E p \in Procs : \/ \E op \in Ops : Choose(p, op)
                        \/ TryLock(p) \/ Read(p) \/ Write(p) \/ Report(p) \/ Kill(p)

Spec == Init /\ [][Next]_vars

-----------------------------------------------------------------------------
(* Properties. *)

\* Whatever is installed, upgraded, removed or cut short, the user's hooks are those
\* the user left, in their order (strip_marked, add_entries, read_json).
UserHooksKept == Kept(hooks.groups) = users

\* An operation that ends well leaves the connector as asked, whatever state an
\* earlier one was killed in and whoever else is at work (install, remove,
\* auto_update, connector_lock).
ReportsAreTrue == false = {}

\* A connector shows as current only when all it needs is in place: for Codex the
\* switch that makes it read its hooks (install_unlocked, ensure_hooks_flag).
CurrentIsComplete == kind = "codex" /\ Now = "installed" => Reads(toml)

=============================================================================
