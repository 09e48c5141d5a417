------------------------- MODULE WorkspaceLifecycle -------------------------
(***************************************************************************)
(* Starting, stopping, forgetting and importing Workspaces.                *)
(*                                                                         *)
(* `ut NAME`, `ut workspace new|stop|forget` and `ut migrate from-desktop` *)
(* (crates/uniterm-cli/src/lib.rs, startup.rs) are processes that race     *)
(* with one another and with the servers they start and stop               *)
(* (crates/uniterm-server/src/server.rs, server/socket.rs).  What they     *)
(* share is the socket file of a name, the claim on it (WorkspaceLock) and *)
(* its durable files.                                                      *)
(*                                                                         *)
(* A file is the Workspace it belongs to.  Each server and each command is *)
(* a process that runs once.  How one file is written or moved is the      *)
(* business of WorkspaceRename, CatalogSave and Durability.                *)
(***************************************************************************)
EXTENDS Naturals, Sequences, FiniteSets, SequencesExt

CONSTANTS
  Names,        \* Workspace names
  Suffixed,     \* the names unique_workspace_key tries, in order
  Existing,     \* names that have files at first, of stopped Workspaces
  Servers,      \* server processes, 1..n
  Cmds,         \* commands
  Plans,        \* what each command may be asked: [kind, name, own, policy]
  Sources,      \* keys of the Desktop Workspaces a migration imports
  MaxSwitches,  \* bound on the Workspaces one client switches to
  MaxTroubles   \* bound on crashes, failed operations and overrun shutdowns

None == 0

VARIABLES
  sock,      \* the server that bound the socket file of each name
  claim,     \* WorkspaceLock: the process that holds each name
  files,     \* the Workspace each durable file of each name belongs to
  content,   \* Desktop Workspaces each Workspace holds; 0 stands for other work
  srv,       \* servers
  cmd,       \* commands
  born,      \* Workspaces created so far
  forgotten, \* Workspaces removed by a forget
  troubles

vars == <<sock, claim, files, content, srv, cmd, born, forgotten, troubles>>

Kinds == {"snap", "log", "cat"}
Workspaces == 1..(Cardinality(Existing) + Cardinality(Servers))
NoFiles == [k \in Kinds |-> None]

Unborn ==
  [phase |-> "none", name |-> None, wid |-> None, ready |-> FALSE, killed |-> FALSE,
   moving |-> None, flushed |-> FALSE]

Idle ==
  [at |-> "idle", plan |-> [kind |-> "none", name |-> None, own |-> None, policy |-> "none"],
   name |-> None, todo |-> << >>, sent |-> {}, child |-> None, merge |-> FALSE, to |-> None,
   heard |-> FALSE, switches |-> 0, failed |-> FALSE, exit |-> "none"]

Position(S, x) == Cardinality({y \in S : y <= x})

Init ==
  /\ sock = [n \in Names |-> None] /\ claim = [n \in Names |-> None]
  /\ \E crashed \in SUBSET Existing :
       files = [n \in Names |->
         IF n \notin Existing THEN NoFiles
         ELSE [k \in Kinds |-> IF k = "snap" /\ n \notin crashed THEN None ELSE Position(Existing, n)]]
  /\ content = [w \in Workspaces |-> IF w <= Cardinality(Existing) THEN {0} ELSE {}]
  /\ srv = [s \in Servers |-> Unborn] /\ cmd = [c \in Cmds |-> Idle]
  /\ born = Cardinality(Existing) /\ forgotten = {} /\ troubles = 0

HasFiles(n) == files[n] # NoFiles

\* The listener behind a socket file is open until its process has ended.
Listens(s) == s # None /\ srv[s].phase \notin {"none", "spawned", "lingering", "ended"}

\* probe_socket: a listener that does not answer in time proves nothing.
Probe(n) ==
  CASE ~Listens(sock[n]) -> {"stale"}
    [] Listens(sock[n]) /\ srv[sock[n]].phase = "running" -> {"live", "indeterminate"}
    [] OTHER -> {"indeterminate"}

\* workspace_present.
Present(n) == sock[n] # None \/ HasFiles(n)

\* unique_workspace_key.
Unused == {i \in DOMAIN Suffixed : ~Present(Suffixed[i])}
UniqueKey == Suffixed[CHOOSE i \in Unused : \A j \in Unused : i <= j]

Trouble == troubles < MaxTroubles /\ troubles' = troubles + 1

-----------------------------------------------------------------------------
(* A server.                                                               *)

\* The Workspace found under n.
Found(n) ==
  IF files[n]["log"] # None THEN files[n]["log"]
  ELSE IF files[n]["snap"] # None THEN files[n]["snap"] ELSE files[n]["cat"]

\* WorkspaceLock::acquire and bind_workspace_listener.
CannotOwn(n) == claim[n] # None \/ Listens(sock[n])

\* bind_internal: the claim, the listener, then the first Project.
Bind(s) ==
  LET n == srv[s].name
  IN  /\ srv[s].phase = "spawned"
      /\ IF CannotOwn(n)
         THEN srv' = [srv EXCEPT ![s].phase = "ended"] /\ UNCHANGED <<sock, claim, born>>
         ELSE /\ claim' = [claim EXCEPT ![n] = s] /\ sock' = [sock EXCEPT ![n] = s]
              /\ srv' = [srv EXCEPT ![s].phase = "recovering",
                                    ![s].wid = IF HasFiles(n) THEN Found(n) ELSE born + 1]
              /\ born' = IF HasFiles(n) THEN born ELSE born + 1
      /\ UNCHANGED <<files, content, cmd, forgotten, troubles>>

\* recover_workspace, then notify_ready.
Recover(s) ==
  /\ srv[s].phase = "recovering"
  /\ srv' = [srv EXCEPT ![s].phase = "ready", ![s].ready = TRUE]
  /\ UNCHANGED <<sock, claim, files, content, cmd, born, forgotten, troubles>>

RecoverFails(s) ==
  /\ srv[s].phase = "recovering"
  /\ Trouble
  /\ srv' = [srv EXCEPT ![s].phase = "releasing"]
  /\ UNCHANGED <<sock, claim, files, content, cmd, born, forgotten>>

\* run: the first checkpoint, then the event loop answers.
Run(s) ==
  /\ srv[s].phase = "ready"
  /\ files' = [files EXCEPT ![srv[s].name] = [k \in Kinds |-> srv[s].wid]]
  /\ srv' = [srv EXCEPT ![s].phase = "running"]
  /\ UNCHANGED <<sock, claim, content, cmd, born, forgotten, troubles>>

\* shutdown: KillServer is heard; durable writes are frozen.
Shutdown(s) ==
  /\ srv[s].phase = "running" /\ srv[s].killed
  /\ srv' = [srv EXCEPT ![s].phase = "draining"]
  /\ UNCHANGED <<sock, claim, files, content, cmd, born, forgotten, troubles>>

Hung(c, n) == cmd[c].plan.own = n /\ cmd[c].at \notin {"idle", "done"}
Gone(s) == [c \in Cmds |-> IF Hung(c, srv[s].name) THEN [cmd[c] EXCEPT !.at = "done", !.exit = "hangup"] ELSE cmd[c]]

\* Slip: the socket goes while the final flush is still to come.
DrainAndUnlink(s) ==
  /\ srv[s].phase = "draining"
  /\ srv' = [srv EXCEPT ![s].phase = "flushing"]
  /\ cmd' = Gone(s)
  /\ sock' = [sock EXCEPT ![srv[s].name] = None]
  /\ UNCHANGED <<claim, files, content, born, forgotten, troubles>>

\* drain_clients_before_exit and retire_all_ptys: a command that runs in a
\* Pane of this server ends with it.
Drain(s) ==
  /\ srv[s].phase = "draining"
  /\ srv' = [srv EXCEPT ![s].phase = "flushing"]
  /\ cmd' = Gone(s)
  /\ UNCHANGED <<sock, claim, files, content, born, forgotten, troubles>>

Final(s) == [files EXCEPT ![srv[s].name]["cat"] = srv[s].wid, ![srv[s].name]["snap"] = None]

\* The worker has taken the moves of rename_session.
Moved(s) == srv[s].moving # None => ~HasFiles(srv[s].moving)

\* Drop for Server: the worker writes the definition and drops the checkpoint,
\* the claims go, then the socket file.
Flush(s) ==
  /\ srv[s].phase = "flushing" /\ Moved(s)
  /\ files' = Final(s)
  /\ srv' = [srv EXCEPT ![s].phase = "releasing", ![s].flushed = TRUE]
  /\ UNCHANGED <<sock, claim, content, cmd, born, forgotten, troubles>>

Released(s) == [n \in Names |-> IF claim[n] = s THEN None ELSE claim[n]]

Release(s) ==
  /\ srv[s].phase = "releasing"
  /\ claim' = Released(s)
  /\ srv' = [srv EXCEPT ![s].phase = "removing"]
  /\ UNCHANGED <<sock, files, content, cmd, born, forgotten, troubles>>

\* remove_socket_if_unchanged.
Unlinked(s) == IF sock[srv[s].name] = s THEN [sock EXCEPT ![srv[s].name] = None] ELSE sock

RemoveSocket(s) ==
  /\ srv[s].phase = "removing"
  /\ sock' = Unlinked(s)
  /\ srv' = [srv EXCEPT ![s].phase = "ended"]
  /\ UNCHANGED <<claim, files, content, cmd, born, forgotten, troubles>>

\* shutdown_with_bound gives up on the worker; the claims stay with it until
\* the process ends.
Overrun(s) ==
  /\ srv[s].phase = "flushing" /\ Trouble
  /\ sock' = Unlinked(s)
  /\ srv' = [srv EXCEPT ![s].phase = "lingering"]
  /\ UNCHANGED <<claim, files, content, cmd, born, forgotten>>

LingerEnds(s) ==
  /\ srv[s].phase = "lingering"
  /\ files' \in {files} \cup {f \in {Final(s)} : Moved(s)}
  /\ claim' = Released(s)
  /\ srv' = [srv EXCEPT ![s].phase = "ended"]
  /\ UNCHANGED <<sock, content, cmd, born, forgotten, troubles>>

\* The process dies: the claims go with it, the socket file stays.
Crash(s) ==
  /\ srv[s].phase \notin {"none", "ended"} /\ Trouble
  /\ claim' = Released(s)
  /\ cmd' = Gone(s)
  /\ srv' = [srv EXCEPT ![s].phase = "ended"]
  /\ UNCHANGED <<sock, files, content, born, forgotten>>

\* The worker's part of rename_session, and EventRenamed.
MoveFiles(s) ==
  /\ srv[s].phase \in {"running", "draining", "flushing", "lingering"} /\ ~Moved(s)
  /\ files' = [files EXCEPT ![srv[s].name] = files[srv[s].moving], ![srv[s].moving] = NoFiles]
  /\ UNCHANGED <<sock, claim, content, srv, cmd, born, forgotten, troubles>>

Renamed(s) ==
  /\ srv[s].phase = "running" /\ srv[s].moving # None /\ Moved(s)
  /\ claim' = [claim EXCEPT ![srv[s].moving] = None]
  /\ srv' = [srv EXCEPT ![s].moving = None]
  /\ UNCHANGED <<sock, files, content, cmd, born, forgotten, troubles>>

-----------------------------------------------------------------------------
(* Commands.                                                               *)

Goes(c, at) == cmd' = [cmd EXCEPT ![c].at = at]
Ends(c, code) == cmd' = [cmd EXCEPT ![c].at = "done", ![c].exit = IF cmd[c].failed THEN "error" ELSE code]

Shared == <<sock, claim, files, content, born, forgotten, troubles>>

Begin(c, p) ==
  /\ cmd[c].at = "idle"
  /\ cmd' = [cmd EXCEPT ![c].plan = p, ![c].name = p.name,
       ![c].at = CASE p.kind \in {"up", "new", "revive"} -> "probe"
                   [] p.kind = "stop" -> "stop"
                   [] p.kind = "forget" -> "forget"
                   [] p.kind \in {"stopall", "forgetall"} -> "list"
                   [] p.kind = "migrate" -> "import",
       ![c].todo = IF p.kind = "migrate" THEN Sources ELSE << >>]
  /\ UNCHANGED <<Shared, srv>>

\* spawn_detached_server.
Spawned(s, n) == [srv EXCEPT ![s] = [Unborn EXCEPT !.phase = "spawned", !.name = n]]

Spawn(c, n, s) ==
  /\ srv[s].phase = "none"
  /\ srv' = Spawned(s, n)
  /\ cmd' = [cmd EXCEPT ![c].at = "wait", ![c].child = s, ![c].heard = FALSE]
  /\ UNCHANGED Shared

\* cmd_attach needs a socket file.
Attaches(c, n) == IF sock[n] # None THEN Goes(c, "attached") ELSE Ends(c, "error")

\* ensure_workspace_running needs something to revive.
Revivable(n) == files[n]["snap"] # None \/ files[n]["cat"] # None

\* ensure_workspace_available, cmd_new_session and ensure_workspace_running.
Ensure(c, s) ==
  LET n == cmd[c].name
      kind == cmd[c].plan.kind
  IN  /\ cmd[c].at = "probe"
      /\ \E health \in Probe(n) :
           CASE health = "live" ->
                  /\ IF kind = "migrate" THEN Goes(c, "request")
                     ELSE IF kind = "new" THEN Ends(c, "error") ELSE Attaches(c, n)
                  /\ UNCHANGED <<Shared, srv>>
             [] health = "stale" /\ (kind \in {"revive", "migrate"} => Revivable(n)) -> Spawn(c, n, s)
             [] OTHER -> Ends(c, "error") /\ UNCHANGED <<Shared, srv>>

\* wait_for_server: the readiness byte, or both pipes closed.
Wait(c) ==
  /\ cmd[c].at = "wait"
  /\ srv[cmd[c].child].ready \/ srv[cmd[c].child].phase = "ended"
  /\ IF srv[cmd[c].child].ready THEN cmd' = [cmd EXCEPT ![c].at = "heard", ![c].heard = TRUE]
     ELSE Ends(c, "error")
  /\ UNCHANGED <<Shared, srv>>

Heard(c) ==
  /\ cmd[c].at = "heard"
  /\ CASE cmd[c].plan.kind = "migrate" -> Goes(c, "request")
       [] cmd[c].plan.kind = "new" -> Ends(c, "started")
       [] OTHER -> Attaches(c, cmd[c].name)
  /\ UNCHANGED <<Shared, srv>>

\* The loop of cmd_attach: the client asks for another Workspace, or for a
\* migration, or it has ended.
Switch(c, n) ==
  /\ cmd[c].at = "attached" /\ cmd[c].switches < MaxSwitches
  /\ cmd' = [cmd EXCEPT ![c].at = "probe", ![c].plan.kind = "revive", ![c].name = n,
                         ![c].switches = @ + 1, ![c].child = None, ![c].heard = FALSE]
  /\ UNCHANGED <<Shared, srv>>

Detach(c) == cmd[c].at = "attached" /\ Ends(c, "detached") /\ UNCHANGED <<Shared, srv>>

\* kill_server: the message is read when the server's loop gets to it.
Told(n) == [srv EXCEPT ![sock[n]].killed = TRUE]

\* cmd_kill.
Stop(c) ==
  LET n == cmd[c].name
  IN  /\ cmd[c].at = "stop"
      /\ IF Listens(sock[n]) THEN srv' = Told(n) ELSE srv' = srv
      /\ IF Listens(sock[n])
         THEN cmd' = [cmd EXCEPT ![c].at = "stopping", ![c].sent = {<<n, sock[n]>>}]
         ELSE Ends(c, IF sock[n] = None /\ files[n]["cat"] # None THEN "already" ELSE "error")
      /\ UNCHANGED Shared

\* cmd_stop_all: the server that owns this command comes last.
Order(S, own) == SetToSeq(S \ {own}) \o (IF own \in S THEN <<own>> ELSE << >>)

\* remembered_workspace_names.
Remembered == {n \in Names : HasFiles(n)}

\* running_workspace_sockets: the servers that answer; cmd_forget_all refuses
\* when there is one, cmd_stop_all signals them all.
List(c) ==
  /\ cmd[c].at = "list"
  /\ \E live \in SUBSET {n \in Names : "live" \in Probe(n)} :
       IF cmd[c].plan.kind = "stopall"
       THEN cmd' = [cmd EXCEPT ![c].at = "stopping", ![c].todo = Order(live, cmd[c].plan.own)]
       ELSE IF live # {} THEN Ends(c, "error")
       ELSE cmd' = [cmd EXCEPT ![c].at = "forgetall", ![c].todo = SetToSeq(Remembered)]
  /\ UNCHANGED <<Shared, srv>>

SignalNext(c) ==
  LET n == Head(cmd[c].todo)
  IN  /\ cmd[c].at = "stopping" /\ cmd[c].todo # << >>
      /\ IF Listens(sock[n]) THEN srv' = Told(n) ELSE srv' = srv
      /\ cmd' = [cmd EXCEPT ![c].todo = Tail(@), ![c].failed = @ \/ ~Listens(sock[n]),
                             ![c].sent = IF Listens(sock[n]) THEN @ \cup {<<n, sock[n]>>} ELSE @]
      /\ UNCHANGED Shared

\* wait_for_workspace_stop: every socket file has gone, or the deadline passes.
Stopped(c) ==
  /\ cmd[c].at = "stopping" /\ cmd[c].todo = << >>
  /\ \A q \in cmd[c].sent : sock[q[1]] = None
  /\ Ends(c, "stopped")
  /\ UNCHANGED <<Shared, srv>>

StopTimesOut(c) ==
  /\ cmd[c].at = "stopping" /\ cmd[c].todo = << >> /\ Trouble
  /\ Ends(c, "error")
  /\ UNCHANGED <<sock, claim, files, content, born, forgotten, srv>>

\* cmd_forget_all takes the next name.
ForgetNext(c) ==
  /\ cmd[c].at = "forgetall"
  /\ IF cmd[c].todo = << >> THEN Ends(c, "forgot")
     ELSE cmd' = [cmd EXCEPT ![c].at = "forget", ![c].name = Head(cmd[c].todo), ![c].todo = Tail(@)]
  /\ UNCHANGED <<Shared, srv>>

\* A name is done, well or not.
Handled(c, ok) ==
  IF cmd[c].plan.kind = "forgetall"
  THEN cmd' = [cmd EXCEPT ![c].at = "forgetall", ![c].failed = @ \/ ~ok]
  ELSE Ends(c, IF ok THEN "forgot" ELSE "error")

\* forget_stopped_workspace, up to its lock.
Forget(c) ==
  /\ cmd[c].at = "forget"
  /\ \E health \in Probe(cmd[c].name) :
       IF health = "stale" THEN Goes(c, "erase") ELSE Handled(c, FALSE)
  /\ UNCHANGED <<Shared, srv>>

\* lock_stopped_workspace.
Lockable(n) == claim[n] = None

\* Under the lock: the socket file, then the files.
Erase(c) ==
  LET n == cmd[c].name
  IN  /\ cmd[c].at = "erase"
      /\ Handled(c, Lockable(n) /\ HasFiles(n))
      /\ IF Lockable(n) /\ HasFiles(n)
         THEN /\ sock' = [sock EXCEPT ![n] = None]
              /\ files' = [files EXCEPT ![n] = NoFiles]
              /\ forgotten' = forgotten \cup ({files[n][k] : k \in Kinds} \ {None})
         ELSE UNCHANGED <<sock, files, forgotten>>
      /\ UNCHANGED <<claim, content, born, troubles, srv>>

-----------------------------------------------------------------------------
(* ut migrate from-desktop.                                                *)

\* resolve_conflict.
Resolution(c, key) == IF Present(key) THEN cmd[c].plan.policy ELSE "fresh"

\* The loop of run_desktop_migration: a target, and how it is made ready.
Import(c) ==
  LET key == Head(cmd[c].todo)
      policy == Resolution(c, key)
  IN  /\ cmd[c].at = "import" /\ cmd[c].todo # << >>
      /\ policy \in {"rename", "archive"} => Unused # {}
      /\ IF policy = "cancel" THEN Ends(c, "migrated")
         ELSE cmd' = [cmd EXCEPT
                ![c].name = IF policy = "rename" THEN UniqueKey ELSE key,
                ![c].to = IF policy = "archive" THEN UniqueKey ELSE None,
                ![c].merge = policy = "merge",
                ![c].todo = IF policy = "skip" THEN Tail(@) ELSE @,
                ![c].at = CASE policy = "skip" -> "import" [] policy = "merge" -> "probe"
                            [] policy = "archive" -> "archive" [] OTHER -> "fresh"]
      /\ UNCHANGED <<Shared, srv>>

Imported(c) ==
  /\ cmd[c].at = "import" /\ cmd[c].todo = << >>
  /\ Ends(c, "migrated")
  /\ UNCHANGED <<Shared, srv>>

\* start_detached_workspace.
Fresh(c, s) == cmd[c].at = "fresh" /\ Spawn(c, cmd[c].name, s)

\* archive_workspace of a running Workspace: rename_session, which ignores a
\* name that is claimed or taken, and then the wait for its checkpoint.
ArchiveLive(c) ==
  LET old == cmd[c].name  new == cmd[c].to  s == sock[old]
      taken == claim[new] # None \/ Present(new)
  IN  /\ cmd[c].at = "archive" /\ "live" \in Probe(old) /\ srv[s].moving = None
      /\ IF taken THEN Ends(c, "error") /\ UNCHANGED <<sock, claim, srv>>
         ELSE /\ Goes(c, "archiving")
              /\ sock' = [sock EXCEPT ![old] = None, ![new] = s]
              /\ claim' = [claim EXCEPT ![new] = s]
              /\ srv' = [srv EXCEPT ![s].name = new, ![s].moving = old]
      /\ UNCHANGED <<files, content, born, forgotten, troubles>>

Archived(c) ==
  /\ cmd[c].at = "archiving"
  /\ \/ /\ files[cmd[c].to]["snap"] # None /\ files[cmd[c].name]["snap"] = None
        /\ Goes(c, "fresh") /\ UNCHANGED troubles
     \/ Trouble /\ Ends(c, "error")
  /\ UNCHANGED <<sock, claim, files, content, born, forgotten, srv>>

Shift(f, old, new, ks) ==
  [f EXCEPT ![new] = [k \in Kinds |-> IF k \in ks THEN f[old][k] ELSE f[new][k]],
            ![old] = [k \in Kinds |-> IF k \in ks THEN None ELSE f[old][k]]]

\* archive_workspace of a stopped Workspace, under both locks: a log that
\* cannot be moved takes the checkpoint back, a catalog that cannot does not.
ArchiveStopped(c) ==
  LET old == cmd[c].name  new == cmd[c].to
      gone == files[old]["snap"] = None /\ files[old]["cat"] = None
  IN  /\ cmd[c].at = "archive"
      /\ \E health \in Probe(old) \ {"live"} :
           IF health = "indeterminate" \/ ~Lockable(old) \/ ~Lockable(new) \/ gone
           THEN Ends(c, "error") /\ UNCHANGED <<files, troubles>>
           ELSE \/ files' = Shift(files, old, new, Kinds) /\ Goes(c, "fresh") /\ UNCHANGED troubles
                \/ UNCHANGED files /\ Ends(c, "error") /\ Trouble
                \/ files' = Shift(files, old, new, {"snap", "log"}) /\ Ends(c, "split") /\ Trouble
      /\ UNCHANGED <<sock, claim, content, born, forgotten, srv>>

\* import_workspace: a fresh import needs the Workspace to be new.
Answer(c, ok) ==
  LET n == cmd[c].name  s == sock[n]
      i == Len(Sources) - Len(cmd[c].todo) + 1
      fits == cmd[c].merge \/ content[srv[s].wid] = {}
  IN  /\ cmd[c].at = "request" /\ Listens(s) /\ srv[s].phase = "running"
      /\ IF ok THEN fits /\ UNCHANGED troubles ELSE fits => Trouble
      /\ ~ok /\ ~fits => UNCHANGED troubles
      /\ content' = IF ok THEN [content EXCEPT ![srv[s].wid] = @ \cup {i}] ELSE content
      /\ srv' = IF ok \/ cmd[c].merge THEN srv ELSE Told(n)
      /\ IF ok THEN cmd' = [cmd EXCEPT ![c].at = "import", ![c].todo = Tail(@)] ELSE Ends(c, "error")
      /\ UNCHANGED <<sock, claim, files, born, forgotten>>

\* No server, or one that ends before it answers.
NoAnswer(c) ==
  LET s == sock[cmd[c].name]
  IN  /\ cmd[c].at = "request"
      /\ ~Listens(s) \/ (Listens(s) /\ srv[s].phase \notin {"recovering", "ready", "running"})
      /\ Ends(c, "error")
      /\ UNCHANGED <<Shared, srv>>

-----------------------------------------------------------------------------
ServerStep(s) ==
  \/ Bind(s) \/ Recover(s) \/ Run(s) \/ Shutdown(s) \/ Drain(s) \/ Flush(s) \/ Release(s)
  \/ RemoveSocket(s) \/ LingerEnds(s) \/ MoveFiles(s) \/ Renamed(s)

CommandStep(c) ==
  \/ \E s \in Servers : Ensure(c, s) \/ Fresh(c, s)
  \/ Wait(c) \/ Heard(c) \/ Detach(c) \/ (\E n \in Names : Switch(c, n)) \/ Stop(c) \/ List(c) \/ SignalNext(c) \/ Stopped(c)
  \/ ForgetNext(c) \/ Forget(c) \/ Erase(c)
  \/ Import(c) \/ Imported(c) \/ ArchiveLive(c) \/ Archived(c) \/ ArchiveStopped(c)
  \/ (\E ok \in BOOLEAN : Answer(c, ok)) \/ NoAnswer(c)

Next ==
  \/ \E s \in Servers : ServerStep(s) \/ RecoverFails(s) \/ Overrun(s) \/ Crash(s)
  \/ \E c \in Cmds : CommandStep(c) \/ StopTimesOut(c) \/ \E p \in Plans[c] : Begin(c, p)

Spec == Init /\ [][Next]_vars

-----------------------------------------------------------------------------
(* Properties.                                                             *)

\* The servers that may still write durable files.
Works(s) == srv[s].phase \notin {"none", "spawned", "removing", "ended"}

\* docs/05-session-persistence.md: no two servers work on one Workspace, no
\* Workspace that has files loses all of them except by a forget, and one that
\* was forgotten has no server and no file (WorkspaceLock, archive_workspace,
\* forget_stopped_workspace).  An archive whose catalog could not be moved
\* leaves one Workspace under two names.
WorkspacesKept ==
  /\ (\A c \in Cmds : cmd[c].exit # "split") =>
       /\ \A s, t \in Servers : Works(s) /\ Works(t) /\ s # t => srv[s].wid # srv[t].wid
       /\ \A w \in forgotten :
            /\ \A s \in Servers : Works(s) => srv[s].wid # w
            /\ \A n \in Names, k \in Kinds : files[n][k] # w
  /\ \A w \in 1..Cardinality(Existing) : w \in forgotten \/ \E n \in Names, k \in Kinds : files[n][k] = w

\* docs/05-session-persistence.md: stop "waits for their final catalog writes
\* to finish": a server whose stop is reported has written its definition and
\* given up its name, unless it overran its bound, died or was renamed under
\* the command (wait_for_workspace_stop, Drop for Server).
StopMeansStopped ==
  \A c \in Cmds : cmd[c].exit = "stopped" =>
    \A q \in cmd[c].sent : LET s == q[2] IN
      srv[s].name # q[1] \/ troubles > 0 \/ (srv[s].flushed /\ claim[q[1]] # s)

\* docs/05-session-persistence.md: a launcher that reports a started Workspace
\* heard it from a server that has recovered and holds its name
\* (wait_for_server, notify_ready).
LaunchMeansServing ==
  \A c \in Cmds : cmd[c].heard =>
    LET s == cmd[c].child IN
      /\ srv[s].phase \notin {"none", "spawned", "recovering"}
      /\ srv[s].phase \in {"ready", "running"} => sock[srv[s].name] = s /\ claim[srv[s].name] = s

\* "stop its owning server last so that server cannot kill the command before
\* every peer has been signalled" (cmd_stop_all).
PeersFirst ==
  \A c \in Cmds :
    (cmd[c].plan.kind = "stopall" /\ \E q \in cmd[c].sent : q[1] = cmd[c].plan.own) => cmd[c].todo = << >>
=============================================================================
