-------------------------- MODULE WorkspaceRename --------------------------
(***************************************************************************)
(* Names, claims and durable files of Workspaces.                          *)
(*                                                                         *)
(* A server claims the name of its Workspace, and its ordered persistence  *)
(* worker moves the catalog, the event log and the checkpoint when the     *)
(* Workspace is renamed (crates/uniterm-server/src/server.rs, runtime/     *)
(* persistence.rs).  `ut workspace rename` and `ut workspace forget` work  *)
(* on stopped Workspaces (crates/uniterm-cli/src/lib.rs).  Any of these    *)
(* processes can die between two operations on files.                      *)
(*                                                                         *)
(* A log is reduced to the Workspace whose history it holds and to the     *)
(* owner that replaying it yields; the two-part claim (socket and state    *)
(* lock) is one claim.                                                     *)
(***************************************************************************)
EXTENDS Naturals, Sequences, FiniteSets

CONSTANTS
  Names,        \* Workspace names
  Procs,        \* processes: servers and maintenance commands
  None,         \* no file, name, owner or process
  MaxIds,       \* bound on the Workspaces created
  MaxRenames,   \* bound on the renames
  MaxTroubles   \* bound on the processes that die and file operations that fail

VARIABLES
  commands,   \* maintenance commands are used
  claim,      \* WorkspaceLock: the process that holds each name
  sock,       \* names that have a socket file
  log,        \* event log of each name
  cat,        \* catalog of each name
  snap,       \* crash checkpoint of each name
  setAside,   \* Workspaces with a quarantined log
  forgotten,  \* Workspaces that were forgotten
  logged,     \* history: Workspaces that ever had a log
  proc,       \* state of each process
  born,       \* number of Workspaces created
  renames, crashes, failures

files  == <<log, cat, snap>>
counts == <<renames, crashes, failures>>
vars   == <<commands, claim, sock, files, setAside, forgotten, logged, proc, born, counts>>

Op(op, name, new) == [op |-> op, name |-> name, new |-> new]

Off ==
  [phase |-> "off", name |-> None, target |-> None, wid |-> None, queue |-> << >>,
   acks |-> << >>, pend |-> {}, poisoned |-> {}, failed |-> {}]

Init ==
  /\ commands \in BOOLEAN
  /\ claim = [n \in Names |-> None] /\ sock = {}
  /\ log = [n \in Names |-> None] /\ cat = [n \in Names |-> None] /\ snap = [n \in Names |-> None]
  /\ setAside = {} /\ forgotten = {} /\ logged = {}
  /\ proc = [p \in Procs |-> Off] /\ born = 0
  /\ renames = 0 /\ crashes = 0 /\ failures = 0

HasFiles(n) == log[n] # None \/ cat[n] # None \/ snap[n] # None
Listening(n) == \E p \in Procs : proc[p].phase \in {"running", "stopping"} /\ proc[p].name = n

\* Every claim of p is released.
Released(p) == [n \in Names |-> IF claim[n] = p THEN None ELSE claim[n]]

-----------------------------------------------------------------------------
(* The server's core.                                                      *)

\* persist: the definition, the structural event and the checkpoint.
Persist(n) == <<Op("AppendCatalog", n, None), Op("AppendEvent", n, None), Op("SaveSnapshot", n, None)>>

\* repair_consistent_prefix: the log replays to the name it is found under.
Accepted(n) == log[n] # None => log[n].owner = n

\* The Workspace that starting under n continues, or a new one.
Continued(n) ==
  IF Accepted(n) /\ log[n] # None THEN log[n].wid
  ELSE IF Accepted(n) /\ snap[n] # None THEN snap[n]
  ELSE cat[n]

\* bind_internal and recover_workspace; a refused log is set aside with its
\* checkpoint, a stale socket is replaced.
Start(p, n) ==
  /\ proc[p].phase = "off" /\ claim[n] = None
  /\ Continued(n) # None \/ born < MaxIds
  /\ claim' = [claim EXCEPT ![n] = p]
  /\ sock' = sock \cup {n}
  /\ born' = IF Continued(n) = None THEN born + 1 ELSE born
  /\ setAside' = IF Accepted(n) THEN setAside ELSE setAside \cup {log[n].wid}
  /\ log' = IF Accepted(n) THEN log ELSE [log EXCEPT ![n] = None]
  /\ snap' = IF Accepted(n) THEN snap ELSE [snap EXCEPT ![n] = None]
  /\ proc' = [proc EXCEPT ![p] =
       [Off EXCEPT !.phase = "running", !.name = n, !.queue = Persist(n),
                   !.wid = IF Continued(n) = None THEN born + 1 ELSE Continued(n)]]
  /\ UNCHANGED <<cat, forgotten, logged, counts>>

\* Slip: the log is moved without the record that hands it over.
MoveUnrecorded(old, new) ==
  <<Op("DeleteSnapshot", old, None), Op("RenameCatalog", old, new), Op("RenameEvents", old, new)>>

\* What rename_session asks of the worker before it persists the new name.
Moves(old, new) ==
  <<Op("DeleteSnapshot", old, None), Op("RenameCatalog", old, new),
    Op("AppendEvent", old, new), Op("RenameEvents", old, new)>>

Taken(new) == new \in sock \/ HasFiles(new)

\* The old name stays claimed until the log has moved.
ClaimsHeld(p, old, new) == [claim EXCEPT ![new] = p]

\* rename_session: ignored when the name is unchanged, claimed or taken.
RenameSession(p, new) ==
  LET old == proc[p].name
  IN  /\ proc[p].phase = "running" /\ new # old /\ renames < MaxRenames
      /\ claim[new] = None /\ ~Taken(new)
      /\ claim' = ClaimsHeld(p, old, new)
      /\ sock' = (sock \ {old}) \cup {new}
      /\ proc' = [proc EXCEPT ![p].name = new,
                              ![p].queue = @ \o Moves(old, new) \o Persist(new),
                              ![p].pend = @ \cup {<<old, new>>}]
      /\ renames' = renames + 1
      /\ UNCHANGED <<files, setAside, forgotten, logged, born, crashes, failures>>

Success(ack) == ack.ok

\* EventRenamed: the exact success releases the old name's claim.
TakeAck(p) ==
  /\ proc[p].phase = "running" /\ proc[p].acks # << >>
  /\ LET ack == Head(proc[p].acks)
         done == <<ack.old, ack.new>> \in proc[p].pend /\ Success(ack)
     IN  /\ proc' = [proc EXCEPT ![p].acks = Tail(@),
                                 ![p].pend = IF done THEN @ \ {<<ack.old, ack.new>>} ELSE @]
         /\ claim' = IF done THEN [claim EXCEPT ![ack.old] = None] ELSE claim
  /\ UNCHANGED <<sock, files, setAside, forgotten, logged, born, counts>>

\* shutdown: the definition, then the deletion of the checkpoint.
Stop(p) ==
  /\ proc[p].phase = "running"
  /\ proc' = [proc EXCEPT ![p].phase = "stopping",
       ![p].queue = @ \o <<Op("AppendCatalog", proc[p].name, None), Op("DeleteSnapshot", proc[p].name, None)>>]
  /\ UNCHANGED <<claim, sock, files, setAside, forgotten, logged, born, counts>>

\* Drop: the worker has drained, the claims and the socket go.
Exit(p) ==
  /\ proc[p].phase = "stopping" /\ proc[p].queue = << >>
  /\ claim' = Released(p)
  /\ sock' = sock \ {proc[p].name}
  /\ proc' = [proc EXCEPT ![p] = Off]
  /\ UNCHANGED <<files, setAside, forgotten, logged, born, counts>>

\* A process dies, or a stop's bounded wait ends with work left.
Die(p) ==
  /\ proc[p].phase # "off" /\ crashes + failures < MaxTroubles
  /\ crashes' = crashes + 1
  /\ claim' = Released(p)
  /\ sock' \in {sock, IF proc[p].phase = "stopping" THEN sock \ {proc[p].name} ELSE sock}
  /\ proc' = [proc EXCEPT ![p] = Off]
  /\ UNCHANGED <<files, setAside, forgotten, logged, born, renames, failures>>

-----------------------------------------------------------------------------
(* Maintenance of stopped Workspaces.                                      *)

\* `ut workspace rename`, before its locks: old is stopped, new is unused.
CheckStopped(p, old, new) ==
  /\ commands /\ proc[p].phase = "off" /\ old # new /\ renames < MaxRenames
  /\ ~Listening(old) /\ cat[old] # None
  /\ ~Taken(new)
  /\ proc' = [proc EXCEPT ![p] = [Off EXCEPT !.phase = "checked", !.name = old, !.target = new]]
  /\ renames' = renames + 1
  /\ UNCHANGED <<claim, sock, files, setAside, forgotten, logged, born, crashes, failures>>

\* It locks both names and moves the checkpoint, the log and the catalog.
LockStopped(p) ==
  LET old == proc[p].name  new == proc[p].target
  IN  /\ proc[p].phase = "checked"
      /\ IF claim[old] = None /\ claim[new] = None
         THEN /\ claim' = [claim EXCEPT ![old] = p, ![new] = p]
              /\ proc' = [proc EXCEPT ![p].phase = "command", ![p].queue =
                   (IF snap[old] = None THEN << >> ELSE <<Op("RenameSnapshot", old, new)>>) \o
                   (IF log[old] = None THEN << >> ELSE <<Op("RenameEvents", old, new)>>) \o
                   <<Op("RenameCatalog", old, new)>>]
         ELSE /\ claim' = claim
              /\ proc' = [proc EXCEPT ![p] = Off]
      /\ UNCHANGED <<sock, files, setAside, forgotten, logged, born, counts>>

\* `ut workspace forget`.
ForgetStopped(p, n) ==
  /\ commands /\ proc[p].phase = "off" /\ ~Listening(n) /\ claim[n] = None /\ HasFiles(n)
  /\ claim' = [claim EXCEPT ![n] = p]
  /\ sock' = sock \ {n}
  /\ proc' = [proc EXCEPT ![p] = [Off EXCEPT !.phase = "command", !.name = n, !.queue =
       <<Op("DeleteCatalog", n, None), Op("DeleteSnapshot", n, None), Op("DeleteEvents", n, None)>>]]
  /\ UNCHANGED <<files, setAside, forgotten, logged, born, counts>>

CommandEnds(p) ==
  /\ proc[p].phase = "command" /\ proc[p].queue = << >>
  /\ claim' = Released(p)
  /\ proc' = [proc EXCEPT ![p] = Off]
  /\ UNCHANGED <<sock, files, setAside, forgotten, logged, born, counts>>

-----------------------------------------------------------------------------
(* File operations, in the order they were asked for.                      *)

\* p's next operation is op; ok tells whether it succeeds.  A command gives up
\* at its first failure.
Takes(p, op, ok) ==
  /\ proc[p].queue # << >> /\ Head(proc[p].queue).op = op
  /\ IF ok THEN failures' = failures ELSE crashes + failures < MaxTroubles /\ failures' = failures + 1
  /\ UNCHANGED <<claim, sock, setAside, born, renames, crashes>>

Rest(p, ok) == IF proc[p].phase = "command" /\ ~ok THEN << >> ELSE Tail(proc[p].queue)

\* The log after a record of Workspace w written under o.name; a record of
\* another owner makes it unreadable.
Appended(l, o, w) ==
  LET f == IF l = None THEN [wid |-> w, owner |-> o.name] ELSE l
  IN  [f EXCEPT !.owner = IF @ # o.name THEN None ELSE IF o.new = None THEN @ ELSE o.new]

\* append_event: a poisoned log takes nothing, a failure poisons it.
AppendEvent(p, ok) ==
  LET o == Head(proc[p].queue)
      refused == o.name \in proc[p].poisoned
  IN  /\ Takes(p, "AppendEvent", ok)
      /\ refused => ok
      /\ log' = IF ok /\ ~refused THEN [log EXCEPT ![o.name] = Appended(@, o, proc[p].wid)] ELSE log
      /\ logged' = IF ok /\ ~refused THEN logged \cup {proc[p].wid} ELSE logged
      /\ proc' = [proc EXCEPT ![p].queue = Rest(p, ok),
                              ![p].poisoned = IF ok THEN @ ELSE @ \cup {o.name}]
      /\ UNCHANGED <<cat, snap, forgotten>>

\* rename_events: a failure may come before or after the file has moved; a log
\* that does not exist cannot be moved.
RenameEvents(p, ok) ==
  LET o == Head(proc[p].queue)
      moved == [log EXCEPT ![o.new] = log[o.name], ![o.name] = None]
      bad == o.name \in proc[p].poisoned
  IN  /\ Takes(p, "RenameEvents", ok)
      /\ ok => log[o.name] # None
      /\ log' \in (IF ok THEN {moved} ELSE IF log[o.name] = None THEN {log} ELSE {log, moved})
      /\ proc' = [proc EXCEPT ![p].queue = Rest(p, ok),
           ![p].acks = Append(@, [old |-> o.name, new |-> o.new, ok |-> ok]),
           ![p].poisoned = IF ~ok THEN @ \cup {o.new}
                           ELSE IF bad THEN (@ \ {o.name}) \cup {o.new} ELSE @]
      /\ UNCHANGED <<cat, snap, logged, forgotten>>

\* A log that was never written cannot be moved, without an operation failing.
NothingToMove(p) ==
  LET o == Head(proc[p].queue)
  IN  /\ proc[p].queue # << >> /\ o.op = "RenameEvents" /\ log[o.name] = None
      /\ proc' = [proc EXCEPT ![p].queue = Rest(p, FALSE),
           ![p].acks = Append(@, [old |-> o.name, new |-> o.new, ok |-> FALSE]),
           ![p].poisoned = @ \cup {o.new}]
      /\ UNCHANGED <<claim, sock, files, setAside, forgotten, logged, born, counts>>

\* save_snapshot: skipped for a poisoned log.
SaveSnapshot(p, ok) ==
  LET n == Head(proc[p].queue).name
  IN  /\ Takes(p, "SaveSnapshot", ok)
      /\ n \in proc[p].poisoned => ok
      /\ snap' = IF ok /\ n \notin proc[p].poisoned THEN [snap EXCEPT ![n] = proc[p].wid] ELSE snap
      /\ proc' = [proc EXCEPT ![p].queue = Rest(p, ok)]
      /\ UNCHANGED <<log, cat, logged, forgotten>>

\* delete_snapshot: kept while the catalog is behind.
DeleteSnapshot(p) ==
  LET n == Head(proc[p].queue).name
  IN  /\ Takes(p, "DeleteSnapshot", TRUE)
      /\ snap' = IF n \in proc[p].failed THEN snap ELSE [snap EXCEPT ![n] = None]
      /\ proc' = [proc EXCEPT ![p].queue = Rest(p, TRUE)]
      /\ UNCHANGED <<log, cat, logged, forgotten>>

\* append_catalog.
AppendCatalog(p, ok) ==
  LET n == Head(proc[p].queue).name
  IN  /\ Takes(p, "AppendCatalog", ok)
      /\ cat' = IF ok THEN [cat EXCEPT ![n] = proc[p].wid] ELSE cat
      /\ proc' = [proc EXCEPT ![p].queue = Rest(p, ok),
                              ![p].failed = IF ok THEN @ \ {n} ELSE @ \cup {n}]
      /\ UNCHANGED <<log, snap, logged, forgotten>>

\* rename_catalog: a missing catalog is no error.
RenameCatalog(p, ok) ==
  LET o == Head(proc[p].queue)
      behind == o.name \in proc[p].failed \/ ~ok
  IN  /\ Takes(p, "RenameCatalog", ok)
      /\ cat' = IF ok /\ cat[o.name] # None
                THEN [cat EXCEPT ![o.new] = cat[o.name], ![o.name] = None] ELSE cat
      /\ proc' = [proc EXCEPT ![p].queue = Rest(p, ok),
                              ![p].failed = IF behind THEN (@ \ {o.name}) \cup {o.new} ELSE @]
      /\ UNCHANGED <<log, snap, logged, forgotten>>

\* The operations only commands ask for.
RenameSnapshot(p, ok) ==
  LET o == Head(proc[p].queue)
  IN  /\ Takes(p, "RenameSnapshot", ok)
      /\ snap' = IF ok THEN [snap EXCEPT ![o.new] = snap[o.name], ![o.name] = None] ELSE snap
      /\ proc' = [proc EXCEPT ![p].queue = Rest(p, ok)]
      /\ UNCHANGED <<log, cat, logged, forgotten>>

DeleteCatalog(p, ok) ==
  /\ Takes(p, "DeleteCatalog", ok)
  /\ cat' = IF ok THEN [cat EXCEPT ![Head(proc[p].queue).name] = None] ELSE cat
  /\ proc' = [proc EXCEPT ![p].queue = Rest(p, ok)]
  /\ UNCHANGED <<log, snap, logged, forgotten>>

DeleteEvents(p, ok) ==
  LET n == Head(proc[p].queue).name
  IN  /\ Takes(p, "DeleteEvents", ok)
      /\ log' = IF ok THEN [log EXCEPT ![n] = None] ELSE log
      /\ forgotten' = IF ok /\ log[n] # None THEN forgotten \cup {log[n].wid} ELSE forgotten
      /\ proc' = [proc EXCEPT ![p].queue = Rest(p, ok)]
      /\ UNCHANGED <<cat, snap, logged>>

-----------------------------------------------------------------------------
FileOperation(p) ==
  \/ \E ok \in BOOLEAN :
       \/ AppendEvent(p, ok) \/ RenameEvents(p, ok) \/ SaveSnapshot(p, ok)
       \/ AppendCatalog(p, ok) \/ RenameCatalog(p, ok) \/ RenameSnapshot(p, ok)
       \/ DeleteCatalog(p, ok) \/ DeleteEvents(p, ok)
  \/ DeleteSnapshot(p)
  \/ NothingToMove(p)

Step ==
  \E p \in Procs :
    \/ \E n \in Names : Start(p, n) \/ RenameSession(p, n) \/ ForgetStopped(p, n)
    \/ \E old, new \in Names : CheckStopped(p, old, new)
    \/ TakeAck(p) \/ Stop(p) \/ Exit(p) \/ Die(p)
    \/ LockStopped(p) \/ CommandEnds(p)
    \/ FileOperation(p)

Next == Step /\ UNCHANGED commands

Spec == Init /\ [][Next]_vars

-----------------------------------------------------------------------------
(* Properties.                                                             *)

\* docs/05-session-persistence.md: no other process can operate on the durable
\* files of a live Workspace.  Every name a process has still to touch, and
\* the name it runs under, is claimed by it (rename_session, EventRenamed).
WorkIsClaimed ==
  \A p \in Procs :
    /\ proc[p].phase \in {"running", "stopping"} => claim[proc[p].name] = p
    /\ \A i \in 1..Len(proc[p].queue) :
         LET o == proc[p].queue[i]
         IN  claim[o.name] = p /\ (o.new # None => claim[o.new] = p)

Undisturbed == crashes = 0 /\ failures = 0

\* "The snapshot and event log follow" a rename: when the worker has nothing
\* left to do and nothing failed, the server's files carry its Workspace and
\* no other name keeps one of them (rename_session).
FilesFollowName ==
  (Undisturbed /\ ~commands) => \A p \in Procs :
    (proc[p].phase = "running" /\ proc[p].queue = << >>) =>
      /\ log[proc[p].name] # None /\ log[proc[p].name].wid = proc[p].wid
      /\ cat[proc[p].name] = proc[p].wid /\ snap[proc[p].name] = proc[p].wid
      /\ \A n \in Names \ {proc[p].name} :
           /\ cat[n] # proc[p].wid /\ snap[n] # proc[p].wid
           /\ log[n] # None => log[n].wid # proc[p].wid

\* A log, once written, is found under a name or set aside until the Workspace
\* is forgotten: no live rename, crash or failure loses it (rename_events).
HistoryKept ==
  ~commands => \A w \in logged :
    \/ w \in setAside \cup forgotten
    \/ \E n \in Names : log[n] # None /\ log[n].wid = w

\* Live renames, however many and in whatever order with stops and starts,
\* leave a log that the next start accepts (rename_session, recover_workspace).
RenamedStreamIsRead == (Undisturbed /\ ~commands) => setAside = {}

\* docs/05-session-persistence.md: "The event stream is retained across an
\* intentional stop": no start sets one aside when nothing failed or crashed
\* (recover_workspace).
StreamOutlivesStop == Undisturbed => setAside = {}
=============================================================================
