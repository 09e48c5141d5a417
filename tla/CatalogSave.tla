---------------------------- MODULE CatalogSave ----------------------------
(***************************************************************************)
(* The Workspace catalog: the definition that a clean stop leaves behind.  *)
(*                                                                         *)
(* The core sends a definition to the persistence worker unless it believes*)
(* the catalog already ends in it (crates/uniterm-server/src/server/       *)
(* event_projection.rs persist_workspace_definition); the belief comes from*)
(* acknowledgements that arrive later, in order (server/agents.rs).  The   *)
(* requests pass the outbox of OutboxOps and a channel of one slot, so an  *)
(* older definition can be on its way while a newer one is queued.         *)
(***************************************************************************)
EXTENDS OutboxOps

CONSTANTS
  Defs,        \* Workspace definitions
  None,        \* no definition
  Remains,     \* what a failed append leaves in the file: "partial", "whole"
  MaxChanges   \* bound on the checkpoints the core takes

VARIABLES
  def,       \* the live definition
  last,      \* Server.last_catalog_line
  pending,   \* Server.pending_catalog_line
  box,       \* Outbox
  slot,      \* the one-slot request channel
  replies,   \* WorkspaceCatalogSaved replies on their way to the core
  saved,     \* Persistence.saved_catalogs of this Workspace
  failed,    \* this Workspace is in Persistence.failed_catalogs
  file,      \* the latest valid line of the catalog file
  marker,    \* the crash checkpoint exists
  running,   \* Server.running
  sent,      \* history: the last definition sent
  changes    \* number of checkpoints taken

coreVars   == <<def, last, pending, running, sent, changes>>
workerVars == <<saved, failed, file, marker>>
vars       == <<coreVars, box, slot, replies, workerVars>>

AppendMsg(d) == [kind |-> "WorkspaceCatalogAppend", key |-> "workspace", line |-> d]
DeleteMsg    == [kind |-> "SnapshotDelete", key |-> "workspace", line |-> None]

Init ==
  /\ def \in Defs /\ last = None /\ pending = None
  /\ box = EmptyOutbox /\ slot = << >> /\ replies = << >>
  /\ saved = None /\ failed = FALSE /\ file = None
  /\ marker = TRUE /\ running = TRUE /\ sent = None /\ changes = 0

-----------------------------------------------------------------------------
(* The core.                                                               *)

\* AgentRuntime::send: push and flush.
Sent(b, m) == Push(b, m, 1)

Install(b) ==
  /\ box' = Flush(b, slot, TRUE)
  /\ slot' = FlushSlot(b, slot, TRUE)

\* The definition is what the core believes the catalog ends in.
Suppressed(d) == pending = None /\ last = d

\* persist_workspace_definition, for definition d.
PersistDefinition(d, b) ==
  IF Suppressed(d) THEN [box |-> b, pending |-> pending, sent |-> sent]
  ELSE [box |-> Sent(b, AppendMsg(d)), pending |-> d, sent |-> d]

\* The structure changes, or a dirty checkpoint falls due.
Checkpoint ==
  /\ running /\ changes < MaxChanges
  /\ changes' = changes + 1
  /\ def' \in Defs
  /\ LET r == PersistDefinition(def', box)
     IN  Install(r.box) /\ pending' = r.pending /\ sent' = r.sent
  /\ UNCHANGED <<last, running, replies, workerVars>>

\* shutdown: record the definition, then delete the crash checkpoint.
Shutdown ==
  /\ running
  /\ running' = FALSE
  /\ LET r == PersistDefinition(def, box)
     IN  Install(Sent(r.box, DeleteMsg)) /\ pending' = r.pending /\ sent' = r.sent
  /\ UNCHANGED <<def, last, changes, replies, workerVars>>

\* Slip: a failed save enters the deduplication cache too.
CachedEvenOnError(reply) == reply.line

\* Only an acknowledged definition enters the deduplication cache.
Cached(reply) == IF reply.ok THEN reply.line ELSE last

\* The core takes a WorkspaceCatalogSaved reply; a waker event also flushes.
TakeReply ==
  /\ running /\ replies # << >>
  /\ LET reply == Head(replies)
     IN  /\ pending' = IF pending = reply.line THEN None ELSE pending
         /\ last' = Cached(reply)
  /\ replies' = Tail(replies)
  /\ Install(box)
  /\ UNCHANGED <<def, running, sent, changes, workerVars>>

\* A waker event without a reply, or the flush loop of the shutdown.
FlushOnly ==
  /\ box.pending # << >> /\ slot = << >>
  /\ Install(box)
  /\ UNCHANGED <<coreVars, replies, workerVars>>

-----------------------------------------------------------------------------
(* The worker.                                                             *)

Saved(d, ok) == IF ok THEN d ELSE saved

\* What a write of d leaves as the file's latest valid line.  A failed write
\* leaves a partial line, which nobody reads, or, when only the sync failed,
\* the whole line.
Written(d, ok) ==
  IF ok THEN {d}
  ELSE {file : x \in Remains \cap {"partial"}} \cup {d : x \in Remains \cap {"whole"}}

\* append_catalog: an identical line is not written again.
AppendCatalog ==
  /\ slot # << >> /\ Head(slot).kind = "WorkspaceCatalogAppend"
  /\ slot' = << >>
  /\ LET d == Head(slot).line
     IN  \E ok \in BOOLEAN :
           /\ saved = d => ok
           /\ file' \in (IF saved = d THEN {file} ELSE Written(d, ok))
           /\ saved' = Saved(d, ok)
           /\ failed' = ~ok
           /\ replies' = Append(replies, [line |-> d, ok |-> ok])
  /\ UNCHANGED <<coreVars, box, marker>>

\* delete_snapshot: the checkpoint stays when the latest catalog write failed.
DeleteSnapshot ==
  /\ slot # << >> /\ Head(slot).kind = "SnapshotDelete"
  /\ slot' = << >>
  /\ marker' = failed
  /\ UNCHANGED <<coreVars, box, replies, saved, failed, file>>

-----------------------------------------------------------------------------
Next ==
  \/ Checkpoint
  \/ Shutdown
  \/ TakeReply
  \/ FlushOnly
  \/ AppendCatalog
  \/ DeleteSnapshot

Spec == Init /\ [][Next]_vars

-----------------------------------------------------------------------------
(* Properties.                                                             *)

Drained == box.pending = << >> /\ slot = << >>

\* "If the latest catalog save still fails at clean stop, the runtime retains
\* the crash checkpoint": once it is gone, the catalog ends in the definition
\* the core sent last (append_catalog, delete_snapshot).
DeletionNeedsSavedCatalog == (Drained /\ ~marker) => file = sent

\* "Only an acknowledged definition enters the deduplication cache": when no
\* request or reply is on its way, the core believes what the file says, so no
\* needed save is suppressed (persist_workspace_definition).
CacheMatchesFile ==
  (Drained /\ replies = << >> /\ running) => last = file

\* "Workspace catalog writes acknowledge their exact Workspace and definition
\* after a successful flush": the newest acknowledged line ends the file.
AcknowledgedIsWritten ==
  (replies # << >> /\ replies[Len(replies)].ok) => file = replies[Len(replies)].line

\* docs/05-session-persistence.md: a stop "retains its latest Workspace catalog
\* definition", and an in-flight definition "prevents a return to an older
\* layout from being incorrectly suppressed" (persist_workspace_definition).
CleanStopRecordsDefinition == (Drained /\ ~running /\ ~marker) => file = def
=============================================================================
