----------------------------- MODULE Durability -----------------------------
(***************************************************************************)
(* Event log, checkpoint and crash of one Workspace.                       *)
(*                                                                         *)
(* The core records events and checkpoints in memory and sends both to the *)
(* ordered persistence worker (crates/uniterm-server/src/runtime/          *)
(* persistence.rs) through the outbox; the worker appends, syncs, saves    *)
(* and deletes one operation at a time; every operation may fail, the      *)
(* process may die, the machine may lose power, and the next start repairs *)
(* the log and rebuilds the Workspace from checkpoint and log suffix       *)
(* (server/event_projection.rs, eventlog.rs, persist.rs).                  *)
(*                                                                         *)
(* The structure of the Workspace is one of Shapes.  A record of the log   *)
(* is its sequence number and its event.                                   *)
(***************************************************************************)
EXTENDS Integers, Sequences

CONSTANTS
  Shapes,      \* the structures a Workspace can have
  None,        \* no event, no checkpoint
  MaxSeq,      \* bound on the sequence numbers
  MaxQueue,    \* bound on the messages on their way to the worker
  MaxCrashes   \* bound on the crashes

ASSUME DurabilityBounds == MaxSeq \in Nat /\ MaxQueue \in Nat /\ MaxCrashes \in Nat

VARIABLES
  phase,     \* "up", "stopping" (shutdown has run, the loop drains), "stopped", "crashed"
  shape,     \* the live structure
  unavail,   \* some restored Pane is unavailable (Pane.recovery)
  seq,       \* EventLog.current_sequence
  lastEv,    \* EventLog.last
  writes,    \* Server.event_writes_enabled
  queue,     \* CoreToAgent messages on their way, oldest first
  poisoned,  \* the Workspace is in Persistence.poisoned_event_logs
  log,       \* the complete records of the log file
  torn,      \* the file ends in a partial record
  synced,    \* how many records are known to be on stable storage
  snap,      \* the checkpoint file, or None
  acked,     \* history: sequences of timeline entries acknowledged as stored
  kept,      \* history: the deletion of the last stop did not happen
  crashes    \* history: number of crashes so far

core == <<phase, shape, unavail, seq, lastEv, writes>>
disk == <<log, torn, synced, snap>>
vars == <<core, queue, poisoned, disk, acked, kept, crashes>>

Projected(s) == [kind |-> "WorkspaceProjected", shape |-> s]
Note         == [kind |-> "TimelineNote", shape |-> None]
Status       == [kind |-> "AgentStatus", shape |-> None]

ASSUME NoneIsNoEvent ==
  None \notin {Projected(s) : s \in Shapes} \cup {Note, Status}

AppendMsg(n, event)  == [kind |-> "EventAppend", n |-> n, event |-> event]
SaveMsg(n, s)        == [kind |-> "SnapshotSave", n |-> n, event |-> Projected(s)]
DeleteMsg            == [kind |-> "SnapshotDelete", n |-> 0, event |-> Status]

Init ==
  /\ phase = "stopped" /\ shape \in Shapes /\ unavail = FALSE
  /\ seq = 0 /\ lastEv = None /\ writes = FALSE
  /\ queue = << >> /\ poisoned = FALSE
  /\ log = << >> /\ torn = FALSE /\ synced = 0 /\ snap = None
  /\ acked = {} /\ kept = FALSE /\ crashes = 0

-----------------------------------------------------------------------------
(* The core.                                                               *)

\* EventLog::record drops a repetition of the previous event, except notes.
Repeats(event, previous) == event = previous /\ event # Note

\* What record leaves of the queue, the sequence and the last event.
Recorded(event, q, n, previous) ==
  IF Repeats(event, previous) THEN [q |-> q, n |-> n, last |-> previous]
  ELSE [q |-> Append(q, AppendMsg(n + 1, event)), n |-> n + 1, last |-> event]

RemoveIndex(q, i) == SubSeq(q, 1, i - 1) \o SubSeq(q, i + 1, Len(q))

\* The queued checkpoint that a newer one supersedes; 0 when there is none, or
\* when a deletion follows it.
QueuedSave(q) ==
  LET saves == {i \in 1 .. Len(q) : /\ q[i].kind = "SnapshotSave"
                                    /\ \A j \in i + 1 .. Len(q) : q[j].kind = "EventAppend"}
  IN  IF saves = {} THEN 0 ELSE CHOOSE i \in saves : TRUE

\* Outbox: the queued checkpoint leaves and the new one joins at the back.  The
\* first message may already be in the channel, where nothing replaces it.
EnqueueSave(q, m) ==
  LET i == QueuedSave(q)
  IN  (IF i > 0 THEN {Append(RemoveIndex(q, i), m)} ELSE {})
        \cup (IF i < 2 THEN {Append(q, m)} ELSE {})

\* append_event, then the checkpoint that names the sequence it reached.
PersistSnapshot(s, q, n, previous) ==
  LET r == Recorded(Projected(s), q, n, previous)
  IN  /\ queue' \in EnqueueSave(r.q, SaveMsg(r.n, s))
      /\ seq' = r.n
      /\ lastEv' = r.last

Room(k) == seq + k <= MaxSeq /\ Len(queue) + 2 * k <= MaxQueue

\* An event that changes no structure: a status, or a timeline note.
Record(event) ==
  LET r == Recorded(event, queue, seq, lastEv)
  IN  /\ phase = "up" /\ writes /\ Room(1)
      /\ queue' = r.q /\ seq' = r.n /\ lastEv' = r.last
      /\ UNCHANGED <<phase, shape, unavail, writes, poisoned, disk, acked, kept, crashes>>

\* Slip: persist does not look at event_writes_enabled.
PersistAlways ==
  /\ phase \in {"up", "stopping"} /\ Room(1)
  /\ shape' \in Shapes
  /\ PersistSnapshot(shape', queue, seq, lastEv)
  /\ UNCHANGED <<phase, unavail, writes, poisoned, disk, acked, kept, crashes>>

\* The structure changes, or a dirty checkpoint falls due, possibly in the
\* poll batch that follows the shutdown.
Persist ==
  /\ phase \in {"up", "stopping"} /\ writes /\ Room(1)
  /\ shape' \in Shapes
  /\ PersistSnapshot(shape', queue, seq, lastEv)
  /\ UNCHANGED <<phase, unavail, writes, poisoned, disk, acked, kept, crashes>>

\* The last unavailable Pane is retried successfully, and persisted.
RetryPane ==
  /\ phase = "up" /\ unavail /\ Room(1)
  /\ unavail' = FALSE
  /\ PersistSnapshot(shape, queue, seq, lastEv)
  /\ UNCHANGED <<phase, shape, writes, poisoned, disk, acked, kept, crashes>>

\* shutdown: unavailable Panes keep a checkpoint that is stripped of the rest;
\* otherwise the checkpoint is deleted.  Durable writes are frozen.
Shutdown ==
  /\ phase = "up" /\ Room(1)
  /\ phase' = "stopping"
  /\ writes' = FALSE
  /\ IF unavail
     THEN \E stripped \in Shapes : PersistSnapshot(stripped, queue, seq, lastEv)
     ELSE /\ queue' = Append(queue, DeleteMsg)
          /\ UNCHANGED <<seq, lastEv>>
  /\ UNCHANGED <<shape, unavail, poisoned, disk, acked, kept, crashes>>

\* The runtime has been joined with nothing left to do.
Exit ==
  /\ phase = "stopping" /\ queue = << >>
  /\ phase' = "stopped"
  /\ UNCHANGED <<shape, unavail, seq, lastEv, writes, queue, poisoned, disk, acked, kept, crashes>>

-----------------------------------------------------------------------------
(* The persistence worker.                                                 *)

Running == phase \in {"up", "stopping"}

Next1 == queue # << >> /\ Running

TakeKind(kind) == Next1 /\ Head(queue).kind = kind /\ queue' = Tail(queue)

\* "The durable stream is frozen at its last consistent prefix."
AppendRefused == poisoned

\* "The event stream has an unrecorded sequence."
SaveRefused == poisoned

\* Slip: no record is synced by itself.
SyncedByAppendNot(event) == synced

\* A timeline record is synced before it is acknowledged.
SyncedByAppend(event) == IF event = Note THEN Len(log) + 1 ELSE synced

\* append_event: the record is written, and synced when it belongs to the
\* timeline; a failure leaves nothing, a partial or a whole record behind and
\* freezes the stream.
AppendEvent ==
  LET m == Head(queue)
      written == Append(log, [n |-> m.n, event |-> m.event])
  IN  /\ TakeKind("EventAppend")
      /\ \/ /\ AppendRefused
            /\ UNCHANGED <<poisoned, log, torn, synced, acked>>
         \/ /\ ~AppendRefused
            /\ log' = written
            /\ synced' = SyncedByAppend(m.event)
            /\ acked' = IF m.event = Note THEN acked \cup {m.n} ELSE acked
            /\ UNCHANGED <<poisoned, torn>>
         \/ /\ ~AppendRefused
            /\ poisoned' = TRUE
            /\ \/ log' = log /\ torn' \in BOOLEAN
               \/ m.event = Note /\ log' = written /\ torn' = torn
            /\ UNCHANGED <<synced, acked>>
      /\ UNCHANGED <<core, snap, kept, crashes>>

\* Slip: the checkpoint is published without syncing the log first.
SyncedForSaveNot == synced

\* What eventlog::sync leaves behind.
SyncedForSave == Len(log)

\* save_snapshot: sync the log, then replace the checkpoint; either may fail,
\* and the replacement may be in place although its directory sync failed.
SaveSnapshot ==
  LET m == Head(queue)
  IN  /\ TakeKind("SnapshotSave")
      /\ \/ UNCHANGED <<synced, snap>>
         \/ /\ ~SaveRefused
            /\ synced' = SyncedForSave
            /\ snap' \in {snap, [n |-> m.n, shape |-> m.event.shape]}
      /\ UNCHANGED <<core, poisoned, log, torn, acked, kept, crashes>>

\* delete_snapshot: refused when the latest catalog write has failed, and a
\* failure to remove the file is ignored.
DeleteSnapshot ==
  /\ TakeKind("SnapshotDelete")
  /\ \/ snap' = None /\ kept' = FALSE
     \/ snap' = snap /\ kept' = TRUE
  /\ UNCHANGED <<core, poisoned, log, torn, synced, acked, crashes>>

-----------------------------------------------------------------------------
(* Crash and recovery.                                                     *)

\* The process dies: what was written stays, a record may be cut short.
ProcessDies ==
  /\ Running /\ crashes < MaxCrashes
  /\ torn' \in {torn, TRUE}
  /\ log' = log
  /\ UNCHANGED <<synced, snap>>

\* The machine loses power: of the records not synced, any prefix stays.
PowerLost ==
  /\ crashes < MaxCrashes
  /\ \E keep \in synced .. Len(log) : log' = SubSeq(log, 1, keep)
  /\ torn' \in BOOLEAN
  /\ UNCHANGED <<synced, snap>>

Crash ==
  /\ ProcessDies \/ (Running /\ PowerLost)
  /\ phase' = "crashed"
  /\ queue' = << >>
  /\ poisoned' = FALSE
  /\ crashes' = crashes + 1
  /\ UNCHANGED <<shape, unavail, seq, lastEv, writes, acked, kept>>

\* A clean stop followed by a power loss before the next start.
PowerLostWhileStopped ==
  /\ phase = "stopped"
  /\ PowerLost
  /\ crashes' = crashes + 1
  /\ UNCHANGED <<core, queue, poisoned, acked, kept>>

\* The projections that recovery reads after sequence n.
ProjectedAfter(n) ==
  {i \in 1 .. Len(log) : log[i].n > n /\ log[i].event.kind = "WorkspaceProjected"}

\* Slip: the record at the checkpoint's own sequence is the first one skipped.
ReplayAfter(n) == ProjectedAfter(n + 1)

Suffix(n) == ProjectedAfter(n)

Newest(indices) == CHOOSE i \in indices : \A j \in indices : j <= i

\* recover_snapshot: the newest projection after the checkpoint, or its own.
RecoverSnapshot ==
  LET later == Suffix(snap.n)
  IN  IF later = {} THEN snap.shape ELSE log[Newest(later)].event.shape

\* recover_workspace: cut a partial record off (and sync the copy), reopen the
\* sequence, rebuild from the checkpoint (unless restore is off, which deletes
\* it) or from the catalog, and persist.
Start(restore) ==
  LET restored == restore /\ snap # None
  IN  /\ phase \in {"stopped", "crashed"}
      /\ Len(log) < MaxSeq
      /\ phase' = "up"
      /\ torn' = FALSE
      /\ synced' = IF torn THEN Len(log) ELSE synced
      /\ shape' \in (IF restored THEN {RecoverSnapshot} ELSE Shapes)
      /\ unavail' \in (IF restored THEN BOOLEAN ELSE {FALSE})
      /\ snap' = IF restore THEN snap ELSE None
      /\ writes' = TRUE
      /\ PersistSnapshot(shape', << >>, Len(log), None)
      /\ poisoned' = FALSE
      /\ UNCHANGED <<log, acked, kept, crashes>>

-----------------------------------------------------------------------------
Next ==
  \/ \E event \in {Note, Status} : Record(event)
  \/ Persist
  \/ RetryPane
  \/ Shutdown
  \/ Exit
  \/ AppendEvent
  \/ SaveSnapshot
  \/ DeleteSnapshot
  \/ Crash
  \/ PowerLostWhileStopped
  \/ \E restore \in BOOLEAN : Start(restore)

Spec == Init /\ [][Next]_vars

-----------------------------------------------------------------------------
(* Properties.                                                             *)

\* persistence.rs: a power loss "cannot leave a snapshot claiming a sequence
\* that never reached stable storage": save_snapshot syncs the log first, the
\* events it covers were queued before it, and a stream with a hole refuses it.
CheckpointWithinLog == snap # None => snap.n <= synced

\* "The durable stream is frozen at its last consistent prefix": whatever
\* fails, the complete records of the file are numbered without a gap, so the
\* next start keeps every one of them.
LogIsGapFree == \A i \in 1 .. Len(log) : log[i].n = i

\* Recovery reads checkpoint and suffix only, and still finds the newest
\* structure the log holds (persist_snapshot, recover_snapshot).
RecoveryFindsNewest ==
  LET all == ProjectedAfter(0)
  IN  (snap # None /\ all # {}) => RecoverSnapshot = log[Newest(all)].event.shape

\* A timeline entry that append_event acknowledged is in the log ever after,
\* through failures, crashes, power losses and repairs.
TimelineSurvives ==
  \A n \in acked : \E i \in 1 .. Len(log) : log[i] = [n |-> n, event |-> Note]

\* A clean stop that keeps no unavailable Pane, and whose deletion was neither
\* refused nor failed, leaves no crash marker
\* behind: nothing that drains after the shutdown recreates the checkpoint.
StopLeavesNoMarker == (phase = "stopped" /\ ~unavail /\ ~kept) => snap = None
=============================================================================
