---------------------------- MODULE EventHistory ----------------------------
(***************************************************************************)
(* The durable event stream of one Workspace across compactions, renames,  *)
(* deletion and crashes (crates/uniterm-server/src/history.rs, eventlog.rs *)
(* and the worker of runtime/persistence.rs).                              *)
(*                                                                         *)
(* A compaction copies the active file to an immutable archive named after *)
(* its last sequence and replaces it by one checkpoint record that holds   *)
(* every recovery projection and links to the archive by digest.  Readers  *)
(* of old events follow the links; recovery reads the active file only.  A *)
(* rename links the archives under the new name, moves the active file and *)
(* then removes the old links.  The process can die, and the machine can   *)
(* lose power, between any two of these steps.                             *)
(*                                                                         *)
(* One record counts as one byte; a digest is the content it stands for;   *)
(* a projection is the sequence of the records reduced so far.             *)
(***************************************************************************)
EXTENDS Integers, Sequences

CONSTANTS
  Names,         \* names a Workspace can have
  CompactBytes,  \* history::COMPACT_BYTES
  MaxSeq,        \* bound on the sequence numbers
  MaxLives       \* bound on the crashes and deletions

VARIABLES
  phase,    \* "up" or "down"
  name,     \* the name whose active file belongs to the Workspace
  seq,      \* EventLog.current_sequence
  log,      \* name -> records of the active file
  torn,     \* the active file ends in a partial record
  synced,   \* records of the active file known to be on stable storage
  arch,     \* name -> last sequence -> content of the archive
  bytes,    \* Persistence.uncompacted_event_bytes
  step,     \* what the worker is doing: [kind, to, file]
  hist,     \* history: the records of the stream, oldest first
  doomed,   \* history: a deletion of the stream has begun
  lives     \* history: crashes and deletions so far, the content of new events

vars == <<phase, name, seq, log, torn, synced, arch, bytes, step, hist, doomed, lives>>

Idle == [kind |-> "idle"]
Absent == << >>   \* no file, no archive

Event(n, owner, v)    == [kind |-> "event", seq |-> n, owner |-> owner, v |-> v]
Renamed(n, owner, to) == [kind |-> "renamed", seq |-> n, owner |-> owner, to |-> to]
Checkpoint(owner, n, content, state) ==
  [kind |-> "checkpoint", seq |-> n, owner |-> owner, archive |-> content, state |-> state]

Init ==
  /\ phase = "down" /\ name \in Names /\ seq = 0
  /\ log = [n \in Names |-> Absent] /\ torn = FALSE /\ synced = 0
  /\ arch = [n \in Names |-> [c \in 1..MaxSeq |-> Absent]]
  /\ bytes = CompactBytes /\ step = Idle /\ hist = << >> /\ doomed = FALSE /\ lives = 0

-----------------------------------------------------------------------------
(* Reading a stream.                                                       *)

HasHeader(file) == file # Absent /\ file[1].kind = "checkpoint"
Body(file)      == IF HasHeader(file) THEN Tail(file) ELSE file
LastSeq(file)   == IF file = Absent THEN 0 ELSE file[Len(file)].seq

OwnerAfter(record) == IF record.kind = "renamed" THEN record.to ELSE record.owner
Chained(lines) ==
  \A i \in 1..Len(lines) - 1 : lines[i + 1].owner = OwnerAfter(lines[i])
OwnedBy(file, n) ==
  file # Absent => Chained(file) /\ OwnerAfter(file[Len(file)]) = n

\* The events of a file and of the archives it links to, as far back as "after".
RECURSIVE Follow(_, _, _)
Follow(dir, file, after) ==
  IF ~HasHeader(file) THEN [ok |-> TRUE, origin |-> 0, lines |-> file]
  ELSE IF file[1].seq <= after
  THEN [ok |-> TRUE, origin |-> file[1].seq, lines |-> Body(file)]
  ELSE LET linked  == dir[file[1].seq]
           ordered == ~HasHeader(linked) \/ linked[1].seq < file[1].seq
           earlier == Follow(dir, linked, after)
       IN  IF linked # Absent /\ linked = file[1].archive /\ ordered
           THEN [earlier EXCEPT !.lines = @ \o Body(file)]
           ELSE [ok |-> FALSE, origin |-> 0, lines |-> << >>]

Contiguous(origin, lines) ==
  \A i \in 1..Len(lines) :
    LET previous == IF i = 1 THEN origin ELSE lines[i - 1].seq
    IN  previous # 0 => lines[i].seq = previous + 1

Unreadable == <<"error">>

\* visit_through: the events of (after, through] or an error.
VisitFollowed(r, after, through) ==
  LET seen == SelectSeq(r.lines, LAMBDA x : x.seq <= through + 1)
  IN  IF /\ r.ok /\ Chained(seen) /\ Contiguous(r.origin, seen)
         /\ (IF seen = << >> THEN r.origin ELSE LastSeq(seen)) >= through
      THEN SelectSeq(seen, LAMBDA x : after < x.seq /\ x.seq <= through)
      ELSE Unreadable
VisitThrough(n, after, through) ==
  IF through = 0 THEN << >>
  ELSE IF log[n] = Absent \/ (log[n][1].owner # n /\ ~OwnedBy(log[n], n)) THEN Unreadable
  ELSE VisitFollowed(Follow(arch[n], log[n], after), after, through)

\* What the reducers make of the active file alone.
Replay(file) == IF HasHeader(file) THEN file[1].state \o Body(file) ELSE file

\* replay_invocations: the same projection at an earlier cursor.
ReplayInvocations(n, through) ==
  IF HasHeader(log[n]) /\ through < log[n][1].seq THEN VisitThrough(n, 0, through)
  ELSE SelectSeq(Replay(log[n]), LAMBDA x : x.seq <= through)

\* validate_archive: the archive the active file links to is there.
ArchiveThere(n) == HasHeader(log[n]) => arch[n][log[n][1].seq] # Absent

-----------------------------------------------------------------------------
(* The worker: appends and the compaction that may follow one.             *)

Set(f, n, v) == [f EXCEPT ![n] = v]

Append1(record) ==
  /\ seq < MaxSeq
  /\ seq' = seq + 1
  /\ log' = Set(log, name, Append(log[name], record))
  /\ hist' = Append(hist, record)

AppendEvent ==
  /\ phase = "up" /\ step = Idle
  /\ Append1(Event(seq + 1, name, lives))
  /\ LET due == bytes + 1 >= CompactBytes
     IN  /\ bytes' = IF due THEN 0 ELSE bytes + 1
         /\ step' = IF due THEN [kind |-> "compact"] ELSE Idle
  /\ UNCHANGED <<phase, name, torn, synced, arch, doomed, lives>>

\* compact_if_needed counts what follows the header; compact_at checks the file.
CompactDue == Len(Body(log[name])) >= CompactBytes

NotDue ==
  /\ step.kind = "compact" /\ ~CompactDue
  /\ step' = Idle
  /\ UNCHANGED <<phase, name, seq, log, torn, synced, arch, bytes, hist, doomed, lives>>

ArchiveMatches(n, through) == arch[n][through] \in {Absent, log[n]}

\* The stream is synced and copied to its archive.
Archive ==
  /\ step.kind = "compact" /\ CompactDue
  /\ ArchiveThere(name) /\ OwnedBy(log[name], name)
  /\ ArchiveMatches(name, LastSeq(log[name]))
  /\ synced' = Len(log[name])
  /\ arch' = IF arch[name][LastSeq(log[name])] # Absent THEN arch
             ELSE [arch EXCEPT ![name][LastSeq(log[name])] = log[name]]
  /\ step' = [kind |-> "archived"]
  /\ UNCHANGED <<phase, name, seq, log, torn, bytes, hist, doomed, lives>>

\* Slip: the checkpoint reduces only what follows the previous checkpoint.
CheckpointStateOfSuffix(file) == Body(file)
CheckpointState(file) == Replay(file)

\* The checkpoint record replaces the active file.
Publish ==
  /\ step.kind = "archived"
  /\ log' = Set(log, name, <<Checkpoint(name, LastSeq(log[name]), log[name],
                                        CheckpointState(log[name]))>>)
  /\ synced' = 1
  /\ step' = Idle
  /\ UNCHANGED <<phase, name, seq, torn, arch, bytes, hist, doomed, lives>>

\* Any error of a compaction is reported and tried again after the next append.
CompactFails ==
  /\ step.kind \in {"compact", "archived"}
  /\ bytes' = CompactBytes /\ step' = Idle
  /\ UNCHANGED <<phase, name, seq, log, torn, synced, arch, hist, doomed, lives>>

-----------------------------------------------------------------------------
(* Rename and deletion.                                                    *)

Archives(n)  == {c \in 1..MaxSeq : arch[n][c] # Absent}
Exists(n)    == log[n] # Absent \/ Archives(n) # {}

\* rename_session refuses a name with a stream; the rename is the last record
\* under the old name and starts no compaction.
RequestRename(new) ==
  /\ phase = "up" /\ step = Idle /\ new # name /\ ~Exists(new)
  /\ Append1(Renamed(seq + 1, name, new))
  /\ step' = [kind |-> "stage", to |-> new]
  /\ UNCHANGED <<phase, name, torn, synced, arch, bytes, doomed, lives>>

\* stage_rename, one hard link at a time.
StageLink(c) ==
  /\ step.kind = "stage" /\ c \in Archives(name) \ Archives(step.to)
  /\ arch' = [arch EXCEPT ![step.to][c] = arch[name][c]]
  /\ UNCHANGED <<phase, name, seq, log, torn, synced, bytes, step, hist, doomed, lives>>

AllStaged == Archives(name) \subseteq Archives(step.to)

MoveLog ==
  /\ step.kind = "stage" /\ AllStaged
  /\ log' = [log EXCEPT ![step.to] = log[name], ![name] = Absent]
  /\ name' = step.to
  /\ step' = [kind |-> "clean", to |-> name]
  /\ UNCHANGED <<phase, seq, torn, synced, arch, bytes, hist, doomed, lives>>

\* A failed rename poisons the stream: nothing is appended until a restart.
RenameFails ==
  /\ step.kind = "stage"
  /\ step' = [kind |-> "poisoned"]
  /\ UNCHANGED <<phase, name, seq, log, torn, synced, arch, bytes, hist, doomed, lives>>

Drop(n, c) == [arch EXCEPT ![n][c] = Absent]

\* remove_dir_all of the old name's archives.
RemoveOldLink(c) ==
  /\ step.kind = "clean" /\ c \in Archives(step.to)
  /\ arch' = Drop(step.to, c)
  /\ UNCHANGED <<phase, name, seq, log, torn, synced, bytes, step, hist, doomed, lives>>

RenameDone ==
  /\ step.kind = "clean" /\ Archives(step.to) = {}
  /\ step' = Idle
  /\ UNCHANGED <<phase, name, seq, log, torn, synced, arch, bytes, hist, doomed, lives>>

\* Deletion of a stopped Workspace: the archives first, then the active file.
Forget ==
  /\ phase = "down" /\ step = Idle /\ Exists(name) /\ lives < MaxLives
  /\ step' = [kind |-> "forget"] /\ doomed' = TRUE /\ lives' = lives + 1
  /\ UNCHANGED <<phase, name, seq, log, torn, synced, arch, bytes, hist>>

ForgetArchive(c) ==
  /\ step.kind = "forget" /\ c \in Archives(name)
  /\ arch' = Drop(name, c)
  /\ UNCHANGED <<phase, name, seq, log, torn, synced, bytes, step, hist, doomed, lives>>

ForgetLog ==
  /\ step.kind = "forget" /\ Archives(name) = {}
  /\ log' = Set(log, name, Absent) /\ torn' = FALSE /\ synced' = 0
  /\ hist' = << >> /\ doomed' = FALSE /\ step' = Idle
  /\ UNCHANGED <<phase, name, seq, arch, bytes, lives>>

-----------------------------------------------------------------------------
(* Stops, crashes and the next start.                                      *)

Stop ==
  /\ phase = "up" /\ step.kind \in {"idle", "poisoned"}
  /\ phase' = "down" /\ step' = Idle /\ seq' = 0 /\ bytes' = CompactBytes
  /\ UNCHANGED <<name, log, torn, synced, arch, hist, doomed, lives>>

\* Records that were not synced may be lost, the first lost one in the middle.
Crash(kept, half) ==
  /\ lives < MaxLives /\ (phase = "up" \/ step # Idle)
  /\ kept \in synced..Len(log[name]) /\ (half => kept < Len(log[name]))
  /\ log' = Set(log, name, SubSeq(log[name], 1, kept))
  /\ hist' = SubSeq(hist, 1, LastSeq(log'[name]))
  /\ torn' = (half \/ torn) /\ synced' = kept
  /\ phase' = "down" /\ step' = Idle /\ seq' = 0 /\ bytes' = CompactBytes
  /\ lives' = lives + 1
  /\ UNCHANGED <<name, arch, doomed>>

\* A start finds the stream under its name; without one any name will do.
StartsAs(n) == IF log[name] = Absent THEN TRUE ELSE n = name

\* repair_consistent_prefix drops the partial record.
Start(n) ==
  /\ phase = "down" /\ step = Idle /\ StartsAs(n)
  /\ ArchiveThere(n) /\ OwnedBy(log[n], n)
  /\ phase' = "up" /\ name' = n /\ seq' = LastSeq(log[n])
  /\ torn' = FALSE /\ synced' = IF torn THEN Len(log[n]) ELSE synced
  /\ bytes' = CompactBytes
  /\ UNCHANGED <<log, arch, step, hist, doomed, lives>>

\* A stream that recovery rejects is set aside, the active file first.
Quarantine(n, whole) ==
  /\ phase = "down" /\ step = Idle /\ StartsAs(n)
  /\ ~(ArchiveThere(n) /\ OwnedBy(log[n], n))
  /\ log' = Set(log, n, Absent) /\ hist' = << >> /\ torn' = FALSE /\ synced' = 0
  /\ lives <= MaxLives /\ lives' = lives + 1
  /\ arch' = IF whole THEN [arch EXCEPT ![n] = [c \in 1..MaxSeq |-> Absent]] ELSE arch
  /\ phase' = IF whole THEN "up" ELSE "down"
  /\ name' = n /\ seq' = 0 /\ doomed' = FALSE /\ bytes' = CompactBytes
  /\ UNCHANGED step

Next ==
  \/ AppendEvent \/ NotDue \/ Archive \/ Publish \/ CompactFails
  \/ \E n \in Names : RequestRename(n) \/ Start(n)
  \/ \E n \in Names, whole \in BOOLEAN : Quarantine(n, whole)
  \/ \E c \in 1..MaxSeq : StageLink(c) \/ RemoveOldLink(c) \/ ForgetArchive(c)
  \/ MoveLog \/ RenameFails \/ RenameDone \/ Forget \/ ForgetLog \/ Stop
  \/ \E kept \in 0..MaxSeq, half \in BOOLEAN : Crash(kept, half)

Spec == Init /\ [][Next]_vars

-----------------------------------------------------------------------------
(* Properties.                                                             *)

\* The stream can be read: it is repaired, not being deleted, and if its last
\* record hands it to a name it has not reached, its first bears the present one.
Readable ==
  /\ ~torn /\ ~doomed /\ ArchiveThere(name)
  /\ OwnedBy(log[name], name) \/ log[name][1].owner = name

\* However the stream was compacted, renamed, interrupted or repaired, and while
\* it is, a catch-up read of any range returns exactly the events recorded in it
\* (eventlog::visit_through over history::Reader).
HistoryIsWhole ==
  Readable =>
    \A through \in 0..Len(hist) : \A after \in 0..through :
      VisitThrough(name, after, through) = SubSeq(hist, after + 1, through)

\* What recovery reduces from the active file alone is what the whole stream
\* reduces to, at its end and at every earlier cursor a terminal checkpoint may
\* name (history::compact_at, eventlog::replay_invocations).
CheckpointStandsForHistory ==
  Readable =>
    /\ Replay(log[name]) = hist
    /\ \A through \in 0..Len(hist) :
         ReplayInvocations(name, through) = SubSeq(hist, 1, through)

\* Compaction never leaves a stream that the next start would set aside: only an
\* interrupted rename or deletion does.
CompactionKeepsStream ==
  step.kind \in {"idle", "compact", "archived"} /\ phase = "up" =>
    ArchiveThere(name) /\ OwnedBy(log[name], name) /\ LastSeq(log[name]) = seq
=============================================================================
