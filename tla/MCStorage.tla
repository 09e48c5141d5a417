----------------------------- MODULE MCStorage -----------------------------
(***************************************************************************)
(* The parts of persistence checked by one run: one Workspace's log and    *)
(* checkpoint (Durability), its catalog line (CatalogSave), the names,     *)
(* claims and files of several Workspaces (WorkspaceRename), the archives  *)
(* behind the log (EventHistory) and the timeline's index and rows         *)
(* (TimelineIndex).  "part" picks the one that moves; the others stay in   *)
(* their initial states.                                                   *)
(***************************************************************************)
EXTENDS Durability, TLC

CONSTANTS Parts, Defs, Names, Procs
VARIABLES part,
  def, last, pending, box, slot, replies, saved, failed, file, marker, running, sent,
  changes,                                                            \* of CatalogSave
  commands, claim, sock, logs, cat, snaps, setAside, forgotten, logged, proc, born, renames,
  deaths, failures,                                                   \* of WorkspaceRename
  mode, name, cursor, files, half, kept1, arch, bytes, step, stream, doomed,
  lives,                                                              \* of EventHistory
  hist, base, inode, stored, index, json, dirty, rows, spoiled, faults  \* of TimelineIndex

catalogVars == <<def, last, pending, box, slot, replies, saved, failed, file, marker, running,
                 sent, changes>>
renameVars  == <<commands, claim, sock, logs, cat, snaps, setAside, forgotten, logged, proc, born,
                 renames, deaths, failures>>
historyVars == <<mode, name, cursor, files, half, kept1, arch, bytes, step, stream, doomed, lives>>
indexVars   == <<hist, base, inode, stored, index, json, dirty, rows, spoiled, faults>>

\* A failed append leaves at most a partial line.
Catalog == INSTANCE CatalogSave WITH
  Remains <- {"partial"}, MaxChanges <- 6, MaxMessages <- 4, MaxBytes <- 4

Rename == INSTANCE WorkspaceRename WITH
  MaxIds <- 2, MaxRenames <- 2, MaxTroubles <- 1,
  log <- logs, snap <- snaps, crashes <- deaths

History == INSTANCE EventHistory WITH
  Names <- {"a", "b"}, CompactBytes <- 2, MaxSeq <- 4, MaxLives <- 1,
  phase <- mode, seq <- cursor, log <- files, torn <- half, synced <- kept1, hist <- stream

\* Every event of the timeline, for the rows; two of them, for the cache.
Of(kind) == [kind |-> kind, pane |-> "p"]
AllEvents ==
  {Of("bound"), Of("unbound"), Of("exited"), [kind |-> "boundary"],
   [kind |-> "projected", ctx |-> "a"],
   [kind |-> "delegated", pane |-> "p", of |-> 1, by |-> 2, ctx |-> "b"]}
  \cup {[kind |-> "linked", pane |-> "p", session |-> s] : s \in {"s", "t"}}
  \cup {[kind |-> "resumed", pane |-> "p", session |-> s, ctx |-> "b"] : s \in {"s", "none"}}
  \cup {[kind |-> "observed", pane |-> "p", session |-> o[1], argv |-> o[2]] :
          o \in {<<"s", TRUE>>, <<"t", FALSE>>, <<"none", TRUE>>}}
Cache == INSTANCE TimelineIndex WITH
  Panes <- {"p"}, Events <- {Of("bound"), [kind |-> "note", ctx |-> "a"]}, Days <- {0},
  Inodes <- {1, 2}, PageSize <- 2, MaxSeq <- 3, MaxFaults <- 2, synced <- stored, saved <- json
Rows == INSTANCE TimelineIndex WITH
  Panes <- {"p"}, Events <- AllEvents, Days <- {0},
  Inodes <- {1}, PageSize <- 2, MaxSeq <- 4, MaxFaults <- 0, synced <- stored, saved <- json

MCInit ==
  /\ part \in Parts
  /\ Init /\ Catalog!Init /\ Rename!Init /\ History!Init /\ Rows!Init
  /\ commands => part = "rename"
  /\ name = "a"   \* the two names are alike

LogStep ==
  part = "log" /\ UNCHANGED <<part, catalogVars, renameVars, historyVars, indexVars>> /\ Next
CatalogStep ==
  part = "catalog" /\ UNCHANGED <<part, vars, renameVars, historyVars, indexVars>> /\ Catalog!Next
RenameStep ==
  part = "rename" /\ UNCHANGED <<part, vars, catalogVars, historyVars, indexVars>> /\ Rename!Next
HistoryStep ==
  part = "history" /\ UNCHANGED <<part, vars, catalogVars, renameVars, indexVars>> /\ History!Next
CacheStep ==
  part = "cache" /\ UNCHANGED <<part, vars, catalogVars, renameVars, historyVars>> /\ Cache!Next
RowsStep ==
  /\ UNCHANGED <<part, vars, catalogVars, renameVars, historyVars>>
  /\ part = "rows"
  /\ \E event \in AllEvents : Rows!AppendEvent(event, 0)

MCNext == LogStep \/ CatalogStep \/ RenameStep \/ HistoryStep \/ CacheStep \/ RowsStep

MCSpec == MCInit /\ [][MCNext]_<<part, vars, catalogVars, renameVars, historyVars, indexVars>>

Symmetry ==
  Permutations(Shapes) \cup Permutations(Defs) \cup Permutations(Names) \cup Permutations(Procs)

-----------------------------------------------------------------------------
(* The properties of the instances; each is stated and explained in its    *)
(* own module.                                                             *)

\* Durability and CatalogSave: a stop leaves no crash checkpoint that a later
\* save could bring back, and removes it only when the catalog has the last
\* definition; the newest acknowledged line ends the file, and with nothing on its
\* way the core believes what the file says.
CatalogAgrees ==
  /\ StopLeavesNoMarker
  /\ part = "catalog" =>
       /\ Catalog!DeletionNeedsSavedCatalog
       /\ Catalog!CacheMatchesFile /\ Catalog!AcknowledgedIsWritten
\* CatalogSave, against docs/05: a clean stop leaves the live definition.
CleanStopRecordsDefinition == part = "catalog" => Catalog!CleanStopRecordsDefinition
\* WorkspaceRename: every name a process has still to touch is claimed by it, no
\* live rename, crash or failure loses a log, the three files follow the name of
\* an undisturbed server, and the next start reads a log that live renames moved.
RenameIsSafe ==
  part = "rename" =>
    /\ Rename!WorkIsClaimed /\ Rename!HistoryKept
    /\ Rename!FilesFollowName /\ Rename!RenamedStreamIsRead
\* EventHistory and TimelineIndex: any range of the stream is read back exactly, the
\* checkpoint stands for what it replaced, no compaction costs the stream; a cache in
\* use is the projection of the log, the pages of a day are its rows, and a row and a
\* resumption belong to their own invocation.
HistorySurvives ==
  /\ part = "history" =>
       /\ History!HistoryIsWhole /\ History!CheckpointStandsForHistory
       /\ History!CompactionKeepsStream
  /\ part = "cache" => Cache!IndexMatchesLog /\ Cache!PagesCoverDay
  /\ part = "rows" => Rows!RowsNameInvocation /\ Rows!ResumesOwnSession
\* WorkspaceRename, against docs/05: no undisturbed stop and start sets a log aside.
StreamOutlivesStop == part = "rename" => Rename!StreamOutlivesStop
=============================================================================
