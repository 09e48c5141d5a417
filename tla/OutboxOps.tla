----------------------------- MODULE OutboxOps -----------------------------
(***************************************************************************)
(* The backlog the core loop keeps in front of the agent runtime           *)
(* (crates/uniterm-server/src/runtime/outbox.rs), as operators on a record *)
(*   [pending : Seq([msg, size]), bytes : Nat, failure : Failures].        *)
(* A message is a record with at least the fields "kind" and "key".  The   *)
(* key is the Workspace name or the Pane the message is about.             *)
(*                                                                         *)
(* The bounds are MAX_MESSAGES (512) and MAX_BYTES (128 MiB) in the code.  *)
(***************************************************************************)
EXTENDS Integers, Sequences, SequencesExt

CONSTANTS MaxMessages, MaxBytes

ASSUME OutboxBounds == MaxMessages \in Nat \ {0} /\ MaxBytes \in Nat \ {0}

\* Messages that carry the newest observation of one subject.
Projections == {"SnapshotSave", "WorkspaceCatalogAppend", "PaneEvidence", "DevServerEvidence"}

\* Everything but an observation or an event record is a lifecycle barrier.
Barrier(m) == m.kind \notin Projections \cup {"EventAppend"}

SameProjection(old, new) == old.kind \in Projections /\ old.kind = new.kind /\ old.key = new.key

Failures == {"none", "capacity", "disconnected"}

EmptyOutbox == [pending |-> << >>, bytes |-> 0, failure |-> "none"]

\* The last queued message that the new one supersedes; 0 when there is none.
LastSame(pending, m) == SelectLastInSeq(pending, LAMBDA entry : SameProjection(entry.msg, m))

\* Slip: the newest same-subject message is replaced wherever it stands.
ReplaceableAcross(pending, i) == i # 0

\* Superseding never moves an observation across a lifecycle barrier.
Replaceable(pending, i) == i # 0 /\ \A j \in (i + 1) .. Len(pending) : ~Barrier(pending[j].msg)

\* Slip: the newer observation simply replaces the older one.
MergeForgets(old, m) == m

\* A superseded Pane observation hands its process_changed flag on.
Merge(old, m) ==
  IF m.kind = "PaneEvidence" THEN [m EXCEPT !.changed = @ \/ old.changed] ELSE m

\* The queue once the message that m supersedes has left it.
Superseded(pending, m) ==
  LET i == LastSame(pending, m)
  IN  IF Replaceable(pending, i) THEN RemoveAt(pending, i) ELSE pending

\* m, merged with what it supersedes.
Merged(pending, m) ==
  LET i == LastSame(pending, m)
  IN  IF Replaceable(pending, i) THEN Merge(pending[i].msg, m) ELSE m

\* What the message that m supersedes gives back.
Freed(pending, m) ==
  LET i == LastSame(pending, m)
  IN  IF Replaceable(pending, i) THEN pending[i].size ELSE 0

Push(box, m, size) ==
  LET kept  == Superseded(box.pending, m)
      bytes == box.bytes - Freed(box.pending, m)
  IN  IF box.failure # "none" THEN box
      ELSE IF Len(kept) >= MaxMessages \/ size > MaxBytes - bytes
      THEN [pending |-> kept, bytes |-> bytes, failure |-> "capacity"]
      ELSE [pending |-> Append(kept, [msg |-> Merged(box.pending, m), size |-> size]),
            bytes   |-> bytes + size,
            failure |-> "none"]

\* Slip: a message the full transport refused goes to the end of the queue.
FlushToBack(box, slot, connected) ==
  IF box.pending = << >> THEN box
  ELSE IF connected /\ slot # << >>
  THEN [box EXCEPT !.pending = Append(Tail(@), Head(@))]
  ELSE [pending |-> Tail(box.pending),
        bytes   |-> box.bytes - Head(box.pending).size,
        failure |-> IF connected THEN box.failure ELSE "disconnected"]

\* The transport to the runtime holds one message.
Flush(box, slot, connected) ==
  IF box.pending = << >> \/ (connected /\ slot # << >>) THEN box
  ELSE [pending |-> Tail(box.pending),
        bytes   |-> box.bytes - Head(box.pending).size,
        failure |-> IF connected THEN box.failure ELSE "disconnected"]

FlushSlot(box, slot, connected) ==
  IF connected /\ slot = << >> /\ box.pending # << >> THEN << Head(box.pending).msg >> ELSE slot

Healthy(box) == box.failure = "none"
=============================================================================
