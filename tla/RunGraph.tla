------------------------------ MODULE RunGraph ------------------------------
(***************************************************************************)
(* The run graph of a Workspace as the server keeps it                      *)
(* (crates/uniterm-server/src/server/orchestration.rs): every change is     *)
(* validated on a copy, appended to the event log and only then published;  *)
(* a snapshot carries the graph with the sequence it reflects, and startup  *)
(* replays the later events through the same reducer.  A fork launches a    *)
(* child run when Git answers, possibly long after its parent was checked.  *)
(*                                                                         *)
(* The reducer of crates/uniterm-core/src/run_graph.rs comes first: records *)
(* of runs and roles, the indexes kept beside them, and apply, which        *)
(* accepts an event or rejects it and leaves the graph alone.  Titles, role *)
(* names, providers and outcomes are left out.  Identities are the naturals *)
(* the code allocates; 0 stands for "none".                                 *)
(***************************************************************************)
EXTENDS Integers, Sequences, FiniteSets, FiniteSetsExt, NaturalFacts

Terminal == {"Completed", "Failed", "Canceled"}

EmptyMap        == [x \in {} |-> x]
Put(f, k, v)    == [x \in DOMAIN f \cup {k} |-> IF x = k THEN v ELSE f[x]]
Drop(f, ks)     == [x \in DOMAIN f \ ks |-> f[x]]
\* entry(k).or_default().push(v), for lists read as sets.
Add(f, k, v)    == Put(f, k, (IF k \in DOMAIN f THEN f[k] ELSE {}) \cup {v})
\* retain(|id| id != v), and the entry removed when nothing is left.
Take(f, k, v)   == IF k \notin DOMAIN f THEN f
                   ELSE IF f[k] \subseteq {v} THEN Drop(f, {k}) ELSE Put(f, k, f[k] \ {v})

NewGraph ==
  [runs |-> EmptyMap, roles |-> EmptyMap, children |-> EmptyMap, runPanes |-> EmptyMap,
   paneActive |-> EmptyMap, projectRuns |-> EmptyMap, taskRuns |-> EmptyMap,
   nextRun |-> 1, nextRole |-> 1, nextActivation |-> 1]

Children(g, run) == IF run \in DOMAIN g.children THEN g.children[run] ELSE {}

\* The first role of the run whose activation is live, or 0.
ActiveRole(g, run) ==
  LET live == {i \in DOMAIN g.runs[run].roles : g.roles[g.runs[run].roles[i]].active}
  IN  IF live = {} THEN 0 ELSE g.runs[run].roles[Min(live)]

-----------------------------------------------------------------------------
\* The live activation of a run is closed and its Pane released.
Release(g, run) ==
  LET role == ActiveRole(g, run)
  IN  IF role = 0 THEN g
      ELSE [g EXCEPT !.roles[role].active = FALSE,
                     !.paneActive = Drop(@, {g.roles[role].pane})]

Created(g, e) ==
  [g EXCEPT !.runs = Put(@, e.run, [parent |-> e.parent, project |-> e.project, task |-> e.task,
                                    status |-> "Created", roles |-> <<>>]),
            !.taskRuns    = Put(@, e.task, e.run),
            !.projectRuns = Add(@, e.project, e.run),
            !.children    = IF e.parent = 0 THEN @ ELSE Add(@, e.parent, e.run),
            !.nextRun     = e.run + 1]

CreatedAccepted(g, e) ==
  /\ e.run = g.nextRun /\ e.run \notin DOMAIN g.runs
  /\ e.parent = 0 \/ e.parent \in DOMAIN g.runs
  /\ e.task \notin DOMAIN g.taskRuns

RoleDeclared(g, e) ==
  [g EXCEPT !.runs[e.run].roles = Append(@, e.role),
            !.roles    = Put(@, e.role, [run |-> e.run, pane |-> e.pane, activation |-> 0,
                                         active |-> FALSE]),
            !.runPanes = Add(@, e.run, e.pane),
            !.nextRole = e.role + 1]

RoleAccepted(g, e) ==
  /\ e.run \in DOMAIN g.runs /\ g.runs[e.run].status \notin Terminal
  /\ e.role = g.nextRole /\ e.role \notin DOMAIN g.roles

OpenAfter(g, run)  == Release(g, run)

NextActivation(n) == n + 1

\* activate: an Activated event, or a Handoff, whose "from" is not 0.
Activate(g, e) ==
  LET pane == g.roles[e.role].pane
  IN  [OpenAfter(g, e.run) EXCEPT
         !.roles[e.role].activation = e.activation,
         !.roles[e.role].active     = TRUE,
         !.paneActive     = Put(@, pane, <<e.run, e.role>>),
         !.runs[e.run].status = "Active",
         !.nextActivation = NextActivation(e.activation)]

ActivateAccepted(g, e) ==
  /\ e.activation = g.nextActivation
  /\ e.run \in DOMAIN g.runs /\ g.runs[e.run].status \notin Terminal
  /\ e.role \in DOMAIN g.roles /\ g.roles[e.role].run = e.run
  /\ e.from # e.role
  /\ LET pane == g.roles[e.role].pane
     IN  pane \in DOMAIN g.paneActive => g.paneActive[pane][1] = e.run
  /\ e.from # 0 => ActiveRole(g, e.run) = e.from

\* Slip: children do not keep their parent.
PrunableParents(g) == {r \in DOMAIN g.runs : g.runs[r].status \in Terminal}
Prunable(g) == {r \in DOMAIN g.runs : g.runs[r].status \in Terminal /\ Children(g, r) = {}}

Forget(g, run) ==
  LET rec == g.runs[run]
  IN  [g EXCEPT !.runs        = Drop(@, {run}),
                !.roles       = Drop(@, {rec.roles[i] : i \in DOMAIN rec.roles}),
                !.runPanes    = Drop(@, {run}),
                !.taskRuns    = Drop(@, {rec.task}),
                !.projectRuns = Take(@, rec.project, run),
                !.children    = Take(Drop(@, {run}), rec.parent, run)]

OverCap(g, cap)      == Cardinality(DOMAIN g.runs) > cap

\* prune_to: the oldest closed leaf goes until the cap is met or none is left.
PruneOnce(g, cap) ==
  IF OverCap(g, cap) /\ Prunable(g) # {} THEN Forget(g, Min(Prunable(g))) ELSE g

PruneTo(g, cap) ==
  LET n == Cardinality(DOMAIN g.runs)
      after[i \in 0 .. n] == IF i = 0 THEN g ELSE PruneOnce(after[i - 1], cap)
  IN  after[n]

FinishAccepted(g, e) == e.run \in DOMAIN g.runs /\ g.runs[e.run].status \notin Terminal

Finish(g, e, cap) == PruneTo([Release(g, e.run) EXCEPT !.runs[e.run].status = e.status], cap)

Accepted(g, e) ==
  CASE e.type = "Created"      -> CreatedAccepted(g, e)
    [] e.type = "RoleDeclared" -> RoleAccepted(g, e)
    [] e.type = "Activated"    -> ActivateAccepted(g, e)
    [] e.type = "Finished"     -> FinishAccepted(g, e)

ApplyEvent(g, e, cap) ==
  CASE e.type = "Created"      -> Created(g, e)
    [] e.type = "RoleDeclared" -> RoleDeclared(g, e)
    [] e.type = "Activated"    -> Activate(g, e)
    [] e.type = "Finished"     -> Finish(g, e, cap)

-----------------------------------------------------------------------------
(* The server *)

CONSTANTS
  Panes, Projects,
  Outcomes,                         \* terminal statuses in use; all are treated alike
  HistoryCap,                       \* RUN_GRAPH_HISTORY_CAP
  MaxRuns, MaxRoles, MaxActivations,\* bounds on the identities allocated
  MaxSuffix                         \* bound on the events between snapshots

VARIABLES
  graph,       \* the live projection
  suffix,      \* run-graph events appended since the snapshot, in log order
  checkpoint,  \* the graph in the snapshot
  forks,       \* parents of the children waiting for their worktree
  rejected     \* durability_error: a transition of the server was refused

vars == <<graph, suffix, checkpoint, forks, rejected>>

Init ==
  /\ graph = NewGraph /\ checkpoint = NewGraph
  /\ suffix = <<>> /\ forks = {} /\ rejected = FALSE

-----------------------------------------------------------------------------
\* Slip: the event is appended before it is validated.
RecordUnchecked(acc, e) ==
  IF Accepted(acc.graph, e)
  THEN [acc EXCEPT !.graph = ApplyEvent(@, e, HistoryCap), !.suffix = Append(@, e)]
  ELSE [acc EXCEPT !.suffix = Append(@, e), !.rejected = TRUE]

\* record_run_graph_change, for one event.
RecordInto(acc, e) ==
  IF Accepted(acc.graph, e)
  THEN [acc EXCEPT !.graph = ApplyEvent(@, e, HistoryCap), !.suffix = Append(@, e)]
  ELSE [acc EXCEPT !.rejected = TRUE]

\* One after the other.
RecordAll(acc, events) ==
  LET after[i \in 0 .. Len(events)] ==
        IF i = 0 THEN acc ELSE RecordInto(after[i - 1], events[i])
  IN  after[Len(events)]

Here == [graph |-> graph, suffix |-> suffix, rejected |-> rejected]

Become(acc) == graph' = acc.graph /\ suffix' = acc.suffix /\ rejected' = acc.rejected

Record(events) ==
  /\ Len(suffix) + Len(events) <= MaxSuffix
  /\ Become(RecordAll(Here, events))

\* create_orchestration_run: the run, then its roles.  A Task launches one run.
CreateRun(parent, project, panes) ==
  LET run  == graph.nextRun
      role(i) == [type |-> "RoleDeclared", run |-> run, role |-> graph.nextRole + i - 1,
                  pane |-> panes[i]]
  IN  Record(<<[type |-> "Created", run |-> run, parent |-> parent, project |-> project,
                task |-> run]>> \o [i \in 1 .. Len(panes) |-> role(i)])

Launch(project, panes) ==
  /\ graph.nextRun <= MaxRuns /\ graph.nextRole + Len(panes) <= MaxRoles + 1
  /\ CreateRun(0, project, panes)
  /\ UNCHANGED <<checkpoint, forks>>

\* start_run_fork: only an active run is forked.
StartFork(parent) ==
  /\ parent \in DOMAIN graph.runs /\ graph.runs[parent].status = "Active"
  /\ forks' = forks \cup {parent}
  /\ UNCHANGED <<graph, suffix, checkpoint, rejected>>

\* finish_worktree_child launches with the parent it was started from.
FinishFork(parent, project, panes) ==
  /\ parent \in forks
  /\ graph.nextRun <= MaxRuns /\ graph.nextRole + Len(panes) <= MaxRoles + 1
  /\ forks' = forks \ {parent}
  /\ CreateRun(parent, project, panes)
  /\ UNCHANGED checkpoint

\* record_orchestration_activation.
Activation(task, index) ==
  /\ task \in DOMAIN graph.taskRuns
  /\ graph.nextActivation <= MaxActivations
  /\ LET run  == graph.taskRuns[task]
         role == graph.runs[run].roles[index]
         from == ActiveRole(graph, run)
     IN  /\ index \in DOMAIN graph.runs[run].roles
         /\ Record(<<[type |-> "Activated", run |-> run, role |-> role,
                      activation |-> graph.nextActivation,
                      from |-> IF from = role THEN 0 ELSE from]>>)
  /\ UNCHANGED <<checkpoint, forks>>

\* record_orchestration_terminal.
Terminate(task, status) ==
  /\ task \in DOMAIN graph.taskRuns
  /\ LET run == graph.taskRuns[task]
     IN  /\ graph.runs[run].status \notin Terminal
         /\ Record(<<[type |-> "Finished", run |-> run, status |-> status]>>)
  /\ UNCHANGED <<checkpoint, forks>>

\* The snapshot stores the graph and the sequence it reflects.
Checkpoint ==
  /\ suffix # <<>>
  /\ checkpoint' = graph /\ suffix' = <<>>
  /\ UNCHANGED <<graph, forks, rejected>>

\* replay_run_graph: a rejected event fails recovery as invalid data.
ReplayOne(acc, e) ==
  IF acc.ok /\ Accepted(acc.graph, e) THEN [acc EXCEPT !.graph = ApplyEvent(@, e, HistoryCap)]
  ELSE [acc EXCEPT !.ok = FALSE]

Replay(base, events) ==
  LET after[i \in 0 .. Len(events)] ==
        IF i = 0 THEN [graph |-> base, ok |-> TRUE] ELSE ReplayOne(after[i - 1], events[i])
  IN  after[Len(events)]

\* A crash keeps a prefix of the events appended since the snapshot.
Crash(kept) ==
  LET events == SubSeq(suffix, 1, kept)
  IN  /\ graph' = Replay(checkpoint, events).graph
      /\ suffix' = events
      /\ forks' = {} /\ rejected' = FALSE
      /\ UNCHANGED checkpoint

RolePanes == [1 .. 1 -> Panes] \cup [1 .. 2 -> Panes]

Next ==
  \/ \E project \in Projects, panes \in RolePanes :
       \/ Launch(project, panes)
       \/ \E parent \in forks : FinishFork(parent, project, panes)
  \/ \E run \in DOMAIN graph.runs : StartFork(run)
  \/ \E task \in DOMAIN graph.taskRuns, index \in 1 .. 2 : Activation(task, index)
  \/ \E task \in DOMAIN graph.taskRuns, status \in Outcomes : Terminate(task, status)
  \/ Checkpoint
  \/ \E kept \in 0 .. Len(suffix) : Crash(kept)

Spec == Init /\ [][Next]_vars

-----------------------------------------------------------------------------
(* Properties.                                                             *)

\* Types; and every identity in use is below its allocator ("monotonic
\* identities"), no activation identity being given to two roles.
TypeOK ==
  /\ \A r \in DOMAIN graph.runs : r < graph.nextRun
  /\ \A i \in DOMAIN graph.roles :
       /\ i < graph.nextRole /\ graph.roles[i].activation < graph.nextActivation
       /\ \A j \in DOMAIN graph.roles \ {i} :
            graph.roles[i].activation = graph.roles[j].activation => graph.roles[i].activation = 0
  /\ DOMAIN graph.runs \subseteq 1 .. MaxRuns
  /\ \A r \in DOMAIN graph.runs : graph.runs[r].status \in Terminal \cup {"Created", "Active"}
  /\ DOMAIN graph.roles \subseteq 1 .. MaxRoles
  /\ forks \subseteq 1 .. MaxRuns /\ rejected \in BOOLEAN

LiveRoles(g)     == {i \in DOMAIN g.roles : g.roles[i].active}
RolesOf(g, run)  == {i \in DOMAIN g.roles : g.roles[i].run = run}
RunPanes(g, run) == IF run \in DOMAIN g.runPanes THEN g.runPanes[run] ELSE {}

PanesIndexed(g) ==
  /\ DOMAIN g.paneActive = {g.roles[i].pane : i \in LiveRoles(g)}
  /\ \A i \in LiveRoles(g) : g.paneActive[g.roles[i].pane] = <<g.roles[i].run, i>>
  /\ DOMAIN g.runPanes \subseteq DOMAIN g.runs
  /\ \A r \in DOMAIN g.runs : RunPanes(g, r) = {g.roles[i].pane : i \in RolesOf(g, r)}

ChildrenIndexed(g) ==
  /\ DOMAIN g.children \subseteq DOMAIN g.runs
  /\ \A r \in DOMAIN g.runs : Children(g, r) = {c \in DOMAIN g.runs : g.runs[c].parent = r}

ProjectsIndexed(g) ==
  /\ DOMAIN g.projectRuns = {g.runs[r].project : r \in DOMAIN g.runs}
  /\ \A p \in DOMAIN g.projectRuns :
       g.projectRuns[p] = {r \in DOMAIN g.runs : g.runs[r].project = p}

TasksIndexed(g) ==
  /\ DOMAIN g.taskRuns = {g.runs[r].task : r \in DOMAIN g.runs}
  /\ \A r \in DOMAIN g.runs : g.taskRuns[g.runs[r].task] = r

\* "It maintains direct indexes ... Scalar relationship queries do not scan":
\* each index answers what a scan of the records would, after any sequence of
\* launches, turns, ends and prunings.
IndexesAgree ==
  PanesIndexed(graph) /\ ChildrenIndexed(graph) /\ ProjectsIndexed(graph) /\ TasksIndexed(graph)

\* One role owns the live turn: a run is Active exactly when one of its roles
\* has a live activation, and never two.
OneLiveRole ==
  \A r \in DOMAIN graph.runs :
    Cardinality(LiveRoles(graph) \cap RolesOf(graph, r)) = IF graph.runs[r].status = "Active" THEN 1 ELSE 0

\* A role and its run name each other, and parents are there.
Linked(g) ==
  /\ \A r \in DOMAIN g.runs : g.runs[r].parent \in DOMAIN g.runs \cup {0}
  /\ \A i \in DOMAIN g.roles : g.roles[i].run \in DOMAIN g.runs
  /\ \A r \in DOMAIN g.runs :
       {g.runs[r].roles[k] : k \in DOMAIN g.runs[r].roles} = RolesOf(g, r)

\* "live runs and their required parent chains" are retained: no record names
\* a run or a role that was pruned, and a live run is never pruned.
NothingDangles == Linked(graph)

\* docs/23: "The current projection retains at most 4,096 closed leaf runs
\* plus live runs and their required parent chains."
ClosedLeavesBounded == Cardinality(Prunable(graph)) <= HistoryCap

\* "An impossible server transition can never enter the authoritative event
\* stream": from the snapshot, the events appended since rebuild exactly the
\* live graph, so recovery never fails on what the server wrote.
ReplayRebuildsGraph == Replay(checkpoint, suffix) = [graph |-> graph, ok |-> TRUE]

-----------------------------------------------------------------------------
(***************************************************************************)
(* Proofs.  A graph is Sound when its indexes agree with its records, the   *)
(* identities in use are below their allocators and every run has at most   *)
(* one live turn.  Each event that apply accepts keeps a graph Sound, and   *)
(* prune_to ends within the cap; the log replays to the graph because the   *)
(* server applies exactly what it appends.                                  *)
(***************************************************************************)
(* Maps.                                                                   *)

\* A map without some keys.
LEMMA DropFacts ==
  ASSUME NEW f, NEW ks
  PROVE  DOMAIN Drop(f, ks) = DOMAIN f \ ks /\ \A x \in DOMAIN f \ ks : Drop(f, ks)[x] = f[x]
BY DEF Drop

\* The list of a key, empty when there is none.
At(f, k) == IF k \in DOMAIN f THEN f[k] ELSE {}

\* One more in the list of a key.
Added(f, k, v, h) ==
  /\ DOMAIN h = DOMAIN f \cup {k}
  /\ At(h, k) = At(f, k) \cup {v}
  /\ \A x : x # k => At(h, x) = At(f, x)

\* What entry(k).or_default().push(v) does to a map.
LEMMA AddFacts ==
  ASSUME NEW f, NEW k, NEW v
  PROVE  Added(f, k, v, Add(f, k, v))
<1> DEFINE w == At(f, k) \cup {v}
<1>1. Add(f, k, v) = Put(f, k, w)
  BY DEF Add, At
<1> HIDE DEF w
<1>2. /\ DOMAIN Put(f, k, w) = DOMAIN f \cup {k} /\ Put(f, k, w)[k] = w
      /\ \A x \in DOMAIN f : x # k => Put(f, k, w)[x] = f[x]
  BY DEF Put
<1> QED
  BY <1>1, <1>2 DEF At, w, Added

\* One fewer in the list of a key, and no empty list kept for it.
Taken(f, k, v, h) ==
  /\ \A x : At(h, x) = IF x = k THEN At(f, k) \ {v} ELSE At(f, x)
  /\ DOMAIN h \subseteq DOMAIN f
  /\ \A x \in DOMAIN f : x # k => x \in DOMAIN h
  /\ k \in DOMAIN f => (k \in DOMAIN h <=> At(f, k) \ {v} # {})

\* What retain does to the list of a key, the emptied entry being removed.
LEMMA TakeFacts ==
  ASSUME NEW f, NEW k, NEW v
  PROVE  Taken(f, k, v, Take(f, k, v))
<1> USE DEF Taken
<1>1. CASE k \notin DOMAIN f
  BY <1>1 DEF Take, At
<1>2. CASE k \in DOMAIN f /\ f[k] \subseteq {v}
  <2>1. Take(f, k, v) = Drop(f, {k})
    BY <1>2 DEF Take
  <2>2. At(f, k) \ {v} = {}
    BY <1>2 DEF At
  <2>3. DOMAIN Drop(f, {k}) = DOMAIN f \ {k} /\ \A x \in DOMAIN f \ {k} : Drop(f, {k})[x] = f[x]
    BY Zenon, DropFacts
  <2> QED
    BY <1>2, <2>1, <2>2, <2>3 DEF At
<1>3. CASE k \in DOMAIN f /\ ~(f[k] \subseteq {v})
  <2> DEFINE w == f[k] \ {v}
  <2>1. Take(f, k, v) = Put(f, k, w)
    BY <1>3 DEF Take
  <2>2. At(f, k) \ {v} # {} /\ At(f, k) \ {v} = w
    BY <1>3 DEF At
  <2> HIDE DEF w
  <2>3. /\ DOMAIN Put(f, k, w) = DOMAIN f \cup {k} /\ Put(f, k, w)[k] = w
        /\ \A x \in DOMAIN f : x # k => Put(f, k, w)[x] = f[x]
    BY DEF Put
  <2> QED
    BY <1>3, <2>1, <2>2, <2>3 DEF At
<1> QED
  BY <1>1, <1>2, <1>3

-----------------------------------------------------------------------------
(* Graphs.                                                                 *)

\* What is assumed of the constants.
Bounds ==
  /\ HistoryCap \in Nat /\ MaxRuns \in Nat /\ MaxRoles \in Nat
  /\ Outcomes \subseteq Terminal

RunIds   == 1 .. MaxRuns
RoleIds  == 1 .. MaxRoles
Statuses == Terminal \cup {"Created", "Active"}

RunRecords ==
  [parent : RunIds \cup {0}, project : Projects, task : RunIds, status : Statuses,
   roles : Seq(RoleIds)]
RoleRecords == [run : RunIds, pane : Panes, activation : Nat, active : BOOLEAN]

Shape(g) ==
  g = [runs |-> g.runs, roles |-> g.roles, children |-> g.children, runPanes |-> g.runPanes,
       paneActive |-> g.paneActive, projectRuns |-> g.projectRuns, taskRuns |-> g.taskRuns,
       nextRun |-> g.nextRun, nextRole |-> g.nextRole, nextActivation |-> g.nextActivation]

\* Records and allocators: identities in use are below their allocator.
Typed(g) ==
  /\ g.nextRun \in Nat \ {0} /\ g.nextRole \in Nat \ {0} /\ g.nextActivation \in Nat \ {0}
  /\ \A r \in DOMAIN g.runs : r \in RunIds /\ r < g.nextRun /\ g.runs[r] \in RunRecords
  /\ \A i \in DOMAIN g.roles :
       /\ i \in RoleIds /\ i < g.nextRole /\ g.roles[i] \in RoleRecords
       /\ g.roles[i].activation < g.nextActivation

\* No activation is given to two roles.
Fresh(g) ==
  \A i, j \in DOMAIN g.roles :
    i # j /\ g.roles[i].activation = g.roles[j].activation => g.roles[i].activation = 0

\* A run has one live role when it is Active, and none otherwise.
LiveOf(g, run) == LiveRoles(g) \cap RolesOf(g, run)
OneLive(g) ==
  \A r \in DOMAIN g.runs :
    IF g.runs[r].status = "Active" THEN \E i : LiveOf(g, r) = {i} ELSE LiveOf(g, r) = {}

Sound(g) ==
  /\ Shape(g) /\ Typed(g) /\ Fresh(g) /\ OneLive(g) /\ Linked(g)
  /\ PanesIndexed(g) /\ ChildrenIndexed(g) /\ ProjectsIndexed(g) /\ TasksIndexed(g)

\* The cap on closed leaves.
Capped(g) == Cardinality(Prunable(g)) <= HistoryCap

\* The events that are appended.
CreatedEvents ==
  [type : {"Created"}, run : RunIds, parent : RunIds \cup {0}, project : Projects, task : RunIds]
RoleEvents == [type : {"RoleDeclared"}, run : RunIds, role : RoleIds, pane : Panes]
ActivatedEvents ==
  [type : {"Activated"}, run : RunIds, role : RoleIds, activation : Nat \ {0}, from : RoleIds \cup {0}]
FinishedEvents == [type : {"Finished"}, run : RunIds, status : Terminal]
Events == CreatedEvents \cup RoleEvents \cup ActivatedEvents \cup FinishedEvents

\* Created: a new run joins, without roles; its parent is no leaf any more.
LEMMA CreatedSound ==
  ASSUME Bounds, NEW g, Sound(g), NEW e \in CreatedEvents, CreatedAccepted(g, e)
  PROVE  Sound(Created(g, e)) /\ Prunable(Created(g, e)) \subseteq Prunable(g)
<1> DEFINE h   == Created(g, e)
           n   == e.run
           rec == [parent |-> e.parent, project |-> e.project, task |-> e.task,
                   status |-> "Created", roles |-> <<>>]
<1>0. /\ Shape(g) /\ Typed(g) /\ Fresh(g) /\ OneLive(g) /\ Linked(g)
      /\ PanesIndexed(g) /\ ChildrenIndexed(g) /\ ProjectsIndexed(g) /\ TasksIndexed(g)
  BY DEF Sound
<1>1. /\ n \in RunIds /\ e.parent \in RunIds \cup {0} /\ e.project \in Projects /\ e.task \in RunIds
      /\ n = g.nextRun /\ n \notin DOMAIN g.runs /\ (e.parent = 0 \/ e.parent \in DOMAIN g.runs)
      /\ e.task \notin DOMAIN g.taskRuns
  BY DEF CreatedEvents, CreatedAccepted
<1>2. Shape(g)
  BY <1>0
<1> HIDE DEF rec
<1>3. /\ h.runs = Put(g.runs, n, rec) /\ h.roles = g.roles
      /\ h.children = IF e.parent = 0 THEN g.children ELSE Add(g.children, e.parent, n)
      /\ h.runPanes = g.runPanes /\ h.paneActive = g.paneActive
      /\ h.projectRuns = Add(g.projectRuns, e.project, n)
      /\ h.taskRuns = Put(g.taskRuns, e.task, n) /\ h.nextRun = n + 1 /\ h.nextRole = g.nextRole
      /\ h.nextActivation = g.nextActivation /\ Shape(h)
  <2>1. h = [g EXCEPT !.runs = Put(@, n, rec), !.taskRuns = Put(@, e.task, n),
                      !.projectRuns = Add(@, e.project, n),
                      !.children = IF e.parent = 0 THEN @ ELSE Add(@, e.parent, n),
                      !.nextRun = n + 1]
    BY DEF Created, rec
  <2> HIDE DEF h, n
  <2> QED
    BY Zenon, <1>2, <2>1 DEF Shape
<1> HIDE DEF h
<1> USE DEF rec
<1>4. /\ rec \in RunRecords /\ rec.parent = e.parent /\ rec.project = e.project /\ rec.task = e.task
      /\ rec.status = "Created" /\ rec.roles = <<>>
  BY <1>1 DEF RunRecords, Statuses
<1> HIDE DEF rec
<1>5. /\ DOMAIN h.runs = DOMAIN g.runs \cup {n} /\ h.runs[n] = rec
      /\ \A r \in DOMAIN g.runs : h.runs[r] = g.runs[r]
  BY <1>1, <1>3 DEF Put
<1>6. RolesOf(g, n) = {} /\ \A r : RolesOf(h, r) = RolesOf(g, r) /\ LiveOf(h, r) = LiveOf(g, r)
  BY <1>0, <1>1, <1>3 DEF RolesOf, LiveOf, LiveRoles, Linked
<1>7. LiveRoles(h) = LiveRoles(g)
  BY <1>3 DEF LiveRoles
<1>8. Typed(h)
  <2>1. \A r \in DOMAIN h.runs : r \in RunIds /\ r < h.nextRun /\ h.runs[r] \in RunRecords
    BY <1>0, <1>1, <1>3, <1>4, <1>5 DEF Typed, RunIds
  <2>2. n + 1 \in Nat \ {0}
    BY <1>1 DEF RunIds
  <2> QED
    BY <1>0, <1>3, <2>1, <2>2 DEF Typed
<1>9. Fresh(h)
  BY <1>0, <1>3 DEF Fresh
<1>10. OneLive(h)
  <2>1. LiveOf(h, n) = {}
    BY <1>6 DEF LiveOf
  <2>2. "Created" # "Active"
    OBVIOUS
  <2> QED
    BY Zenon, <1>0, <1>4, <1>5, <1>6, <2>1, <2>2 DEF OneLive
<1>11. Linked(h)
  <2>1. \A r \in DOMAIN h.runs : h.runs[r].parent \in DOMAIN h.runs \cup {0}
    BY <1>0, <1>1, <1>4, <1>5 DEF Linked
  <2>2. \A i \in DOMAIN h.roles : h.roles[i].run \in DOMAIN h.runs
    BY <1>0, <1>3, <1>5 DEF Linked
  <2>3. {rec.roles[k] : k \in DOMAIN rec.roles} = {}
    BY <1>4
  <2>4. ASSUME NEW r \in DOMAIN h.runs
        PROVE  {h.runs[r].roles[k] : k \in DOMAIN h.runs[r].roles} = RolesOf(h, r)
    <3>1. CASE r = n
      BY <1>4, <1>5, <1>6, <2>3, <3>1
    <3>2. CASE r \in DOMAIN g.runs
      BY <1>0, <1>5, <1>6, <3>2 DEF Linked
    <3> QED
      BY <1>5, <3>1, <3>2
  <2> QED
    BY <2>1, <2>2, <2>4 DEF Linked
<1>12. PanesIndexed(h)
  <2>1. RunPanes(h, n) = {} /\ \A r \in DOMAIN g.runs : RunPanes(h, r) = RunPanes(g, r)
    BY <1>0, <1>1, <1>3 DEF RunPanes, PanesIndexed
  <2>2. \A r \in DOMAIN h.runs : RunPanes(h, r) = {h.roles[i].pane : i \in RolesOf(h, r)}
    BY <1>0, <1>3, <1>5, <1>6, <2>1 DEF PanesIndexed
  <2> QED
    BY <1>0, <1>3, <1>5, <1>7, <2>2 DEF PanesIndexed
<1>13. ChildrenIndexed(h)
  <2>0. Added(g.children, e.parent, n, Add(g.children, e.parent, n))
    BY AddFacts
  <2>1. \A x : At(h.children, x) = IF x = e.parent /\ x # 0 THEN At(g.children, x) \cup {n}
                                   ELSE At(g.children, x)
    BY Zenon, <1>3, <2>0 DEF Added
  <2>2. DOMAIN h.children \subseteq DOMAIN h.runs
    BY <1>0, <1>1, <1>3, <1>5, <2>0 DEF ChildrenIndexed, Added
  <2>3. \A r \in DOMAIN g.runs : At(g.children, r) = {c \in DOMAIN g.runs : g.runs[c].parent = r}
    BY <1>0 DEF ChildrenIndexed, Children, At
  <2>4. At(g.children, n) = {} /\ \A c \in DOMAIN g.runs : g.runs[c].parent # n
    BY <1>0, <1>1 DEF ChildrenIndexed, Linked, At, RunIds
  <2>5. n # 0 /\ e.parent # n /\ \A r \in DOMAIN g.runs : r # 0
    BY <1>0, <1>1 DEF RunIds, Typed
  <2>6. ASSUME NEW r \in DOMAIN h.runs
        PROVE  At(h.children, r) = {c \in DOMAIN h.runs : h.runs[c].parent = r}
    <3>1. CASE r = n
      BY Zenon, <1>4, <1>5, <2>1, <2>4, <2>5, <3>1
    <3>2. CASE r \in DOMAIN g.runs
      <4>1. {c \in DOMAIN h.runs : h.runs[c].parent = r}
              = {c \in DOMAIN g.runs : g.runs[c].parent = r} \cup (IF e.parent = r THEN {n} ELSE {})
        BY <1>1, <1>4, <1>5
      <4> QED
        BY Zenon, <2>1, <2>3, <2>5, <3>2, <4>1
    <3> QED
      BY <1>5, <3>1, <3>2
  <2> QED
    BY <2>2, <2>6 DEF ChildrenIndexed, Children, At
<1>14. ProjectsIndexed(h)
  <2> DEFINE q == e.project
  <2>1. /\ DOMAIN h.projectRuns = DOMAIN g.projectRuns \cup {q}
        /\ At(h.projectRuns, q) = At(g.projectRuns, q) \cup {n}
        /\ \A x : x # q => At(h.projectRuns, x) = At(g.projectRuns, x)
    <3>1. Added(g.projectRuns, q, n, Add(g.projectRuns, q, n))
      BY AddFacts
    <3> QED
      BY <1>3, <3>1 DEF Added
  <2>2. \A p : At(g.projectRuns, p) = {r \in DOMAIN g.runs : g.runs[r].project = p}
    BY <1>0 DEF ProjectsIndexed, At
  <2> HIDE DEF q
  <2>3. \A p : At(h.projectRuns, p) = {r \in DOMAIN h.runs : h.runs[r].project = p}
    BY <1>1, <1>4, <1>5, <2>1, <2>2 DEF q
  <2>4. DOMAIN h.projectRuns = {h.runs[r].project : r \in DOMAIN h.runs}
    BY <1>0, <1>1, <1>4, <1>5, <2>1 DEF ProjectsIndexed, q
  <2> QED
    BY <2>3, <2>4 DEF ProjectsIndexed, At
<1>15. TasksIndexed(h)
  <2>1. /\ DOMAIN h.taskRuns = DOMAIN g.taskRuns \cup {e.task} /\ h.taskRuns[e.task] = n
        /\ \A x \in DOMAIN g.taskRuns : h.taskRuns[x] = g.taskRuns[x]
    BY <1>1, <1>3 DEF Put
  <2> QED
    BY <1>0, <1>1, <1>4, <1>5, <2>1 DEF TasksIndexed
<1>16. Prunable(h) \subseteq Prunable(g)
  <2>1. n \notin Prunable(h)
    BY <1>4, <1>5 DEF Prunable, Terminal
  <2>2. \A r \in DOMAIN g.runs : Children(g, r) \subseteq Children(h, r)
    BY <1>0, <1>5, <1>13 DEF ChildrenIndexed
  <2> QED
    BY <1>5, <2>1, <2>2 DEF Prunable
<1> QED
  BY <1>3, <1>8, <1>9, <1>10, <1>11, <1>12, <1>13, <1>14, <1>15, <1>16 DEF Sound, h

Held(s) == {s[k] : k \in DOMAIN s}

\* What a list holds once one more is pushed.
LEMMA AppendRange ==
  ASSUME NEW S, NEW s \in Seq(S), NEW x \in S
  PROVE  /\ Append(s, x) \in Seq(S)
         /\ Held(Append(s, x)) = Held(s) \cup {x}
<1>1. /\ Append(s, x) \in Seq(S) /\ Len(s) \in Nat /\ DOMAIN s = 1 .. Len(s)
      /\ DOMAIN Append(s, x) = 1 .. Len(s) + 1 /\ Append(s, x)[Len(s) + 1] = x
      /\ \A k \in 1 .. Len(s) : Append(s, x)[k] = s[k]
  OBVIOUS
<1>2. 1 .. Len(s) + 1 = (1 .. Len(s)) \cup {Len(s) + 1}
  BY <1>1
<1> DEFINE t == Append(s, x)
<1> HIDE DEF t
<1>3. \A k \in DOMAIN t : t[k] \in {s[j] : j \in DOMAIN s} \cup {x}
  BY <1>1, <1>2 DEF t
<1>4. \A k \in DOMAIN s : k \in DOMAIN t /\ t[k] = s[k]
  BY <1>1, <1>2 DEF t
<1>5. Len(s) + 1 \in DOMAIN t /\ t[Len(s) + 1] = x
  BY <1>1, <1>2 DEF t
<1>6. {t[k] : k \in DOMAIN t} = {s[k] : k \in DOMAIN s} \cup {x}
  BY <1>3, <1>4, <1>5
<1> QED
  BY <1>1, <1>6 DEF t, Held

\* RoleDeclared: a role without a turn joins a run that is still open.
LEMMA RoleDeclaredSound ==
  ASSUME Bounds, NEW g, Sound(g), NEW e \in RoleEvents, RoleAccepted(g, e)
  PROVE  Sound(RoleDeclared(g, e)) /\ Prunable(RoleDeclared(g, e)) = Prunable(g)
<1> DEFINE h   == RoleDeclared(g, e)
           n   == e.run
           i   == e.role
           old == g.runs[n]
           new == [run |-> n, pane |-> e.pane, activation |-> 0, active |-> FALSE]
<1>0. /\ Shape(g) /\ Typed(g) /\ Fresh(g) /\ OneLive(g) /\ Linked(g)
      /\ PanesIndexed(g) /\ ChildrenIndexed(g) /\ ProjectsIndexed(g) /\ TasksIndexed(g)
  BY DEF Sound
<1>1. /\ n \in RunIds /\ i \in RoleIds /\ e.pane \in Panes
      /\ n \in DOMAIN g.runs /\ g.runs[n].status \notin Terminal
      /\ i = g.nextRole /\ i \notin DOMAIN g.roles
  BY DEF RoleEvents, RoleAccepted
<1>2. Shape(g)
  BY <1>0
<1> HIDE DEF new
<1>3. /\ h.runs = [g.runs EXCEPT ![n].roles = Append(@, i)] /\ h.roles = Put(g.roles, i, new)
      /\ h.children = g.children /\ h.runPanes = Add(g.runPanes, n, e.pane)
      /\ h.paneActive = g.paneActive /\ h.projectRuns = g.projectRuns
      /\ h.taskRuns = g.taskRuns /\ h.nextRun = g.nextRun /\ h.nextRole = i + 1
      /\ h.nextActivation = g.nextActivation /\ Shape(h)
  <2>1. h = [g EXCEPT !.runs[n].roles = Append(@, i), !.roles = Put(@, i, new),
                      !.runPanes = Add(@, n, e.pane), !.nextRole = i + 1]
    BY DEF RoleDeclared, new
  <2> HIDE DEF h, n, i
  <2> QED
    BY Zenon, <1>2, <2>1 DEF Shape
<1> HIDE DEF h
<1>4. /\ new \in RoleRecords /\ new.run = n /\ new.pane = e.pane /\ new.activation = 0
      /\ new.active = FALSE
  BY <1>1 DEF RoleRecords, new
<1>5. /\ old \in RunRecords /\ old.roles \in Seq(RoleIds)
  BY <1>0, <1>1 DEF Typed, RunRecords
<1>6. /\ DOMAIN h.runs = DOMAIN g.runs
      /\ h.runs[n] = [old EXCEPT !.roles = Append(@, i)]
      /\ \A r \in DOMAIN g.runs : r # n => h.runs[r] = g.runs[r]
  BY <1>1, <1>3
<1> HIDE DEF n, i
<1>7. /\ h.runs[n] \in RunRecords /\ h.runs[n].parent = old.parent /\ h.runs[n].task = old.task
      /\ h.runs[n].project = old.project /\ h.runs[n].status = old.status
      /\ h.runs[n].roles = Append(old.roles, i)
  <2>1. Append(old.roles, i) \in Seq(RoleIds)
    BY <1>1, <1>5
  <2> HIDE DEF old
  <2> QED
    BY <1>5, <1>6, <2>1 DEF RunRecords
<1>8. \A r \in DOMAIN g.runs :
        /\ h.runs[r].parent = g.runs[r].parent /\ h.runs[r].task = g.runs[r].task
        /\ h.runs[r].project = g.runs[r].project /\ h.runs[r].status = g.runs[r].status
        /\ h.runs[r] \in RunRecords
  BY Zenon, <1>0, <1>6, <1>7 DEF Typed
<1>9. /\ DOMAIN h.roles = DOMAIN g.roles \cup {i} /\ h.roles[i] = new
      /\ \A j \in DOMAIN g.roles : h.roles[j] = g.roles[j]
  BY <1>1, <1>3 DEF Put
<1>10. LiveRoles(h) = LiveRoles(g)
  BY <1>1, <1>4, <1>9 DEF LiveRoles
<1>11. /\ RolesOf(h, n) = RolesOf(g, n) \cup {i}
       /\ \A r : r # n => RolesOf(h, r) = RolesOf(g, r)
  BY <1>1, <1>4, <1>9 DEF RolesOf
<1>12. \A r : LiveOf(h, r) = LiveOf(g, r)
  BY <1>1, <1>10, <1>11 DEF LiveOf, LiveRoles
<1>13. Typed(h)
  <2>1. \A r \in DOMAIN h.runs : r \in RunIds /\ r < h.nextRun /\ h.runs[r] \in RunRecords
    BY Zenon, <1>0, <1>3, <1>6, <1>8 DEF Typed
  <2>2. \A j \in DOMAIN h.roles :
          /\ j \in RoleIds /\ j < h.nextRole /\ h.roles[j] \in RoleRecords
          /\ h.roles[j].activation < h.nextActivation
    BY <1>0, <1>1, <1>3, <1>4, <1>9 DEF Typed, RoleIds
  <2>3. i + 1 \in Nat \ {0}
    BY <1>1 DEF RoleIds
  <2> QED
    BY Zenon, <1>0, <1>3, <2>1, <2>2, <2>3 DEF Typed
<1>14. Fresh(h)
  BY <1>0, <1>4, <1>9 DEF Fresh
<1>15. OneLive(h)
  BY Zenon, <1>0, <1>6, <1>8, <1>12 DEF OneLive
<1>16. Linked(h)
  <2>1. \A r \in DOMAIN h.runs : h.runs[r].parent \in DOMAIN h.runs \cup {0}
    BY <1>0, <1>6, <1>8 DEF Linked
  <2>2. \A j \in DOMAIN h.roles : h.roles[j].run \in DOMAIN h.runs
    BY <1>0, <1>1, <1>4, <1>6, <1>9 DEF Linked
  <2>3. {h.runs[n].roles[k] : k \in DOMAIN h.runs[n].roles} = RolesOf(h, n)
    <3>1. Held(Append(old.roles, i)) = Held(old.roles) \cup {i}
      BY <1>1, <1>5, AppendRange
    <3>2. Held(old.roles) = RolesOf(g, n)
      BY <1>0, <1>1 DEF Linked, Held
    <3> QED
      BY Zenon, <1>7, <1>11, <3>1, <3>2 DEF Held
  <2>4. \A r \in DOMAIN h.runs :
          r # n => {h.runs[r].roles[k] : k \in DOMAIN h.runs[r].roles} = RolesOf(h, r)
    BY <1>0, <1>6, <1>11 DEF Linked
  <2> QED
    BY <2>1, <2>2, <2>3, <2>4 DEF Linked
<1>17. PanesIndexed(h)
  <2>1. Added(g.runPanes, n, e.pane, h.runPanes)
    BY <1>3, AddFacts
  <2>2. \A r : RunPanes(g, r) = At(g.runPanes, r) /\ RunPanes(h, r) = At(h.runPanes, r)
    BY DEF RunPanes, At
  <2>3. /\ DOMAIN h.paneActive = {h.roles[j].pane : j \in LiveRoles(h)}
        /\ \A j \in LiveRoles(h) : h.paneActive[h.roles[j].pane] = <<h.roles[j].run, j>>
    BY <1>0, <1>3, <1>9, <1>10 DEF PanesIndexed, LiveRoles
  <2>4. DOMAIN h.runPanes \subseteq DOMAIN h.runs
    BY <1>0, <1>1, <1>6, <2>1 DEF PanesIndexed, Added
  <2>5. \A r : {h.roles[j].pane : j \in RolesOf(g, r)} = {g.roles[j].pane : j \in RolesOf(g, r)}
    BY <1>9 DEF RolesOf
  <2>6. ASSUME NEW r \in DOMAIN h.runs, r # n
        PROVE  RunPanes(h, r) = {h.roles[j].pane : j \in RolesOf(h, r)}
    <3>1. RunPanes(h, r) = RunPanes(g, r)
      BY <2>1, <2>2, <2>6 DEF Added
    <3>2. RunPanes(g, r) = {g.roles[j].pane : j \in RolesOf(g, r)}
      BY <1>0, <1>6 DEF PanesIndexed
    <3>3. RolesOf(h, r) = RolesOf(g, r)
      BY <1>11, <2>6
    <3> QED
      BY Zenon, <2>5, <3>1, <3>2, <3>3
  <2>7. RunPanes(h, n) = {h.roles[j].pane : j \in RolesOf(h, n)}
    <3>1. {h.roles[j].pane : j \in RolesOf(h, n)} = {h.roles[j].pane : j \in RolesOf(g, n)} \cup {e.pane}
      BY <1>4, <1>9, <1>11
    <3>2. RunPanes(g, n) = {g.roles[j].pane : j \in RolesOf(g, n)}
      BY <1>0, <1>1 DEF PanesIndexed
    <3> QED
      BY Zenon, <2>1, <2>2, <2>5, <3>1, <3>2 DEF Added
  <2> QED
    BY <2>3, <2>4, <2>6, <2>7 DEF PanesIndexed
<1>18. ChildrenIndexed(h)
  BY <1>0, <1>3, <1>6, <1>8 DEF ChildrenIndexed, Children
<1>19. ProjectsIndexed(h)
  BY <1>0, <1>3, <1>6, <1>8 DEF ProjectsIndexed
<1>20. TasksIndexed(h)
  BY <1>0, <1>3, <1>6, <1>8 DEF TasksIndexed
<1>21. Prunable(h) = Prunable(g)
  BY <1>3, <1>6, <1>8 DEF Prunable, Children
<1> QED
  BY <1>3, <1>13, <1>14, <1>15, <1>16, <1>17, <1>18, <1>19, <1>20, <1>21 DEF Sound, h

-----------------------------------------------------------------------------
(* The live activation.                                                    *)

\* The least of a non-empty set of naturals.
LEMMA MinFacts ==
  ASSUME NEW S \in SUBSET Nat, S # {}
  PROVE  Min(S) \in S
<1>1. \E x \in S : \A y \in S : x <= y
  BY LeastNatural
<1> QED
  BY Zenon, <1>1 DEF Min

\* active_role finds the live role of a run when there is one, and none otherwise.
LEMMA ActiveRoleFacts ==
  ASSUME Bounds, NEW g, Sound(g), NEW run \in DOMAIN g.runs
  PROVE  \/ LiveOf(g, run) = {} /\ ActiveRole(g, run) = 0
         \/ LiveOf(g, run) = {ActiveRole(g, run)} /\ ActiveRole(g, run) # 0
<1> DEFINE roles == g.runs[run].roles
           live  == {k \in DOMAIN roles : g.roles[roles[k]].active}
           a     == roles[Min(live)]
<1>1. roles \in Seq(RoleIds) /\ Held(roles) = RolesOf(g, run)
  BY DEF Sound, Typed, RunRecords, Linked, Held
<1>2. ActiveRole(g, run) = IF live = {} THEN 0 ELSE a
  BY DEF ActiveRole
<1>3. live \in SUBSET Nat /\ \A k \in DOMAIN roles : roles[k] \in RoleIds
  BY <1>1
<1> HIDE DEF roles
<1>4. \A k \in DOMAIN roles : roles[k] \in DOMAIN g.roles /\ roles[k] \in RolesOf(g, run)
  BY <1>1 DEF Held, RolesOf
<1>5. CASE live = {}
  <2>1. LiveOf(g, run) = {}
    <3>1. ASSUME NEW i \in LiveOf(g, run) PROVE FALSE
      <4>1. i \in RolesOf(g, run) /\ g.roles[i].active
        BY <3>1 DEF LiveOf, LiveRoles
      <4>2. PICK k \in DOMAIN roles : roles[k] = i
        BY <1>1, <4>1 DEF Held
      <4>3. k \in live
        BY <4>1, <4>2
      <4> QED
        BY <1>5, <4>3
    <3> QED
      BY <3>1
  <2> QED
    BY <1>2, <1>5, <2>1
<1>6. CASE live # {}
  <2>1. Min(live) \in live
    <3> HIDE DEF live
    <3> QED
      BY <1>3, <1>6, MinFacts
  <2> DEFINE m == Min(live)
  <2> HIDE DEF m
  <2>2. roles[m] \in LiveOf(g, run) /\ roles[m] \in RoleIds
    BY Zenon, <1>3, <1>4, <2>1 DEF LiveOf, LiveRoles, m
  <2>3. \E i : LiveOf(g, run) = {i}
    BY <2>2 DEF Sound, OneLive
  <2>4. LiveOf(g, run) = {roles[m]} /\ roles[m] # 0
    BY <2>2, <2>3 DEF RoleIds
  <2> QED
    BY <1>2, <1>6, <2>4 DEF m
<1> QED
  BY <1>5, <1>6

\* What closing the live activation of a run leaves: everything as it was, but for
\* that role and the Pane it held.
Released(g, run, h) ==
  /\ Shape(h) /\ h.runs = g.runs /\ h.children = g.children /\ h.runPanes = g.runPanes
  /\ h.projectRuns = g.projectRuns /\ h.taskRuns = g.taskRuns
  /\ h.nextRun = g.nextRun /\ h.nextRole = g.nextRole /\ h.nextActivation = g.nextActivation
  /\ DOMAIN h.roles = DOMAIN g.roles
  /\ \A i \in DOMAIN g.roles :
       /\ h.roles[i] \in RoleRecords /\ h.roles[i].run = g.roles[i].run
       /\ h.roles[i].pane = g.roles[i].pane /\ h.roles[i].activation = g.roles[i].activation
  /\ LiveRoles(h) = LiveRoles(g) \ RolesOf(g, run)
  /\ DOMAIN h.paneActive = {g.roles[i].pane : i \in LiveRoles(h)}
  /\ \A i \in LiveRoles(h) : h.paneActive[g.roles[i].pane] = <<g.roles[i].run, i>>

\* The live activation of a run is closed and its Pane released.
LEMMA ReleaseFacts ==
  ASSUME Bounds, NEW g, Sound(g), NEW run \in DOMAIN g.runs
  PROVE  Released(g, run, Release(g, run))
<1> DEFINE a == ActiveRole(g, run)
           h == Release(g, run)
<1>0. /\ Shape(g) /\ Typed(g) /\ PanesIndexed(g)
  BY DEF Sound
<1>1. \/ LiveOf(g, run) = {} /\ a = 0
      \/ LiveOf(g, run) = {a} /\ a # 0
  BY ActiveRoleFacts
<1> HIDE DEF a
<1>2. CASE LiveOf(g, run) = {} /\ a = 0
  <2>1. h = g
    BY <1>2 DEF Release, a
  <2>2. LiveRoles(g) = LiveRoles(g) \ RolesOf(g, run)
    BY <1>2 DEF LiveOf
  <2> HIDE DEF h
  <2> QED
    BY <1>0, <2>1, <2>2 DEF Released, PanesIndexed, Typed, h
<1>3. CASE LiveOf(g, run) = {a} /\ a # 0
  <2> DEFINE pane == g.roles[a].pane
  <2>1. h = [g EXCEPT !.roles[a].active = FALSE, !.paneActive = Drop(@, {pane})]
    BY <1>3 DEF Release, a
  <2> HIDE DEF h
  <2>2. /\ h.runs = g.runs /\ h.children = g.children /\ h.runPanes = g.runPanes
        /\ h.projectRuns = g.projectRuns /\ h.taskRuns = g.taskRuns
        /\ h.nextRun = g.nextRun /\ h.nextRole = g.nextRole
        /\ h.nextActivation = g.nextActivation
        /\ h.roles = [g.roles EXCEPT ![a].active = FALSE]
        /\ h.paneActive = Drop(g.paneActive, {pane}) /\ Shape(h)
    <3> HIDE DEF pane
    <3> QED
      BY Zenon, <1>0, <2>1 DEF Shape
  <2>3. a \in LiveRoles(g) /\ a \in RolesOf(g, run) /\ a \in DOMAIN g.roles
    BY <1>3 DEF LiveOf, LiveRoles
  <2>4. g.roles[a] \in RoleRecords
    BY <1>0, <2>3 DEF Typed
  <2>5. /\ DOMAIN h.roles = DOMAIN g.roles /\ h.roles[a] = [g.roles[a] EXCEPT !.active = FALSE]
        /\ \A i \in DOMAIN g.roles : i # a => h.roles[i] = g.roles[i]
    BY <2>2, <2>3
  <2>6. /\ h.roles[a] \in RoleRecords /\ h.roles[a].run = g.roles[a].run
        /\ h.roles[a].pane = g.roles[a].pane /\ h.roles[a].activation = g.roles[a].activation
        /\ h.roles[a].active = FALSE
    BY Zenon, <2>4, <2>5 DEF RoleRecords
  <2>7. \A i \in DOMAIN g.roles :
          /\ h.roles[i] \in RoleRecords /\ h.roles[i].run = g.roles[i].run
          /\ h.roles[i].pane = g.roles[i].pane /\ h.roles[i].activation = g.roles[i].activation
    BY Zenon, <1>0, <2>5, <2>6 DEF Typed
  <2>8. LiveRoles(h) = LiveRoles(g) \ {a}
    BY Zenon, <2>3, <2>5, <2>6 DEF LiveRoles
  <2>9. LiveRoles(h) = LiveRoles(g) \ RolesOf(g, run)
    BY <1>3, <2>3, <2>8 DEF LiveOf
  <2>10. \A i \in LiveRoles(h) : g.roles[i].pane # pane
    BY <1>0, <2>3, <2>8 DEF PanesIndexed
  <2>11. /\ DOMAIN h.paneActive = DOMAIN g.paneActive \ {pane}
         /\ \A x \in DOMAIN g.paneActive \ {pane} : h.paneActive[x] = g.paneActive[x]
    BY <2>2 DEF Drop
  <2>12. DOMAIN h.paneActive = {g.roles[i].pane : i \in LiveRoles(h)}
    BY <1>0, <2>3, <2>8, <2>10, <2>11 DEF PanesIndexed
  <2>13. \A i \in LiveRoles(h) : h.paneActive[g.roles[i].pane] = <<g.roles[i].run, i>>
    BY <1>0, <2>8, <2>10, <2>11 DEF PanesIndexed
  <2> QED
    BY Zenon, <2>2, <2>5, <2>7, <2>9, <2>12, <2>13 DEF Released, h
<1> QED
  BY <1>1, <1>2, <1>3

\* A graph that differs from g in the status of a run and in the turns of the roles.
Restatused(g, run, status, k) ==
  /\ Shape(k) /\ k.runs = [g.runs EXCEPT ![run].status = status] /\ k.children = g.children
  /\ k.runPanes = g.runPanes /\ k.projectRuns = g.projectRuns /\ k.taskRuns = g.taskRuns
  /\ k.nextRun = g.nextRun /\ k.nextRole = g.nextRole
  /\ DOMAIN k.roles = DOMAIN g.roles
  /\ \A i \in DOMAIN g.roles :
       /\ k.roles[i] \in RoleRecords
       /\ k.roles[i].run = g.roles[i].run /\ k.roles[i].pane = g.roles[i].pane

\* It keeps every index but the one of the turns.
LEMMA RestatusFacts ==
  ASSUME Bounds, NEW g, Sound(g), NEW run \in DOMAIN g.runs, NEW status \in Statuses,
         NEW k, Restatused(g, run, status, k)
  PROVE  /\ DOMAIN k.runs = DOMAIN g.runs /\ k.runs[run].status = status
         /\ \A r \in DOMAIN g.runs :
              /\ k.runs[r] \in RunRecords
              /\ r # run => k.runs[r].status = g.runs[r].status
         /\ \A r : RolesOf(k, r) = RolesOf(g, r) /\ Children(k, r) = Children(g, r)
         /\ Linked(k) /\ ChildrenIndexed(k) /\ ProjectsIndexed(k) /\ TasksIndexed(k)
         /\ DOMAIN k.runPanes \subseteq DOMAIN k.runs
         /\ \A r \in DOMAIN k.runs : RunPanes(k, r) = {k.roles[i].pane : i \in RolesOf(k, r)}
<1>0. /\ Typed(g) /\ Linked(g)
      /\ PanesIndexed(g) /\ ChildrenIndexed(g) /\ ProjectsIndexed(g) /\ TasksIndexed(g)
  BY DEF Sound
<1>1. /\ DOMAIN k.runs = DOMAIN g.runs
      /\ k.runs[run] = [g.runs[run] EXCEPT !.status = status]
      /\ \A r \in DOMAIN g.runs : r # run => k.runs[r] = g.runs[r]
  BY DEF Restatused
<1>2. g.runs[run] \in RunRecords
  BY <1>0 DEF Typed
<1>3. /\ k.runs[run] \in RunRecords /\ k.runs[run].status = status
      /\ k.runs[run].parent = g.runs[run].parent /\ k.runs[run].project = g.runs[run].project
      /\ k.runs[run].task = g.runs[run].task /\ k.runs[run].roles = g.runs[run].roles
  BY <1>1, <1>2 DEF RunRecords
<1>4. \A r \in DOMAIN g.runs :
        /\ k.runs[r] \in RunRecords
        /\ k.runs[r].parent = g.runs[r].parent /\ k.runs[r].project = g.runs[r].project
        /\ k.runs[r].task = g.runs[r].task /\ k.runs[r].roles = g.runs[r].roles
        /\ r # run => k.runs[r].status = g.runs[r].status
  BY Zenon, <1>0, <1>1, <1>3 DEF Typed
<1>5. \A r : RolesOf(k, r) = RolesOf(g, r)
  BY DEF Restatused, RolesOf
<1>6. \A r : Children(k, r) = Children(g, r)
  BY DEF Restatused, Children
<1>7. Linked(k)
  <2>1. \A i \in DOMAIN k.roles : k.roles[i].run \in DOMAIN k.runs
    BY <1>0, <1>1 DEF Linked, Restatused
  <2> QED
    BY <1>0, <1>1, <1>4, <1>5, <2>1 DEF Linked
<1>8. ChildrenIndexed(k)
  <2>1. k.children = g.children
    BY DEF Restatused
  <2> QED
    BY <1>0, <1>1, <1>4, <1>6, <2>1 DEF ChildrenIndexed
<1>9. ProjectsIndexed(k)
  <2>1. k.projectRuns = g.projectRuns
    BY DEF Restatused
  <2> QED
    BY <1>0, <1>1, <1>4, <2>1 DEF ProjectsIndexed
<1>10. TasksIndexed(k)
  <2>1. k.taskRuns = g.taskRuns
    BY DEF Restatused
  <2> QED
    BY <1>0, <1>1, <1>4, <2>1 DEF TasksIndexed
<1>11. k.runPanes = g.runPanes /\ \A r : RunPanes(k, r) = RunPanes(g, r)
  BY DEF Restatused, RunPanes
<1>12. \A r : {k.roles[i].pane : i \in RolesOf(k, r)} = {g.roles[i].pane : i \in RolesOf(g, r)}
  <2>1. \A i \in DOMAIN g.roles : k.roles[i].pane = g.roles[i].pane
    BY DEF Restatused
  <2>2. \A r : \A i \in RolesOf(g, r) : k.roles[i].pane = g.roles[i].pane
    BY <2>1 DEF RolesOf
  <2> QED
    BY <1>5, <2>2
<1>13. /\ DOMAIN k.runPanes \subseteq DOMAIN k.runs
       /\ \A r \in DOMAIN k.runs : RunPanes(k, r) = {k.roles[i].pane : i \in RolesOf(k, r)}
  BY Zenon, <1>0, <1>1, <1>11, <1>12 DEF PanesIndexed
<1> QED
  BY <1>1, <1>3, <1>4, <1>5, <1>6, <1>7, <1>8, <1>9, <1>10, <1>13

\* A run whose turn is closed and that is given a terminal status.
Ended(g, run, status) == [Release(g, run) EXCEPT !.runs[run].status = status]

\* finish, before it prunes: closing the turn and the run keeps the graph sound.
LEMMA EndedSound ==
  ASSUME Bounds, NEW g, Sound(g), NEW run \in DOMAIN g.runs, NEW status \in Terminal
  PROVE  Sound(Ended(g, run, status))
<1> DEFINE h == Release(g, run)
           k == Ended(g, run, status)
<1>0. Typed(g) /\ Fresh(g) /\ OneLive(g)
  BY DEF Sound
<1>1. Released(g, run, h)
  BY ReleaseFacts
<1>2. k = [h EXCEPT !.runs[run].status = status]
  BY DEF Ended
<1> HIDE DEF h, k
<1>3. /\ k.runs = [g.runs EXCEPT ![run].status = status] /\ k.roles = h.roles
      /\ k.children = g.children /\ k.runPanes = g.runPanes /\ k.paneActive = h.paneActive
      /\ k.projectRuns = g.projectRuns /\ k.taskRuns = g.taskRuns
      /\ k.nextRun = g.nextRun /\ k.nextRole = g.nextRole
      /\ k.nextActivation = g.nextActivation /\ Shape(k)
  <2>1. /\ Shape(h) /\ h.runs = g.runs /\ h.children = g.children /\ h.runPanes = g.runPanes
        /\ h.projectRuns = g.projectRuns /\ h.taskRuns = g.taskRuns
        /\ h.nextRun = g.nextRun /\ h.nextRole = g.nextRole /\ h.nextActivation = g.nextActivation
    BY <1>1 DEF Released
  <2> QED
    BY <1>2, <2>1 DEF Shape
<1>4. Restatused(g, run, status, k)
  BY <1>1, <1>3 DEF Restatused, Released
<1>5. status \in Statuses /\ status # "Active"
  BY DEF Statuses, Terminal
<1>6. /\ DOMAIN k.runs = DOMAIN g.runs /\ k.runs[run].status = status
      /\ \A r \in DOMAIN g.runs :
           /\ k.runs[r] \in RunRecords
           /\ r # run => k.runs[r].status = g.runs[r].status
      /\ \A r : RolesOf(k, r) = RolesOf(g, r)
      /\ Linked(k) /\ ChildrenIndexed(k) /\ ProjectsIndexed(k) /\ TasksIndexed(k)
      /\ DOMAIN k.runPanes \subseteq DOMAIN k.runs
      /\ \A r \in DOMAIN k.runs : RunPanes(k, r) = {k.roles[i].pane : i \in RolesOf(k, r)}
  BY <1>4, <1>5, RestatusFacts
<1>7. LiveRoles(k) = LiveRoles(g) \ RolesOf(g, run)
  BY <1>1, <1>3 DEF Released, LiveRoles
<1>8. \A i \in DOMAIN g.roles :
        /\ k.roles[i] \in RoleRecords /\ k.roles[i].run = g.roles[i].run
        /\ k.roles[i].pane = g.roles[i].pane /\ k.roles[i].activation = g.roles[i].activation
  BY <1>1, <1>3 DEF Released
<1>9. DOMAIN k.roles = DOMAIN g.roles
  BY <1>1, <1>3 DEF Released
<1>10. Typed(k)
  BY <1>0, <1>3, <1>6, <1>8, <1>9 DEF Typed
<1>11. Fresh(k)
  BY <1>0, <1>8, <1>9 DEF Fresh
<1>12. OneLive(k)
  <2>1. LiveOf(k, run) = {}
    BY <1>6, <1>7 DEF LiveOf
  <2>2. \A r \in DOMAIN g.runs : r # run => LiveOf(k, r) = LiveOf(g, r)
    BY <1>6, <1>7 DEF LiveOf, RolesOf
  <2> QED
    BY Zenon, <1>0, <1>5, <1>6, <2>1, <2>2 DEF OneLive
<1>13. PanesIndexed(k)
  <2>1. LiveRoles(k) = LiveRoles(h)
    BY <1>3 DEF LiveRoles
  <2>2. /\ DOMAIN h.paneActive = {g.roles[i].pane : i \in LiveRoles(h)}
        /\ \A i \in LiveRoles(h) : h.paneActive[g.roles[i].pane] = <<g.roles[i].run, i>>
    BY <1>1 DEF Released
  <2>3. \A i \in LiveRoles(k) : k.roles[i].run = g.roles[i].run /\ k.roles[i].pane = g.roles[i].pane
    BY <1>7, <1>8 DEF LiveRoles
  <2>4. DOMAIN k.paneActive = {k.roles[i].pane : i \in LiveRoles(k)}
    BY <1>3, <2>1, <2>2, <2>3
  <2>5. \A i \in LiveRoles(k) : k.paneActive[k.roles[i].pane] = <<k.roles[i].run, i>>
    BY <1>3, <2>1, <2>2, <2>3
  <2> QED
    BY <1>6, <2>4, <2>5 DEF PanesIndexed
<1> QED
  BY <1>3, <1>6, <1>10, <1>11, <1>12, <1>13 DEF Sound, k

\* Activated and Handoff: the role takes the turn, and whoever had it in the run
\* no longer has.  No other run's turn is lost: the Pane was free or this run's.
LEMMA ActivateSound ==
  ASSUME Bounds, NEW g, Sound(g), NEW e \in ActivatedEvents, ActivateAccepted(g, e)
  PROVE  Sound(Activate(g, e)) /\ Prunable(Activate(g, e)) = Prunable(g)
<1> DEFINE n    == e.run
           i    == e.role
           pane == g.roles[i].pane
           h    == Release(g, n)
           k    == Activate(g, e)
<1>0. Typed(g) /\ Fresh(g) /\ OneLive(g) /\ PanesIndexed(g)
  BY DEF Sound
<1>1. /\ e.activation \in Nat \ {0} /\ e.activation = g.nextActivation
      /\ n \in DOMAIN g.runs /\ g.runs[n].status \notin Terminal
      /\ i \in DOMAIN g.roles /\ g.roles[i].run = n
      /\ pane \in DOMAIN g.paneActive => g.paneActive[pane][1] = n
  BY DEF ActivatedEvents, ActivateAccepted
<1>2. Released(g, n, h)
  BY <1>1, ReleaseFacts
<1>3. k = [h EXCEPT !.roles[i].activation = e.activation, !.roles[i].active = TRUE,
                    !.paneActive = Put(@, pane, <<n, i>>), !.runs[n].status = "Active",
                    !.nextActivation = e.activation + 1]
  BY DEF Activate, OpenAfter, NextActivation
<1> HIDE DEF h, k, n, i
<1>4. /\ k.runs = [g.runs EXCEPT ![n].status = "Active"]
      /\ k.roles = [[h.roles EXCEPT ![i].activation = e.activation] EXCEPT ![i].active = TRUE]
      /\ k.children = g.children /\ k.runPanes = g.runPanes
      /\ k.paneActive = Put(h.paneActive, pane, <<n, i>>)
      /\ k.projectRuns = g.projectRuns /\ k.taskRuns = g.taskRuns
      /\ k.nextRun = g.nextRun /\ k.nextRole = g.nextRole
      /\ k.nextActivation = e.activation + 1 /\ Shape(k)
  <2>1. /\ Shape(h) /\ h.runs = g.runs /\ h.children = g.children /\ h.runPanes = g.runPanes
        /\ h.projectRuns = g.projectRuns /\ h.taskRuns = g.taskRuns
        /\ h.nextRun = g.nextRun /\ h.nextRole = g.nextRole
    BY <1>2 DEF Released
  <2> HIDE DEF pane
  <2> QED
    BY Zenon, <1>3, <2>1 DEF Shape
<1>5. /\ DOMAIN h.roles = DOMAIN g.roles
      /\ \A j \in DOMAIN g.roles :
           /\ h.roles[j] \in RoleRecords /\ h.roles[j].run = g.roles[j].run
           /\ h.roles[j].pane = g.roles[j].pane /\ h.roles[j].activation = g.roles[j].activation
  BY <1>2 DEF Released
<1>6. /\ DOMAIN k.roles = DOMAIN g.roles
      /\ \A j \in DOMAIN g.roles : j # i => k.roles[j] = h.roles[j]
      /\ k.roles[i] = [[h.roles[i] EXCEPT !.activation = e.activation] EXCEPT !.active = TRUE]
  BY Zenon, <1>1, <1>4, <1>5
<1>7. /\ k.roles[i] \in RoleRecords /\ k.roles[i].run = n /\ k.roles[i].pane = pane
      /\ k.roles[i].activation = e.activation /\ k.roles[i].active = TRUE
  BY Zenon, <1>1, <1>5, <1>6 DEF RoleRecords
<1>8. \A j \in DOMAIN g.roles :
        /\ k.roles[j] \in RoleRecords /\ k.roles[j].run = g.roles[j].run
        /\ k.roles[j].pane = g.roles[j].pane
        /\ j # i => k.roles[j].activation = g.roles[j].activation
  BY Zenon, <1>1, <1>5, <1>6, <1>7
<1>9. Restatused(g, n, "Active", k)
  BY Zenon, <1>4, <1>6, <1>8 DEF Restatused
<1>10. /\ DOMAIN k.runs = DOMAIN g.runs /\ k.runs[n].status = "Active"
       /\ \A r \in DOMAIN g.runs :
            /\ k.runs[r] \in RunRecords
            /\ r # n => k.runs[r].status = g.runs[r].status
       /\ \A r : RolesOf(k, r) = RolesOf(g, r) /\ Children(k, r) = Children(g, r)
       /\ Linked(k) /\ ChildrenIndexed(k) /\ ProjectsIndexed(k) /\ TasksIndexed(k)
       /\ DOMAIN k.runPanes \subseteq DOMAIN k.runs
       /\ \A r \in DOMAIN k.runs : RunPanes(k, r) = {k.roles[j].pane : j \in RolesOf(k, r)}
  <2>1. "Active" \in Statuses
    BY DEF Statuses
  <2> QED
    BY <1>1, <1>9, <2>1, RestatusFacts
<1>11. LiveRoles(h) = LiveRoles(g) \ RolesOf(g, n)
  BY <1>2 DEF Released
<1>12. LiveRoles(k) = LiveRoles(h) \cup {i}
  BY Zenon, <1>1, <1>5, <1>6, <1>7 DEF LiveRoles
<1>13. Typed(k)
  <2>1. \A j \in DOMAIN k.roles : k.roles[j].activation < k.nextActivation
    BY <1>0, <1>1, <1>4, <1>6, <1>7, <1>8 DEF Typed, RoleRecords
  <2>2. e.activation + 1 \in Nat \ {0}
    BY <1>1
  <2> QED
    BY Zenon, <1>0, <1>4, <1>6, <1>8, <1>10, <2>1, <2>2 DEF Typed
<1>14. Fresh(k)
  <2>1. \A j \in DOMAIN g.roles : j # i => k.roles[j].activation # e.activation
    BY <1>0, <1>1, <1>8 DEF Typed, RoleRecords
  <2> SUFFICES ASSUME NEW j \in DOMAIN g.roles, NEW l \in DOMAIN g.roles, j # l,
                      k.roles[j].activation = k.roles[l].activation
               PROVE  k.roles[j].activation = 0
    BY <1>6 DEF Fresh
  <2>2. j # i /\ l # i
    BY <1>7, <2>1
  <2>3. /\ k.roles[j].activation = g.roles[j].activation
        /\ k.roles[l].activation = g.roles[l].activation
    BY <1>8, <2>2
  <2> QED
    BY Zenon, <1>0, <2>3 DEF Fresh
<1>15. OneLive(k)
  <2>0. i \in RolesOf(g, n) /\ \A r : r # n => RolesOf(g, r) \cap RolesOf(g, n) = {}
    BY <1>1 DEF RolesOf
  <2>1. LiveOf(k, n) = {i}
    BY <1>10, <1>11, <1>12, <2>0 DEF LiveOf
  <2>2. ASSUME NEW r \in DOMAIN g.runs, r # n PROVE LiveOf(k, r) = LiveOf(g, r)
    <3>1. RolesOf(k, r) = RolesOf(g, r) /\ RolesOf(g, r) \cap RolesOf(g, n) = {}
      BY <1>10, <2>0, <2>2
    <3> QED
      BY <1>11, <1>12, <2>0, <3>1 DEF LiveOf
  <2> QED
    BY Zenon, <1>0, <1>10, <2>1, <2>2 DEF OneLive
<1>16. PanesIndexed(k)
  <2>1. /\ DOMAIN h.paneActive = {g.roles[j].pane : j \in LiveRoles(h)}
        /\ \A j \in LiveRoles(h) : h.paneActive[g.roles[j].pane] = <<g.roles[j].run, j>>
    BY <1>2 DEF Released
  <2>2. ASSUME NEW j \in LiveRoles(h), g.roles[j].pane = pane PROVE FALSE
    <3>1. j \in LiveRoles(g) /\ j \notin RolesOf(g, n) /\ j \in DOMAIN g.roles
      BY <1>11 DEF LiveRoles
    <3>2. pane \in DOMAIN g.paneActive /\ g.paneActive[pane] = <<g.roles[j].run, j>>
      BY <1>0, <2>2, <3>1 DEF PanesIndexed
    <3>3. g.roles[j].run = n
      BY <1>1, <3>2
    <3> QED
      BY <3>1, <3>3 DEF RolesOf
  <2> HIDE DEF pane
  <2>3. /\ DOMAIN k.paneActive = DOMAIN h.paneActive \cup {pane} /\ k.paneActive[pane] = <<n, i>>
        /\ \A x \in DOMAIN h.paneActive : x # pane => k.paneActive[x] = h.paneActive[x]
    BY <1>4 DEF Put
  <2>4. \A j \in LiveRoles(h) :
          k.roles[j].run = g.roles[j].run /\ k.roles[j].pane = g.roles[j].pane
    BY <1>8, <1>11 DEF LiveRoles
  <2>5. DOMAIN k.paneActive = {k.roles[j].pane : j \in LiveRoles(k)}
    BY <1>7, <1>12, <2>1, <2>3, <2>4
  <2>6. \A j \in LiveRoles(k) : k.paneActive[k.roles[j].pane] = <<k.roles[j].run, j>>
    <3>1. \A j \in LiveRoles(h) : k.paneActive[g.roles[j].pane] = <<g.roles[j].run, j>>
      BY <2>1, <2>2, <2>3
    <3> QED
      BY <1>7, <1>12, <2>3, <2>4, <3>1
  <2> QED
    BY <1>10, <2>5, <2>6 DEF PanesIndexed
<1>17. Prunable(k) = Prunable(g)
  <2>1. "Active" \notin Terminal
    BY DEF Terminal
  <2> QED
    BY <1>1, <1>10, <2>1 DEF Prunable
<1> QED
  BY <1>4, <1>10, <1>13, <1>14, <1>15, <1>16, <1>17 DEF Sound, k

-----------------------------------------------------------------------------
(* Pruning.                                                                *)

\* Forgetting a closed leaf leaves no trace of it in records or indexes.
LEMMA ForgetSound ==
  ASSUME Bounds, NEW g, Sound(g), NEW run \in Prunable(g)
  PROVE  Sound(Forget(g, run)) /\ DOMAIN Forget(g, run).runs = DOMAIN g.runs \ {run}
<1> DEFINE rec == g.runs[run]
           h   == Forget(g, run)
           R   == RolesOf(g, run)
<1>0. /\ Shape(g) /\ Typed(g) /\ Fresh(g) /\ OneLive(g) /\ Linked(g)
      /\ PanesIndexed(g) /\ ChildrenIndexed(g) /\ ProjectsIndexed(g) /\ TasksIndexed(g)
  BY DEF Sound
<1>1. run \in DOMAIN g.runs /\ rec.status # "Active" /\ Children(g, run) = {}
  BY DEF Prunable, Terminal
<1>2. {rec.roles[j] : j \in DOMAIN rec.roles} = R
  BY <1>0, <1>1 DEF Linked
<1>3. h = [g EXCEPT !.runs = Drop(@, {run}), !.roles = Drop(@, R), !.runPanes = Drop(@, {run}),
                    !.taskRuns = Drop(@, {rec.task}), !.projectRuns = Take(@, rec.project, run),
                    !.children = Take(Drop(@, {run}), rec.parent, run)]
  BY Zenon, <1>2 DEF Forget
<1> HIDE DEF h, R
<1>4. /\ h.runs = Drop(g.runs, {run}) /\ h.roles = Drop(g.roles, R)
      /\ h.children = Take(Drop(g.children, {run}), rec.parent, run)
      /\ h.runPanes = Drop(g.runPanes, {run}) /\ h.paneActive = g.paneActive
      /\ h.projectRuns = Take(g.projectRuns, rec.project, run)
      /\ h.taskRuns = Drop(g.taskRuns, {rec.task}) /\ h.nextRun = g.nextRun
      /\ h.nextRole = g.nextRole /\ h.nextActivation = g.nextActivation /\ Shape(h)
  <2> HIDE DEF rec
  <2> QED
    BY Zenon, <1>0, <1>3 DEF Shape
<1>5. /\ DOMAIN h.runs = DOMAIN g.runs \ {run}
      /\ \A r \in DOMAIN h.runs : h.runs[r] = g.runs[r]
  BY <1>4 DEF Drop
<1>6. /\ DOMAIN h.roles = DOMAIN g.roles \ R
      /\ \A i \in DOMAIN h.roles : h.roles[i] = g.roles[i]
  BY <1>4 DEF Drop
<1>7. \A i \in LiveRoles(g) : i \notin R
  <2>1. LiveOf(g, run) = {}
    BY <1>0, <1>1 DEF OneLive
  <2> QED
    BY <2>1 DEF LiveOf, R
<1>8. LiveRoles(h) = LiveRoles(g)
  BY <1>6, <1>7 DEF LiveRoles
<1>9. \A r : r # run => RolesOf(h, r) = RolesOf(g, r)
  BY <1>6 DEF RolesOf, R
<1>10. \A c \in DOMAIN g.runs : g.runs[c].parent # run
  BY <1>0, <1>1 DEF ChildrenIndexed
<1>11. Typed(h)
  BY Zenon, <1>0, <1>4, <1>5, <1>6 DEF Typed
<1>12. Fresh(h)
  BY <1>0, <1>6 DEF Fresh
<1>13. OneLive(h)
  <2>1. \A r \in DOMAIN h.runs : r # run /\ r \in DOMAIN g.runs /\ h.runs[r] = g.runs[r]
    BY <1>5
  <2>2. \A r \in DOMAIN h.runs : LiveOf(h, r) = LiveOf(g, r)
    BY <1>8, <1>9, <2>1 DEF LiveOf
  <2> QED
    BY Zenon, <1>0, <2>1, <2>2 DEF OneLive
<1>14. Linked(h)
  <2>1. \A r \in DOMAIN h.runs : h.runs[r].parent \in DOMAIN h.runs \cup {0}
    BY <1>0, <1>5, <1>10 DEF Linked
  <2>2. \A i \in DOMAIN h.roles : h.roles[i].run \in DOMAIN h.runs
    BY <1>0, <1>5, <1>6 DEF Linked, R, RolesOf
  <2>3. \A r \in DOMAIN h.runs :
          {h.runs[r].roles[k] : k \in DOMAIN h.runs[r].roles} = RolesOf(h, r)
    BY <1>0, <1>5, <1>9 DEF Linked
  <2> QED
    BY <2>1, <2>2, <2>3 DEF Linked
<1>15. PanesIndexed(h)
  <2>1. /\ DOMAIN h.paneActive = {h.roles[i].pane : i \in LiveRoles(h)}
        /\ \A i \in LiveRoles(h) : h.paneActive[h.roles[i].pane] = <<h.roles[i].run, i>>
    <3>1. \A i \in LiveRoles(g) : h.roles[i] = g.roles[i]
      BY <1>6, <1>7 DEF LiveRoles
    <3> QED
      BY <1>0, <1>4, <1>8, <3>1 DEF PanesIndexed
  <2>2. /\ DOMAIN h.runPanes = DOMAIN g.runPanes \ {run}
        /\ \A r \in DOMAIN g.runPanes : r # run => h.runPanes[r] = g.runPanes[r]
    BY <1>4 DEF Drop
  <2>3. ASSUME NEW r \in DOMAIN h.runs
        PROVE  RunPanes(h, r) = {h.roles[i].pane : i \in RolesOf(h, r)}
    <3>1. r # run /\ r \in DOMAIN g.runs
      BY <1>5
    <3>2. RunPanes(h, r) = RunPanes(g, r)
      BY <2>2, <3>1 DEF RunPanes
    <3>3. RolesOf(h, r) = RolesOf(g, r)
      BY <1>9, <3>1
    <3>4. \A i \in RolesOf(h, r) : h.roles[i] = g.roles[i]
      BY <1>6 DEF RolesOf
    <3>5. RunPanes(g, r) = {g.roles[i].pane : i \in RolesOf(g, r)}
      BY <1>0, <3>1 DEF PanesIndexed
    <3> QED
      BY <3>2, <3>3, <3>4, <3>5
  <2>4. DOMAIN h.runPanes \subseteq DOMAIN h.runs
    BY <1>0, <1>5, <2>2 DEF PanesIndexed
  <2> QED
    BY Zenon, <2>1, <2>3, <2>4 DEF PanesIndexed
<1>16. ChildrenIndexed(h)
  <2> DEFINE f == Drop(g.children, {run})
  <2>1. DOMAIN f = DOMAIN g.children \ {run} /\ \A r : r # run => At(f, r) = At(g.children, r)
    BY DEF Drop, At
  <2>2. Taken(f, rec.parent, run, h.children)
    <3>1. Taken(f, rec.parent, run, Take(f, rec.parent, run))
      BY TakeFacts
    <3> QED
      BY <1>4, <3>1
  <2> HIDE DEF f
  <2>3. DOMAIN h.children \subseteq DOMAIN h.runs
    BY <1>0, <1>5, <2>1, <2>2 DEF ChildrenIndexed, Taken
  <2>4. ASSUME NEW r \in DOMAIN h.runs
        PROVE  At(h.children, r) = {c \in DOMAIN h.runs : h.runs[c].parent = r}
    <3>1. r # run /\ r \in DOMAIN g.runs
      BY <1>5
    <3>2. At(g.children, r) = {c \in DOMAIN g.runs : g.runs[c].parent = r}
      BY <1>0, <3>1 DEF ChildrenIndexed, Children, At
    <3>3. At(h.children, r) = IF r = rec.parent THEN At(f, rec.parent) \ {run} ELSE At(f, r)
      BY <2>2 DEF Taken
    <3>4. At(f, r) = At(g.children, r)
      BY <2>1, <3>1
    <3>5. {c \in DOMAIN h.runs : h.runs[c].parent = r}
            = {c \in DOMAIN g.runs : g.runs[c].parent = r} \ {run}
      BY <1>5
    <3>6. r # rec.parent => run \notin {c \in DOMAIN g.runs : g.runs[c].parent = r}
      OBVIOUS
    <3> HIDE DEF rec
    <3> QED
      BY <3>2, <3>3, <3>4, <3>5, <3>6
  <2> QED
    BY <2>3, <2>4 DEF ChildrenIndexed, Children, At
<1>17. ProjectsIndexed(h)
  <2> DEFINE q == rec.project
  <2>1. Taken(g.projectRuns, q, run, h.projectRuns)
    <3>1. Taken(g.projectRuns, q, run, Take(g.projectRuns, q, run))
      BY TakeFacts
    <3> QED
      BY <1>4, <3>1
  <2>2. \A p : At(g.projectRuns, p) = {r \in DOMAIN g.runs : g.runs[r].project = p}
    BY <1>0 DEF ProjectsIndexed, At
  <2>3. g.runs[run].project = q
    OBVIOUS
  <2> HIDE DEF q
  <2>4. ASSUME NEW p
        PROVE  At(h.projectRuns, p) = {r \in DOMAIN h.runs : h.runs[r].project = p}
    <3>1. {r \in DOMAIN h.runs : h.runs[r].project = p}
            = {r \in DOMAIN g.runs : g.runs[r].project = p} \ {run}
      BY <1>5
    <3>2. p # q => run \notin {r \in DOMAIN g.runs : g.runs[r].project = p}
      BY <2>3
    <3>3. At(h.projectRuns, p) = IF p = q THEN At(g.projectRuns, q) \ {run} ELSE At(g.projectRuns, p)
      BY <2>1 DEF Taken
    <3> QED
      BY <2>2, <3>1, <3>2, <3>3
  <2>5. \A p : p \in DOMAIN h.projectRuns <=> \E r \in DOMAIN h.runs : h.runs[r].project = p
    <3>1. \A p : p \in DOMAIN g.projectRuns <=> \E r \in DOMAIN g.runs : g.runs[r].project = p
      BY <1>0 DEF ProjectsIndexed
    <3>2. q \in DOMAIN g.projectRuns
      BY <1>1, <2>3, <3>1
    <3>3. q \in DOMAIN h.projectRuns <=> \E r \in DOMAIN h.runs : h.runs[r].project = q
      <4>1. q \in DOMAIN h.projectRuns <=> At(g.projectRuns, q) \ {run} # {}
        BY <2>1, <3>2 DEF Taken
      <4>2. At(h.projectRuns, q) = At(g.projectRuns, q) \ {run}
        BY <2>1 DEF Taken
      <4> QED
        BY <2>4, <4>1, <4>2
    <3>4. ASSUME NEW p, p # q
          PROVE  p \in DOMAIN h.projectRuns <=> \E r \in DOMAIN h.runs : h.runs[r].project = p
      <4>1. p \in DOMAIN h.projectRuns <=> p \in DOMAIN g.projectRuns
        BY <2>1, <3>4 DEF Taken
      <4> QED
        BY <1>5, <2>3, <3>1, <3>4, <4>1
    <3> QED
      BY <3>3, <3>4
  <2> QED
    BY <2>4, <2>5 DEF ProjectsIndexed, At
<1>18. TasksIndexed(h)
  <2>1. /\ DOMAIN h.taskRuns = DOMAIN g.taskRuns \ {rec.task}
        /\ \A x \in DOMAIN g.taskRuns : x # rec.task => h.taskRuns[x] = g.taskRuns[x]
    BY <1>4 DEF Drop
  <2>2. \A r \in DOMAIN h.runs : r \in DOMAIN g.runs /\ g.runs[r].task # rec.task
    BY <1>0, <1>1, <1>5 DEF TasksIndexed
  <2>3. \A r \in DOMAIN h.runs : h.taskRuns[h.runs[r].task] = r
    BY <1>0, <1>5, <2>1, <2>2 DEF TasksIndexed
  <2>4. DOMAIN h.taskRuns = {h.runs[r].task : r \in DOMAIN h.runs}
    BY <1>0, <1>5, <2>1, <2>2 DEF TasksIndexed
  <2> QED
    BY <2>3, <2>4 DEF TasksIndexed
<1> QED
  BY <1>4, <1>5, <1>11, <1>12, <1>13, <1>14, <1>15, <1>16, <1>17, <1>18 DEF Sound, h

\* Nothing more to prune.
Pruned(g) == ~OverCap(g, HistoryCap) \/ Prunable(g) = {}

\* Runs and closed leaves can be counted.
LEMMA RunsFinite ==
  ASSUME Bounds, NEW g, Sound(g)
  PROVE  /\ IsFiniteSet(DOMAIN g.runs) /\ Cardinality(DOMAIN g.runs) \in Nat
         /\ IsFiniteSet(Prunable(g)) /\ Cardinality(Prunable(g)) \in Nat
         /\ Cardinality(Prunable(g)) <= Cardinality(DOMAIN g.runs)
<1>1. DOMAIN g.runs \subseteq RunIds
  BY DEF Sound, Typed
<1>2. IsFiniteSet(RunIds)
  BY FS_Interval DEF Bounds, RunIds
<1>3. IsFiniteSet(DOMAIN g.runs)
  BY <1>1, <1>2, FS_Subset
<1>4. Prunable(g) \subseteq DOMAIN g.runs
  BY DEF Prunable
<1>5. IsFiniteSet(Prunable(g)) /\ Cardinality(Prunable(g)) <= Cardinality(DOMAIN g.runs)
  BY <1>3, <1>4, FS_Subset
<1> QED
  BY <1>3, <1>5, FS_CardinalityType

\* Once nothing more is pruned the closed leaves are within the cap.
LEMMA PrunedCapped ==
  ASSUME Bounds, NEW g, Sound(g), Pruned(g)
  PROVE  Capped(g)
<1>1. CASE ~OverCap(g, HistoryCap)
  BY <1>1, RunsFinite DEF OverCap, Bounds, Capped
<1>2. CASE Prunable(g) = {}
  BY <1>2, FS_EmptySet DEF Bounds, Capped
<1> QED
  BY <1>1, <1>2 DEF Pruned

\* One round of prune_to: a run fewer, or nothing left to do.
LEMMA PruneOnceKeeps ==
  ASSUME Bounds, NEW g, Sound(g)
  PROVE  /\ Sound(PruneOnce(g, HistoryCap))
         /\ Pruned(g) => PruneOnce(g, HistoryCap) = g
         /\ ~Pruned(g) => Cardinality(DOMAIN PruneOnce(g, HistoryCap).runs)
                            = Cardinality(DOMAIN g.runs) - 1
<1>1. CASE Pruned(g)
  BY <1>1 DEF Pruned, PruneOnce
<1>2. CASE ~Pruned(g)
  <2> DEFINE run == Min(Prunable(g))
  <2>1. PruneOnce(g, HistoryCap) = Forget(g, run)
    BY <1>2 DEF Pruned, PruneOnce
  <2>2. run \in Prunable(g)
    <3>1. Prunable(g) \in SUBSET Nat /\ Prunable(g) # {}
      BY <1>2 DEF Pruned, Prunable, Sound, Typed, RunIds
    <3> QED
      BY <3>1, MinFacts
  <2> HIDE DEF run
  <2>3. Sound(Forget(g, run)) /\ DOMAIN Forget(g, run).runs = DOMAIN g.runs \ {run}
    BY <2>2, ForgetSound
  <2>4. run \in DOMAIN g.runs /\ IsFiniteSet(DOMAIN g.runs)
    BY Zenon, <2>2, RunsFinite DEF Prunable
  <2>5. Cardinality(DOMAIN g.runs \ {run}) = Cardinality(DOMAIN g.runs) - 1
    BY <2>4, FS_RemoveElement
  <2> QED
    BY <1>2, <2>1, <2>3, <2>5
<1> QED
  BY <1>1, <1>2

\* prune_to ends with the closed leaves within the cap (the function that defines it
\* exists, and no round is the least at which it fails).
LEMMA PruneToKeeps ==
  ASSUME Bounds, NEW g, Sound(g)
  PROVE  Sound(PruneTo(g, HistoryCap)) /\ Capped(PruneTo(g, HistoryCap))
<1> DEFINE N == Cardinality(DOMAIN g.runs)
           Rec(k, f) == f = [n \in 0 .. k |-> IF n = 0 THEN g ELSE PruneOnce(f[n - 1], HistoryCap)]
           S == {k \in 0 .. N : ~\E f : Rec(k, f)}
<1>0. N \in Nat
  BY RunsFinite
<1> HIDE DEF N
<1>1. S = {}
  <2> SUFFICES ASSUME S # {} PROVE FALSE
    OBVIOUS
  <2>1. PICK x \in S : \A y \in S : x <= y
    <3>1. S \in SUBSET Nat
      OBVIOUS
    <3> HIDE DEF S
    <3> QED
      BY <3>1, LeastNatural
  <2>2. Rec(0, [n \in 0 .. 0 |-> g])
    OBVIOUS
  <2>3. x \in 1 .. N
    <3>1. x # 0
      <4> HIDE DEF Rec
      <4> QED
        BY <2>2
    <3> QED
      BY <1>0, <3>1
  <2>4. PICK f : Rec(x - 1, f)
    <3>1. x - 1 \in 0 .. N /\ ~(x <= x - 1)
      BY <1>0, <2>3
    <3> HIDE DEF Rec
    <3> QED
      BY <2>1, <3>1
  <2> DEFINE h == [n \in 0 .. x |-> IF n = x THEN PruneOnce(f[x - 1], HistoryCap) ELSE f[n]]
  <2>5. ASSUME NEW n \in 0 .. x PROVE h[n] = IF n = 0 THEN g ELSE PruneOnce(h[n - 1], HistoryCap)
    <3>1. CASE n = x
      BY <1>0, <2>3, <3>1
    <3>2. CASE n # x
      <4>1. n \in 0 .. x - 1 /\ (n # 0 => n - 1 \in 0 .. x /\ n - 1 # x)
        BY <1>0, <2>3, <3>2
      <4>2. f[n] = IF n = 0 THEN g ELSE PruneOnce(f[n - 1], HistoryCap)
        BY <2>4, <4>1
      <4> QED
        BY <3>2, <4>1, <4>2
    <3> QED
      BY <3>1, <3>2
  <2>6. Rec(x, h)
    BY <2>5
  <2> QED
    BY Zenon, <2>6
<1>2. \E f : Rec(N, f)
  BY <1>0, <1>1
<1> DEFINE after == CHOOSE f : Rec(N, f)
<1>3. Rec(N, after)
  <2> HIDE DEF Rec
  <2> QED
    BY <1>2
<1>4. PruneTo(g, HistoryCap) = after[N]
  BY DEF PruneTo, N
<1> HIDE DEF after
<1>5. \A n \in 0 .. N : after[n] = IF n = 0 THEN g ELSE PruneOnce(after[n - 1], HistoryCap)
  BY Zenon, <1>3
<1> HIDE DEF Rec
<1> DEFINE Round(n) == /\ Sound(after[n])
                       /\ Pruned(after[n]) \/ Cardinality(DOMAIN after[n].runs) = N - n
           Bad == {n \in 0 .. N : ~Round(n)}
<1>6. Bad = {}
  <2> SUFFICES ASSUME Bad # {} PROVE FALSE
    OBVIOUS
  <2>1. PICK x \in Bad : \A y \in Bad : x <= y
    <3>1. Bad \in SUBSET Nat
      OBVIOUS
    <3> HIDE DEF Bad
    <3> QED
      BY <3>1, LeastNatural
  <2>2. x # 0
    <3>1. after[0] = g
      BY <1>0, <1>5
    <3>2. N - 0 = N
      BY <1>0
    <3> QED
      BY <3>1, <3>2 DEF N
  <2>3. x \in 1 .. N /\ x - 1 \in 0 .. N /\ ~(x <= x - 1)
    BY <1>0, <2>2
  <2>4. Round(x - 1)
    BY <2>1, <2>3
  <2> DEFINE a == after[x - 1]
             b == PruneOnce(a, HistoryCap)
  <2>5. after[x] = b
    BY <1>5, <2>3
  <2>6. /\ Sound(b)
        /\ Pruned(a) => b = a
        /\ ~Pruned(a) => Cardinality(DOMAIN b.runs) = Cardinality(DOMAIN a.runs) - 1
    BY <2>4, PruneOnceKeeps
  <2>7. Pruned(a) \/ Cardinality(DOMAIN a.runs) = N - (x - 1)
    BY <2>4
  <2> HIDE DEF a, b
  <2>8. Pruned(b) \/ Cardinality(DOMAIN b.runs) = N - x
    <3>1. CASE Pruned(a)
      BY <2>6, <3>1
    <3>2. CASE ~Pruned(a)
      <4>1. /\ Cardinality(DOMAIN a.runs) = N - (x - 1)
            /\ Cardinality(DOMAIN b.runs) = Cardinality(DOMAIN a.runs) - 1
        BY <2>6, <2>7, <3>2
      <4>2. N - (x - 1) - 1 = N - x
        BY <1>0, <2>3
      <4> QED
        BY <4>1, <4>2
    <3> QED
      BY <3>1, <3>2
  <2>9. Round(x)
    BY <2>5, <2>6, <2>8
  <2> HIDE DEF Round
  <2> QED
    BY <2>9
<1>7. Round(N)
  <2>1. N \in 0 .. N
    BY <1>0
  <2> QED
    BY <1>6, <2>1
<1> DEFINE b == after[N]
<1>8. Pruned(b)
  <2>1. CASE Cardinality(DOMAIN b.runs) = N - N
    <3>1. Cardinality(DOMAIN b.runs) = 0
      BY <1>0, <2>1
    <3>2. Prunable(b) = {}
      <4>1. /\ IsFiniteSet(Prunable(b)) /\ Cardinality(Prunable(b)) \in Nat
            /\ Cardinality(Prunable(b)) <= Cardinality(DOMAIN b.runs)
        BY <1>7, RunsFinite
      <4>2. Cardinality(Prunable(b)) = 0
        BY <3>1, <4>1
      <4> QED
        BY <4>1, <4>2, FS_EmptySet
    <3> QED
      BY <3>2 DEF Pruned
  <2> QED
    BY <1>7, <2>1
<1>9. Capped(b)
  BY <1>7, <1>8, PrunedCapped
<1> QED
  BY <1>4, <1>7, <1>9

-----------------------------------------------------------------------------
(* The reducer.                                                            *)

Good(g) == Sound(g) /\ Capped(g)

\* A graph whose closed leaves are among those of one within the cap.
LEMMA FewerLeaves ==
  ASSUME Bounds, NEW g, NEW h, Sound(g), Capped(g), Prunable(h) \subseteq Prunable(g)
  PROVE  Capped(h)
<1>1. IsFiniteSet(Prunable(g)) /\ Cardinality(Prunable(g)) \in Nat
  BY RunsFinite
<1>2. IsFiniteSet(Prunable(h)) /\ Cardinality(Prunable(h)) <= Cardinality(Prunable(g))
  BY <1>1, FS_Subset
<1>3. Cardinality(Prunable(h)) \in Nat
  BY <1>2, FS_CardinalityType
<1> QED
  BY <1>1, <1>2, <1>3 DEF Capped, Bounds

\* apply keeps a good graph good: whatever event it accepts.
LEMMA ApplyGood ==
  ASSUME Bounds, NEW g, Good(g), NEW e \in Events, Accepted(g, e)
  PROVE  Good(ApplyEvent(g, e, HistoryCap))
<1>1. CASE e \in CreatedEvents
  <2>1. e.type = "Created"
    BY <1>1 DEF CreatedEvents
  <2>2. CreatedAccepted(g, e) /\ ApplyEvent(g, e, HistoryCap) = Created(g, e)
    BY <2>1 DEF Accepted, ApplyEvent
  <2>3. Sound(Created(g, e)) /\ Prunable(Created(g, e)) \subseteq Prunable(g)
    BY <1>1, <2>2, CreatedSound DEF Good
  <2> QED
    BY <2>2, <2>3, FewerLeaves DEF Good
<1>2. CASE e \in RoleEvents
  <2>1. e.type = "RoleDeclared"
    BY <1>2 DEF RoleEvents
  <2>2. RoleAccepted(g, e) /\ ApplyEvent(g, e, HistoryCap) = RoleDeclared(g, e)
    BY <2>1 DEF Accepted, ApplyEvent
  <2>3. Sound(RoleDeclared(g, e)) /\ Prunable(RoleDeclared(g, e)) = Prunable(g)
    BY <1>2, <2>2, RoleDeclaredSound DEF Good
  <2> QED
    BY <2>2, <2>3, FewerLeaves DEF Good
<1>3. CASE e \in ActivatedEvents
  <2>1. e.type = "Activated"
    BY <1>3 DEF ActivatedEvents
  <2>2. ActivateAccepted(g, e) /\ ApplyEvent(g, e, HistoryCap) = Activate(g, e)
    BY <2>1 DEF Accepted, ApplyEvent
  <2>3. Sound(Activate(g, e)) /\ Prunable(Activate(g, e)) = Prunable(g)
    BY <1>3, <2>2, ActivateSound DEF Good
  <2> QED
    BY <2>2, <2>3, FewerLeaves DEF Good
<1>4. CASE e \in FinishedEvents
  <2>1. e.type = "Finished" /\ e.status \in Terminal
    BY <1>4 DEF FinishedEvents
  <2>2. FinishAccepted(g, e) /\ ApplyEvent(g, e, HistoryCap) = Finish(g, e, HistoryCap)
    BY <2>1 DEF Accepted, ApplyEvent
  <2>3. Finish(g, e, HistoryCap) = PruneTo(Ended(g, e.run, e.status), HistoryCap)
    BY DEF Finish, Ended
  <2>4. Sound(Ended(g, e.run, e.status))
    BY <2>1, <2>2, EndedSound DEF FinishAccepted, Good
  <2>5. Good(PruneTo(Ended(g, e.run, e.status), HistoryCap))
    BY <2>4, PruneToKeeps DEF Good
  <2> QED
    BY <2>2, <2>3, <2>5
<1> QED
  BY <1>1, <1>2, <1>3, <1>4 DEF Events

\* The empty graph is good.
LEMMA NewGraphGood ==
  ASSUME Bounds
  PROVE  Good(NewGraph)
<1> DEFINE g == NewGraph
<1>1. /\ DOMAIN g.runs = {} /\ DOMAIN g.roles = {} /\ DOMAIN g.children = {} /\ DOMAIN g.runPanes = {}
      /\ DOMAIN g.paneActive = {} /\ DOMAIN g.projectRuns = {} /\ DOMAIN g.taskRuns = {}
      /\ g.nextRun = 1 /\ g.nextRole = 1 /\ g.nextActivation = 1
  BY DEF NewGraph, EmptyMap
<1>2. Shape(g)
  BY DEF Shape, NewGraph
<1> HIDE DEF g
<1>3. Prunable(g) = {} /\ LiveRoles(g) = {}
  BY <1>1 DEF Prunable, LiveRoles
<1>4. Typed(g) /\ Fresh(g) /\ OneLive(g) /\ Linked(g)
  BY <1>1 DEF Typed, Fresh, OneLive, Linked
<1>5. PanesIndexed(g) /\ ChildrenIndexed(g)
  BY <1>1, <1>3 DEF PanesIndexed, ChildrenIndexed
<1>6. ProjectsIndexed(g) /\ TasksIndexed(g)
  BY <1>1 DEF ProjectsIndexed, TasksIndexed
<1>7. Sound(g)
  BY <1>2, <1>4, <1>5, <1>6 DEF Sound
<1>8. Capped(g)
  BY <1>3, FS_EmptySet DEF Capped, Bounds
<1> QED
  BY <1>7, <1>8 DEF Good, g

-----------------------------------------------------------------------------
(* Replay.                                                                 *)

Start(base) == [graph |-> base, ok |-> TRUE]

\* f is what replay_run_graph has after each of the events.
Replayed(base, events, f) ==
  f = [i \in 0 .. Len(events) |-> IF i = 0 THEN Start(base) ELSE ReplayOne(f[i - 1], events[i])]

\* The function that defines Replay exists.
LEMMA ReplayExists ==
  ASSUME NEW base, NEW S, NEW events \in Seq(S)
  PROVE  \E f : Replayed(base, events, f) /\ Replay(base, events) = f[Len(events)]
<1> DEFINE N == Len(events)
           Rec(k, f) == f = [n \in 0 .. k |-> IF n = 0 THEN Start(base) ELSE ReplayOne(f[n - 1], events[n])]
           W == {k \in 0 .. N : ~\E f : Rec(k, f)}
<1>0. N \in Nat
  OBVIOUS
<1> HIDE DEF N
<1>1. W = {}
  <2> SUFFICES ASSUME W # {} PROVE FALSE
    OBVIOUS
  <2>1. PICK x \in W : \A y \in W : x <= y
    <3>1. W \in SUBSET Nat
      OBVIOUS
    <3> HIDE DEF W
    <3> QED
      BY <3>1, LeastNatural
  <2>2. Rec(0, [n \in 0 .. 0 |-> Start(base)])
    OBVIOUS
  <2>3. x \in 1 .. N
    <3>1. x # 0
      <4> HIDE DEF Rec
      <4> QED
        BY <2>2
    <3> QED
      BY <1>0, <3>1
  <2>4. PICK f : Rec(x - 1, f)
    <3>1. x - 1 \in 0 .. N /\ ~(x <= x - 1)
      BY <1>0, <2>3
    <3> HIDE DEF Rec
    <3> QED
      BY <2>1, <3>1
  <2> DEFINE h == [n \in 0 .. x |-> IF n = x THEN ReplayOne(f[x - 1], events[x]) ELSE f[n]]
  <2>5. ASSUME NEW n \in 0 .. x
        PROVE  h[n] = IF n = 0 THEN Start(base) ELSE ReplayOne(h[n - 1], events[n])
    <3>1. CASE n = x
      BY <1>0, <2>3, <3>1
    <3>2. CASE n # x
      <4>1. n \in 0 .. x - 1 /\ (n # 0 => n - 1 \in 0 .. x /\ n - 1 # x)
        BY <1>0, <2>3, <3>2
      <4>2. f[n] = IF n = 0 THEN Start(base) ELSE ReplayOne(f[n - 1], events[n])
        BY <2>4, <4>1
      <4> QED
        BY <3>2, <4>1, <4>2
    <3> QED
      BY <3>1, <3>2
  <2>6. Rec(x, h)
    BY <2>5
  <2> QED
    BY Zenon, <2>6
<1>2. \E f : Rec(N, f)
  BY <1>0, <1>1
<1> DEFINE after == CHOOSE f : Rec(N, f)
<1>3. Rec(N, after)
  <2> HIDE DEF Rec
  <2> QED
    BY <1>2
<1>4. Replay(base, events) = after[N]
  BY DEF Replay, N, Start
<1> HIDE DEF after
<1> QED
  BY Zenon, <1>3, <1>4 DEF Replayed, N

\* t is the first k of s.
Prefix(t, s, k) ==
  /\ s \in Seq(Events) /\ t \in Seq(Events) /\ k \in 0 .. Len(s) /\ Len(t) = k
  /\ \A i \in 1 .. k : t[i] = s[i]

\* The replay of a prefix is where the replay of the whole was at that point.
LEMMA ReplayPrefix ==
  ASSUME NEW base, NEW s, NEW f, Replayed(base, s, f), NEW k, NEW t, Prefix(t, s, k)
  PROVE  Replay(base, t) = f[k]
<1>0. /\ Len(s) \in Nat /\ k \in Nat /\ k <= Len(s) /\ t \in Seq(Events) /\ Len(t) = k
      /\ \A i \in 1 .. k : t[i] = s[i]
  BY DEF Prefix
<1>1. PICK h : Replayed(base, t, h) /\ Replay(base, t) = h[Len(t)]
  BY <1>0, ReplayExists
<1>2. \A i \in 0 .. k : h[i] = IF i = 0 THEN Start(base) ELSE ReplayOne(h[i - 1], t[i])
  BY <1>0, <1>1 DEF Replayed
<1>3. \A i \in 0 .. Len(s) : f[i] = IF i = 0 THEN Start(base) ELSE ReplayOne(f[i - 1], s[i])
  BY DEF Replayed
<1> DEFINE Bad == {i \in 0 .. k : h[i] # f[i]}
<1>4. Bad = {}
  <2> SUFFICES ASSUME Bad # {} PROVE FALSE
    OBVIOUS
  <2>1. PICK x \in Bad : \A y \in Bad : x <= y
    <3>1. Bad \in SUBSET Nat
      OBVIOUS
    <3> HIDE DEF Bad
    <3> QED
      BY <3>1, LeastNatural
  <2>2. x # 0
    BY <1>0, <1>2, <1>3
  <2>3. x \in 1 .. k /\ x \in 0 .. Len(s) /\ x - 1 \in 0 .. k /\ ~(x <= x - 1)
    BY <1>0, <2>2
  <2>4. h[x - 1] = f[x - 1]
    BY <2>1, <2>3
  <2>5. h[x] = ReplayOne(h[x - 1], t[x]) /\ f[x] = ReplayOne(f[x - 1], s[x])
    BY <1>2, <1>3, <2>2, <2>3
  <2> QED
    BY <1>0, <2>3, <2>4, <2>5
<1> QED
  BY <1>0, <1>1, <1>4

\* One more event is replayed after the others.
LEMMA ReplayAppend ==
  ASSUME NEW base, NEW s \in Seq(Events), NEW e \in Events
  PROVE  Replay(base, Append(s, e)) = ReplayOne(Replay(base, s), e)
<1> DEFINE t == Append(s, e)
           n == Len(s)
<1>1. /\ t \in Seq(Events) /\ n \in Nat /\ Len(t) = n + 1 /\ t[n + 1] = e
      /\ \A i \in 1 .. n : s[i] = t[i]
  OBVIOUS
<1> HIDE DEF t, n
<1>2. PICK f : Replayed(base, t, f) /\ Replay(base, t) = f[Len(t)]
  BY <1>1, ReplayExists
<1>3. Replay(base, s) = f[n]
  <2>1. Prefix(s, t, n)
    BY <1>1 DEF n, Prefix
  <2> QED
    BY <1>2, <2>1, ReplayPrefix
<1>4. f[n + 1] = ReplayOne(f[n], t[n + 1])
  <2>1. n + 1 \in 0 .. Len(t) /\ n + 1 # 0 /\ (n + 1) - 1 = n
    BY <1>1
  <2> QED
    BY <1>2, <2>1 DEF Replayed
<1> QED
  BY <1>1, <1>2, <1>3, <1>4 DEF t

\* Nothing to replay.
LEMMA ReplayNothing ==
  ASSUME NEW base
  PROVE  Replay(base, <<>>) = Start(base)
<1>1. <<>> \in Seq({}) /\ Len(<<>>) = 0
  OBVIOUS
<1>2. PICK f : Replayed(base, <<>>, f) /\ Replay(base, <<>>) = f[Len(<<>>)]
  BY Zenon, <1>1, ReplayExists
<1> QED
  BY <1>1, <1>2 DEF Replayed

\* What a replay has reached: a good graph as long as no event was rejected.
Fine(a) ==
  /\ a = [graph |-> a.graph, ok |-> a.ok] /\ a.ok \in BOOLEAN
  /\ a.ok = TRUE => Good(a.graph)

\* replay_run_graph's step keeps it so, and a rejection is not forgotten.
LEMMA ReplayOneFine ==
  ASSUME Bounds, NEW a, Fine(a), NEW e \in Events
  PROVE  Fine(ReplayOne(a, e)) /\ (ReplayOne(a, e).ok = TRUE => a.ok = TRUE)
<1> DEFINE b == ReplayOne(a, e)
<1>1. CASE a.ok = TRUE /\ Accepted(a.graph, e)
  <2> DEFINE g == ApplyEvent(a.graph, e, HistoryCap)
  <2>1. b = [a EXCEPT !.graph = g]
    BY <1>1 DEF ReplayOne
  <2>2. Good(g)
    BY <1>1, ApplyGood DEF Fine
  <2> HIDE DEF b, g
  <2>3. b = [graph |-> b.graph, ok |-> b.ok] /\ b.graph = g /\ b.ok = a.ok
    BY <2>1 DEF Fine
  <2> QED
    BY <1>1, <2>2, <2>3 DEF Fine, b
<1>2. CASE ~(a.ok = TRUE /\ Accepted(a.graph, e))
  <2>1. ~(a.ok /\ Accepted(a.graph, e))
    BY <1>2 DEF Fine
  <2>2. b = [a EXCEPT !.ok = FALSE]
    BY <2>1 DEF ReplayOne
  <2> HIDE DEF b
  <2>3. b = [graph |-> b.graph, ok |-> b.ok] /\ b.ok = FALSE
    BY Zenon, <2>2 DEF Fine
  <2> QED
    BY Zenon, <2>3 DEF Fine, b
<1> QED
  BY Zenon, <1>1, <1>2

\* A replay that succeeds on every event succeeds on the first ones, and yields a
\* graph as good as the one it began with.
LEMMA ReplayOfPrefix ==
  ASSUME Bounds, NEW base, Good(base), NEW s, Replay(base, s).ok = TRUE,
         NEW k, NEW t, Prefix(t, s, k)
  PROVE  /\ Good(Replay(base, t).graph)
         /\ Replay(base, t) = [graph |-> Replay(base, t).graph, ok |-> TRUE]
<1> DEFINE n == Len(s)
<1>0. n \in Nat /\ (\A i \in 1 .. n : s[i] \in Events) /\ k \in 0 .. n /\ s \in Seq(Events)
  BY DEF Prefix
<1>1. PICK f : Replayed(base, s, f) /\ Replay(base, s) = f[n]
  BY <1>0, ReplayExists
<1>2. \A i \in 0 .. n : f[i] = IF i = 0 THEN Start(base) ELSE ReplayOne(f[i - 1], s[i])
  BY <1>1 DEF Replayed
<1>3. Replay(base, t) = f[k]
  BY <1>1, ReplayPrefix
<1> HIDE DEF n
<1> DEFINE Upto(i) == Fine(f[i]) /\ (f[i].ok = TRUE => \A j \in 0 .. i : f[j].ok = TRUE)
           Bad     == {i \in 0 .. n : ~Upto(i)}
<1>5. Bad = {}
  <2> SUFFICES ASSUME Bad # {} PROVE FALSE
    BY Zenon
  <2>1. PICK x \in Bad : \A y \in Bad : x <= y
    <3>1. Bad \in SUBSET Nat
      OBVIOUS
    <3> HIDE DEF Bad
    <3> QED
      BY <3>1, LeastNatural
  <2>2. x # 0
    <3>1. f[0] = Start(base)
      <4>1. 0 \in 0 .. n
        BY <1>0
      <4> QED
        BY <1>2, <4>1
    <3>2. Fine(f[0]) /\ f[0].ok = TRUE
      BY <3>1 DEF Start, Fine
    <3>3. Upto(0)
      BY <3>2
    <3> HIDE DEF Upto
    <3> QED
      BY <3>3
  <2>3. x \in 1 .. n /\ x - 1 \in 0 .. n /\ ~(x <= x - 1)
    BY <1>0, <2>2
  <2>4. Upto(x - 1)
    <3> HIDE DEF Upto
    <3> QED
      BY <2>1, <2>3
  <2>5. f[x] = ReplayOne(f[x - 1], s[x])
    BY <1>2, <2>2, <2>3
  <2>6. Fine(f[x]) /\ (f[x].ok = TRUE => f[x - 1].ok = TRUE)
    <3>1. Fine(f[x - 1]) /\ s[x] \in Events
      BY <1>0, <2>3, <2>4
    <3> DEFINE a == f[x - 1]
    <3>2. /\ Fine(ReplayOne(a, s[x]))
          /\ ReplayOne(a, s[x]).ok = TRUE => a.ok = TRUE
      <4> HIDE DEF a
      <4>1. Fine(a)
        BY <3>1 DEF a
      <4> QED
        BY Zenon, <3>1, <4>1, ReplayOneFine
    <3> QED
      BY <2>5, <3>2
  <2>7. \A j \in 0 .. x : j = x \/ j \in 0 .. x - 1
    BY <1>0, <2>3
  <2>8. Upto(x)
    BY <2>4, <2>6, <2>7
  <2> HIDE DEF Upto
  <2> QED
    BY <2>8
<1>6. Upto(n) /\ Upto(k)
  <2>1. n \in 0 .. n /\ k \in 0 .. n
    BY <1>0
  <2> HIDE DEF Upto
  <2> QED
    BY <1>5, <2>1
<1>7. f[k].ok = TRUE
  BY <1>0, <1>1, <1>6
<1> QED
  BY Zenon, <1>3, <1>6, <1>7 DEF Fine

-----------------------------------------------------------------------------
(* The server.                                                             *)

\* The graph and the log together: what was appended since the snapshot replays
\* to the graph.
Logged(base, acc) ==
  /\ acc = [graph |-> acc.graph, suffix |-> acc.suffix, rejected |-> acc.rejected]
  /\ Good(acc.graph) /\ acc.suffix \in Seq(Events) /\ acc.rejected \in BOOLEAN
  /\ Replay(base, acc.suffix) = [graph |-> acc.graph, ok |-> TRUE]

\* record_run_graph_change keeps them together.
LEMMA RecordIntoKeeps ==
  ASSUME Bounds, NEW base, NEW acc, Logged(base, acc), NEW e \in Events
  PROVE  Logged(base, RecordInto(acc, e))
<1> DEFINE b == RecordInto(acc, e)
<1>1. CASE Accepted(acc.graph, e)
  <2> DEFINE g == ApplyEvent(acc.graph, e, HistoryCap)
             t == Append(acc.suffix, e)
  <2>1. b = [acc EXCEPT !.graph = g, !.suffix = t]
    BY <1>1 DEF RecordInto
  <2>2. Good(g)
    BY <1>1, ApplyGood DEF Logged
  <2>3. t \in Seq(Events)
    BY DEF Logged
  <2>4. Replay(base, t) = [graph |-> g, ok |-> TRUE]
    <3> DEFINE a == [graph |-> acc.graph, ok |-> TRUE]
               c == ReplayOne(a, e)
    <3>1. Replay(base, t) = c
      <4>1. Replay(base, t) = ReplayOne(Replay(base, acc.suffix), e)
        BY Zenon, ReplayAppend DEF Logged
      <4> QED
        BY <4>1 DEF Logged
    <3>2. a.ok = TRUE /\ a.graph = acc.graph /\ a = [graph |-> a.graph, ok |-> a.ok]
      OBVIOUS
    <3> HIDE DEF a
    <3>3. c = [a EXCEPT !.graph = g]
      BY <1>1, <3>2 DEF ReplayOne
    <3> HIDE DEF c, g
    <3>4. c = [graph |-> c.graph, ok |-> c.ok] /\ c.graph = g /\ c.ok = TRUE
      BY <3>2, <3>3
    <3> QED
      BY <3>1, <3>4
  <2> HIDE DEF b, g, t
  <2>5. /\ b = [graph |-> b.graph, suffix |-> b.suffix, rejected |-> b.rejected]
        /\ b.graph = g /\ b.suffix = t /\ b.rejected = acc.rejected
    BY Zenon, <2>1 DEF Logged
  <2>6. acc.rejected \in BOOLEAN
    BY DEF Logged
  <2> QED
    BY <2>2, <2>3, <2>4, <2>5, <2>6 DEF Logged, b
<1>2. CASE ~Accepted(acc.graph, e)
  <2>1. b = [acc EXCEPT !.rejected = TRUE]
    BY <1>2 DEF RecordInto
  <2> HIDE DEF b
  <2>2. /\ b = [graph |-> b.graph, suffix |-> b.suffix, rejected |-> b.rejected]
        /\ b.graph = acc.graph /\ b.suffix = acc.suffix /\ b.rejected = TRUE
    BY Zenon, <2>1 DEF Logged
  <2> QED
    BY Zenon, <2>2 DEF Logged, b
<1> QED
  BY <1>1, <1>2

\* So does recording several events one after the other.
LEMMA RecordAllKeeps ==
  ASSUME Bounds, NEW base, NEW acc, Logged(base, acc), NEW events \in Seq(Events)
  PROVE  Logged(base, RecordAll(acc, events))
<1> DEFINE N == Len(events)
           Rec(k, f) == f = [n \in 0 .. k |-> IF n = 0 THEN acc ELSE RecordInto(f[n - 1], events[n])]
           W == {k \in 0 .. N : ~\E f : Rec(k, f)}
<1>0. N \in Nat /\ \A n \in 1 .. N : events[n] \in Events
  OBVIOUS
<1> HIDE DEF N
<1>1. W = {}
  <2> SUFFICES ASSUME W # {} PROVE FALSE
    OBVIOUS
  <2>1. PICK x \in W : \A y \in W : x <= y
    <3>1. W \in SUBSET Nat
      OBVIOUS
    <3> HIDE DEF W
    <3> QED
      BY <3>1, LeastNatural
  <2>2. Rec(0, [n \in 0 .. 0 |-> acc])
    OBVIOUS
  <2>3. x \in 1 .. N
    <3>1. x # 0
      <4> HIDE DEF Rec
      <4> QED
        BY <2>2
    <3> QED
      BY <1>0, <3>1
  <2>4. PICK f : Rec(x - 1, f)
    <3>1. x - 1 \in 0 .. N /\ ~(x <= x - 1)
      BY <1>0, <2>3
    <3> HIDE DEF Rec
    <3> QED
      BY <2>1, <3>1
  <2> DEFINE h == [n \in 0 .. x |-> IF n = x THEN RecordInto(f[x - 1], events[x]) ELSE f[n]]
  <2>5. ASSUME NEW n \in 0 .. x PROVE h[n] = IF n = 0 THEN acc ELSE RecordInto(h[n - 1], events[n])
    <3>1. CASE n = x
      BY <1>0, <2>3, <3>1
    <3>2. CASE n # x
      <4>1. n \in 0 .. x - 1 /\ (n # 0 => n - 1 \in 0 .. x /\ n - 1 # x)
        BY <1>0, <2>3, <3>2
      <4>2. f[n] = IF n = 0 THEN acc ELSE RecordInto(f[n - 1], events[n])
        BY <2>4, <4>1
      <4> QED
        BY <3>2, <4>1, <4>2
    <3> QED
      BY <3>1, <3>2
  <2>6. Rec(x, h)
    BY <2>5
  <2> QED
    BY Zenon, <2>6
<1>2. \E f : Rec(N, f)
  BY <1>0, <1>1
<1> DEFINE after == CHOOSE f : Rec(N, f)
<1>3. Rec(N, after)
  <2> HIDE DEF Rec
  <2> QED
    BY <1>2
<1>4. RecordAll(acc, events) = after[N]
  BY DEF RecordAll, N
<1> HIDE DEF after
<1>5. \A n \in 0 .. N : after[n] = IF n = 0 THEN acc ELSE RecordInto(after[n - 1], events[n])
  BY Zenon, <1>3
<1> HIDE DEF Rec
<1> DEFINE Bad == {n \in 0 .. N : ~Logged(base, after[n])}
<1>6. Bad = {}
  <2> SUFFICES ASSUME Bad # {} PROVE FALSE
    OBVIOUS
  <2>1. PICK x \in Bad : \A y \in Bad : x <= y
    <3>1. Bad \in SUBSET Nat
      OBVIOUS
    <3> HIDE DEF Bad
    <3> QED
      BY <3>1, LeastNatural
  <2>2. x # 0
    BY <1>0, <1>5
  <2>3. x \in 1 .. N /\ x - 1 \in 0 .. N /\ ~(x <= x - 1)
    BY <1>0, <2>2
  <2>4. Logged(base, after[x - 1])
    BY <2>1, <2>3
  <2>5. Logged(base, RecordInto(after[x - 1], events[x]))
    BY <1>0, <2>3, <2>4, RecordIntoKeeps
  <2>6. after[x] = RecordInto(after[x - 1], events[x])
    BY <1>5, <2>2
  <2> QED
    BY <2>5, <2>6
<1> QED
  BY <1>0, <1>4, <1>6

-----------------------------------------------------------------------------
(* The invariant.                                                          *)

IInv ==
  /\ Good(graph) /\ Good(checkpoint) /\ suffix \in Seq(Events)
  /\ forks \subseteq RunIds /\ rejected \in BOOLEAN
  /\ ReplayRebuildsGraph

\* Recording well-formed events keeps it.
LEMMA RecordKeeps ==
  ASSUME Bounds, IInv, NEW events \in Seq(Events), Record(events), checkpoint' = checkpoint
  PROVE  /\ Good(graph') /\ suffix' \in Seq(Events) /\ rejected' \in BOOLEAN
         /\ ReplayRebuildsGraph'
<1> DEFINE acc == RecordAll(Here, events)
<1>1. Logged(checkpoint, Here)
  <2>1. Here.graph = graph /\ Here.suffix = suffix /\ Here.rejected = rejected
    BY DEF Here
  <2> QED
    BY <2>1 DEF Logged, Here, IInv, ReplayRebuildsGraph
<1>2. Logged(checkpoint, acc)
  BY <1>1, RecordAllKeeps
<1>3. graph' = acc.graph /\ suffix' = acc.suffix /\ rejected' = acc.rejected
  BY DEF Record, Become
<1> HIDE DEF acc
<1> QED
  BY <1>2, <1>3 DEF Logged, ReplayRebuildsGraph

\* The events of create_orchestration_run are well formed.
LEMMA CreateRunKeeps ==
  ASSUME Bounds, IInv, NEW parent \in RunIds \cup {0}, NEW project \in Projects,
         NEW panes \in RolePanes, graph.nextRun <= MaxRuns,
         graph.nextRole + Len(panes) <= MaxRoles + 1,
         CreateRun(parent, project, panes), checkpoint' = checkpoint
  PROVE  /\ Good(graph') /\ suffix' \in Seq(Events) /\ rejected' \in BOOLEAN
         /\ ReplayRebuildsGraph'
<1> DEFINE run   == graph.nextRun
           first == graph.nextRole
           n     == Len(panes)
           made  == [type |-> "Created", run |-> run, parent |-> parent, project |-> project,
                     task |-> run]
           role(i) == [type |-> "RoleDeclared", run |-> run, role |-> first + i - 1,
                       pane |-> panes[i]]
           roles == [i \in 1 .. n |-> role(i)]
<1>1. run \in RunIds /\ first \in Nat \ {0}
  BY DEF IInv, Good, Sound, Typed, RunIds, Bounds
<1>2. n \in Nat /\ \A i \in 1 .. n : panes[i] \in Panes
  <2>1. CASE panes \in [1 .. 1 -> Panes]
    <3>1. n = 1
      BY <2>1
    <3> QED
      BY <2>1, <3>1
  <2>2. CASE panes \in [1 .. 2 -> Panes]
    <3>1. n = 2
      BY <2>2
    <3> QED
      BY <2>2, <3>1
  <2> QED
    BY <2>1, <2>2 DEF RolePanes
<1>3. made \in Events
  BY <1>1 DEF Events, CreatedEvents
<1>4. ASSUME NEW i \in 1 .. n PROVE role(i) \in Events
  <2>1. first + i - 1 \in RoleIds
    BY <1>1, <1>2 DEF RoleIds, Bounds
  <2> QED
    BY <1>1, <1>2, <2>1 DEF Events, RoleEvents
<1>5. roles \in Seq(Events)
  <2> HIDE DEF role, n
  <2> QED
    BY <1>2, <1>4
<1>6. <<made>> \o roles \in Seq(Events)
  <2> HIDE DEF made, roles
  <2> QED
    BY <1>3, <1>5
<1>7. Record(<<made>> \o roles)
  BY DEF CreateRun
<1> HIDE DEF made, roles
<1> QED
  BY Zenon, <1>6, <1>7, RecordKeeps

\* A Task's run is a run of the graph.
LEMMA TaskRun ==
  ASSUME NEW g, Sound(g), NEW task \in DOMAIN g.taskRuns
  PROVE  g.taskRuns[task] \in DOMAIN g.runs
BY DEF Sound, TasksIndexed

\* The invariant holds of an empty Workspace.
LEMMA InitHolds ==
  ASSUME Bounds
  PROVE  Init => IInv
<1> SUFFICES ASSUME Init PROVE IInv
  OBVIOUS
<1>1. Good(graph) /\ Good(checkpoint)
  BY NewGraphGood DEF Init
<1>2. ReplayRebuildsGraph
  BY ReplayNothing DEF Init, ReplayRebuildsGraph, Start
<1>3. suffix \in Seq(Events) /\ forks \subseteq RunIds
  BY DEF Init
<1>4. rejected \in BOOLEAN
  BY Zenon DEF Init
<1> QED
  BY <1>1, <1>2, <1>3, <1>4 DEF IInv

\* Every action of the server keeps the invariant, a crash included.
LEMMA StepKeeps ==
  ASSUME Bounds
  PROVE  IInv /\ [Next]_vars => IInv'
<1> SUFFICES ASSUME IInv, [Next]_vars PROVE IInv'
  OBVIOUS
<1>0. /\ Good(graph) /\ Good(checkpoint) /\ suffix \in Seq(Events)
      /\ forks \subseteq RunIds /\ rejected \in BOOLEAN /\ ReplayRebuildsGraph
  BY DEF IInv
<1>1. ASSUME NEW project \in Projects, NEW panes \in RolePanes, Launch(project, panes)
      PROVE  IInv'
  <2>1. /\ graph.nextRun <= MaxRuns /\ graph.nextRole + Len(panes) <= MaxRoles + 1
        /\ CreateRun(0, project, panes) /\ checkpoint' = checkpoint /\ forks' = forks
    BY <1>1 DEF Launch
  <2>2. /\ Good(graph') /\ suffix' \in Seq(Events) /\ rejected' \in BOOLEAN
        /\ ReplayRebuildsGraph'
    BY <2>1, CreateRunKeeps
  <2> QED
    BY <1>0, <2>1, <2>2 DEF IInv
<1>2. ASSUME NEW project \in Projects, NEW panes \in RolePanes, NEW parent \in forks,
             FinishFork(parent, project, panes)
      PROVE  IInv'
  <2>1. /\ graph.nextRun <= MaxRuns /\ graph.nextRole + Len(panes) <= MaxRoles + 1
        /\ CreateRun(parent, project, panes) /\ checkpoint' = checkpoint
        /\ forks' = forks \ {parent}
    BY <1>2 DEF FinishFork
  <2>2. parent \in RunIds \cup {0}
    BY <1>0
  <2>3. /\ Good(graph') /\ suffix' \in Seq(Events) /\ rejected' \in BOOLEAN
        /\ ReplayRebuildsGraph'
    BY <2>1, <2>2, CreateRunKeeps
  <2> QED
    BY <1>0, <2>1, <2>3 DEF IInv
<1>3. ASSUME NEW run \in DOMAIN graph.runs, StartFork(run) PROVE IInv'
  <2>1. run \in RunIds
    BY <1>0 DEF Good, Sound, Typed
  <2>2. /\ graph' = graph /\ suffix' = suffix /\ checkpoint' = checkpoint /\ rejected' = rejected
        /\ forks' = forks \cup {run}
    BY <1>3 DEF StartFork
  <2>3. ReplayRebuildsGraph'
    BY <1>0, <2>2 DEF ReplayRebuildsGraph
  <2>4. forks' \subseteq RunIds
    BY <1>0, <2>1, <2>2
  <2> QED
    BY <1>0, <2>2, <2>3, <2>4 DEF IInv
<1>4. ASSUME NEW task \in DOMAIN graph.taskRuns, NEW index \in 1 .. 2, Activation(task, index)
      PROVE  IInv'
  <2> DEFINE run  == graph.taskRuns[task]
             role == graph.runs[run].roles[index]
             from == ActiveRole(graph, run)
             e    == [type |-> "Activated", run |-> run, role |-> role,
                      activation |-> graph.nextActivation,
                      from |-> IF from = role THEN 0 ELSE from]
  <2>1. /\ index \in DOMAIN graph.runs[run].roles /\ Record(<<e>>)
        /\ checkpoint' = checkpoint /\ forks' = forks
    BY <1>4 DEF Activation
  <2>2. run \in DOMAIN graph.runs
    BY <1>0, TaskRun DEF Good
  <2>3. run \in RunIds /\ graph.runs[run] \in RunRecords /\ graph.nextActivation \in Nat \ {0}
    BY Zenon, <1>0, <2>2 DEF Good, Sound, Typed
  <2>4. role \in RoleIds
    <3> DEFINE roles == graph.runs[run].roles
    <3>1. roles \in Seq(RoleIds)
      BY <2>3 DEF RunRecords
    <3> HIDE DEF roles
    <3>2. \A i \in DOMAIN roles : roles[i] \in RoleIds
      BY <3>1
    <3> QED
      BY Zenon, <2>1, <3>2 DEF roles
  <2>5. from \in RoleIds \cup {0}
    <3>1. \/ LiveOf(graph, run) = {} /\ from = 0
          \/ LiveOf(graph, run) = {from} /\ from # 0
      BY <1>0, <2>2, ActiveRoleFacts DEF Good
    <3>2. LiveOf(graph, run) \subseteq RoleIds
      BY Zenon, <1>0 DEF Good, Sound, Typed, LiveOf, LiveRoles
    <3> QED
      BY <3>1, <3>2
  <2>6. e \in Events
    <3> HIDE DEF run, role, from
    <3> QED
      BY Zenon, <2>3, <2>4, <2>5 DEF Events, ActivatedEvents
  <2> HIDE DEF e
  <2>7. /\ Good(graph') /\ suffix' \in Seq(Events) /\ rejected' \in BOOLEAN
        /\ ReplayRebuildsGraph'
    <3>1. <<e>> \in Seq(Events)
      BY <2>6
    <3> QED
      BY Zenon, <2>1, <3>1, RecordKeeps
  <2>8. Good(checkpoint') /\ forks' \subseteq RunIds
    BY Zenon, <1>0, <2>1
  <2> QED
    BY <2>7, <2>8 DEF IInv
<1>5. ASSUME NEW task \in DOMAIN graph.taskRuns, NEW status \in Outcomes, Terminate(task, status)
      PROVE  IInv'
  <2> DEFINE run == graph.taskRuns[task]
             e   == [type |-> "Finished", run |-> run, status |-> status]
  <2>1. Record(<<e>>) /\ checkpoint' = checkpoint /\ forks' = forks
    BY <1>5 DEF Terminate
  <2>2. run \in DOMAIN graph.runs
    BY <1>0, TaskRun DEF Good
  <2>3. run \in RunIds /\ status \in Terminal
    BY Zenon, <1>0, <2>2 DEF Good, Sound, Typed, Bounds
  <2>4. e \in Events
    BY <2>3 DEF Events, FinishedEvents
  <2> HIDE DEF e
  <2>5. /\ Good(graph') /\ suffix' \in Seq(Events) /\ rejected' \in BOOLEAN
        /\ ReplayRebuildsGraph'
    <3>1. <<e>> \in Seq(Events)
      BY <2>4
    <3> QED
      BY Zenon, <2>1, <3>1, RecordKeeps
  <2> QED
    BY <1>0, <2>1, <2>5 DEF IInv
<1>6. ASSUME Checkpoint PROVE IInv'
  <2>1. /\ checkpoint' = graph /\ suffix' = <<>> /\ graph' = graph /\ forks' = forks
        /\ rejected' = rejected
    BY <1>6 DEF Checkpoint
  <2>2. ReplayRebuildsGraph'
    BY <2>1, ReplayNothing DEF ReplayRebuildsGraph, Start
  <2> QED
    BY <1>0, <2>1, <2>2 DEF IInv
<1>7. ASSUME NEW kept \in 0 .. Len(suffix), Crash(kept) PROVE IInv'
  <2> DEFINE t == SubSeq(suffix, 1, kept)
  <2>1. /\ graph' = Replay(checkpoint, t).graph /\ suffix' = t /\ forks' = {}
        /\ rejected' = FALSE /\ checkpoint' = checkpoint
    BY <1>7 DEF Crash
  <2>2. Prefix(t, suffix, kept)
    <3>1. Len(suffix) \in Nat /\ kept \in Nat /\ kept <= Len(suffix)
      BY <1>0
    <3>2. t \in Seq(Events) /\ Len(t) = kept /\ \A i \in 1 .. kept : t[i] = suffix[i]
      BY <1>0, <3>1
    <3> HIDE DEF t
    <3> QED
      BY <1>0, <3>2 DEF Prefix
  <2> HIDE DEF t
  <2>3. Replay(checkpoint, suffix).ok = TRUE
    BY <1>0 DEF ReplayRebuildsGraph
  <2>4. /\ Good(Replay(checkpoint, t).graph)
        /\ Replay(checkpoint, t) = [graph |-> Replay(checkpoint, t).graph, ok |-> TRUE]
    BY Zenon, <1>0, <2>2, <2>3, ReplayOfPrefix
  <2>5. ReplayRebuildsGraph'
    BY <2>1, <2>4 DEF ReplayRebuildsGraph
  <2> QED
    BY Zenon, <1>0, <2>1, <2>2, <2>4, <2>5 DEF IInv, Prefix
<1>8. CASE UNCHANGED vars
  BY <1>0, <1>8 DEF vars, IInv, ReplayRebuildsGraph
<1> QED
  BY <1>1, <1>2, <1>3, <1>4, <1>5, <1>6, <1>7, <1>8 DEF Next

-----------------------------------------------------------------------------
(* What holds for any number of runs, roles and turns.                     *)

\* Every reachable graph is sound and within its cap, and so is the checkpoint;
\* the log in between holds the events that lead from one to the other.
THEOREM GraphInvariance ==
  ASSUME Bounds
  PROVE  Spec => []IInv
BY InitHolds, StepKeeps, PTL DEF Spec

\* Identities in use are below their allocators and no activation identity is
\* given twice (run_graph.rs, apply).
THEOREM IdentitiesFresh ==
  ASSUME Bounds
  PROVE  Spec => []TypeOK
<1>1. IInv => TypeOK
  <2> SUFFICES ASSUME IInv PROVE TypeOK
    OBVIOUS
  <2>1. Typed(graph) /\ Fresh(graph) /\ forks \subseteq RunIds /\ rejected \in BOOLEAN
    BY DEF IInv, Good, Sound
  <2>2. \A r \in DOMAIN graph.runs : graph.runs[r].status \in Terminal \cup {"Created", "Active"}
    BY <2>1 DEF Typed, RunRecords, Statuses
  <2>3. \A i, j \in DOMAIN graph.roles :
          i # j /\ graph.roles[i].activation = graph.roles[j].activation
            => graph.roles[i].activation = 0
    BY <2>1 DEF Fresh
  <2> QED
    BY <2>1, <2>2, <2>3 DEF TypeOK, Typed, RunIds, RoleIds
<1> QED
  BY <1>1, GraphInvariance, PTL

\* Every index answers as a scan of the records would (run_graph.rs, the maps kept
\* beside the records by apply and prune_to).
THEOREM IndexesAgreed ==
  ASSUME Bounds
  PROVE  Spec => []IndexesAgree
<1>1. IInv => IndexesAgree
  BY DEF IInv, Good, Sound, IndexesAgree
<1> QED
  BY <1>1, GraphInvariance, PTL

\* A run is Active exactly when one of its roles has the live turn, and never two
\* (run_graph.rs, activate and finish).
THEOREM TurnHeldOnce ==
  ASSUME Bounds
  PROVE  Spec => []OneLiveRole
<1>1. IInv => OneLiveRole
  <2> SUFFICES ASSUME IInv, NEW r \in DOMAIN graph.runs
               PROVE  Cardinality(LiveOf(graph, r)) = IF graph.runs[r].status = "Active" THEN 1 ELSE 0
    BY DEF OneLiveRole, LiveOf
  <2>1. IF graph.runs[r].status = "Active" THEN \E i : LiveOf(graph, r) = {i}
        ELSE LiveOf(graph, r) = {}
    BY Zenon DEF IInv, Good, Sound, OneLive
  <2>2. CASE graph.runs[r].status = "Active"
    <3>1. PICK i : LiveOf(graph, r) = {i}
      BY <2>1, <2>2
    <3> QED
      BY Zenon, <2>2, <3>1, FS_Singleton
  <2>3. CASE graph.runs[r].status # "Active"
    BY <2>1, <2>3, FS_EmptySet
  <2> QED
    BY <2>2, <2>3
<1> QED
  BY <1>1, GraphInvariance, PTL

\* No record names a run or a role that was pruned (run_graph.rs, prune_to).
THEOREM NothingDanglesEver ==
  ASSUME Bounds
  PROVE  Spec => []NothingDangles
<1>1. IInv => NothingDangles
  BY DEF IInv, Good, Sound, NothingDangles
<1> QED
  BY <1>1, GraphInvariance, PTL

\* At most RUN_GRAPH_HISTORY_CAP closed leaves are kept, for any cap.
THEOREM LeavesBounded ==
  ASSUME Bounds
  PROVE  Spec => []ClosedLeavesBounded
<1>1. IInv => ClosedLeavesBounded
  BY DEF IInv, Good, Capped, ClosedLeavesBounded
<1> QED
  BY <1>1, GraphInvariance, PTL

\* The events appended since the snapshot rebuild the live graph, for any number of
\* them and whatever a crash kept (orchestration.rs, record_run_graph_change and
\* replay_run_graph).
THEOREM ReplayRebuilds ==
  ASSUME Bounds
  PROVE  Spec => []ReplayRebuildsGraph
<1>1. IInv => ReplayRebuildsGraph
  BY DEF IInv
<1> QED
  BY <1>1, GraphInvariance, PTL
=============================================================================
