-------------------------- MODULE MCOrchestration --------------------------
(***************************************************************************)
(* Three parts of orchestration checked by one run: the brain              *)
(* (Orchestrate), the run graph (RunGraph) and the recovery of runs from   *)
(* the log (RunRecovery).  "part" picks the one that moves; the other two  *)
(* stay in their initial states.                                           *)
(***************************************************************************)
EXTENDS Orchestrate, TLC

CONSTANT Panes
VARIABLES part,
  graph, suffix, checkpoint, forks, rejected,               \* of RunGraph
  log, run, entry, task, item, stall, issued, refused       \* of RunRecovery

graphVars    == <<graph, suffix, checkpoint, forks, rejected>>
recoveryVars == <<log, run, entry, task, item, stall, issued, refused>>

\* Two Panes, so that runs compete for one; a history of one closed leaf.
Graph == INSTANCE RunGraph WITH
  Projects <- {"q"}, Outcomes <- {"Completed"}, HistoryCap <- 1, MaxRuns <- 3,
  MaxRoles <- 3, MaxActivations <- 2, MaxSuffix <- 3

Recovery == INSTANCE RunRecovery WITH MaxTurns <- 3, MaxEvents <- 12, graph <- entry

\* Planner, builder and verifier (the "triad" template).
Triad == <<FALSE, FALSE, TRUE>>

\* Of the tokens of earlier turns, the last one stands for all.
MCSubmissions ==
  [token : {st.token, st.token - 1}, role : 1 .. Len(Roles), status : {"done", "needs_input", "failed"},
   verdict : {"none", "approved", "fix", "replan"}, findings : Findings]

BrainNext ==
  \/ Starts \/ Stops \/ Stalls
  \/ st.seq < MaxTurns /\ Resumes
  \/ \E role \in 1 .. Len(Roles) : st.seq < MaxTurns /\ Idles(role)
  \/ \E sub \in MCSubmissions : st.seq < MaxTurns /\ Submits(sub)

MCInit == Init /\ Graph!Init /\ Recovery!Init /\ part \in {"brain", "graph", "recovery"}

BrainStep    == part = "brain" /\ BrainNext /\ UNCHANGED <<part, graphVars, recoveryVars>>
GraphStep    == part = "graph" /\ Graph!Next /\ UNCHANGED <<part, vars, recoveryVars>>
RecoveryStep == part = "recovery" /\ Recovery!Next /\ UNCHANGED <<part, vars, graphVars>>

MCNext == BrainStep \/ GraphStep \/ RecoveryStep

MCSpec == MCInit /\ [][MCNext]_<<part, vars, graphVars, recoveryVars>>

Symmetry == Permutations(Panes)

-----------------------------------------------------------------------------
(* The properties of the instances; each is stated and explained in its    *)
(* own module.                                                             *)

\* RunGraph: a Pane has one live role, the three indexes agree with the
\* records, pruning leaves no dangling reference and keeps to its cap, and the
\* log replays to the graph that is served; the brain and the log with what
\* restart rebuilds from it have their types.
StateIsConsistent ==
  /\ TypeOK
  /\ part = "recovery" => Recovery!TypeOK
  /\ part = "graph" =>
       /\ Graph!TypeOK /\ Graph!OneLiveRole /\ Graph!IndexesAgree
       /\ Graph!NothingDangles /\ Graph!ClosedLeavesBounded /\ Graph!ReplayRebuildsGraph
\* RunRecovery: no crash revives a finished run, and a restored one runs under
\* a stall deadline or asks a human.
RecoveryIsSafe == [][Recovery!EndIsFinal /\ Recovery!RestoreIsWatched]_recoveryVars
=============================================================================
