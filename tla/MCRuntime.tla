----------------------------- MODULE MCRuntime -----------------------------
(***************************************************************************)
(* The work between the core and its runtime: the seam itself              *)
(* (RuntimeSeam), the workflows and relays driven over it (RunDriver) and  *)
(* queued direction (InstructionQueue).  "part" picks the one that moves,  *)
(* under the fairness of its own module; the others stay in their initial  *)
(* states.  One run checks what is always so, another what must happen.    *)
(***************************************************************************)
EXTENDS RuntimeSeam

CONSTANTS Parts, Templates, MaxTurns, Panes
VARIABLES part,
  template, run, panes, agent, waiting, submissions, validating, deliveries, activation, rolling,
  task, graph, known, proven,                                              \* of RunDriver
  queue, recorded, written, failed, terminals, asked, given, sent, crashes \* of InstructionQueue

driverVars    == <<template, run, panes, agent, waiting, submissions, validating, deliveries,
                   activation, rolling, task, graph, known, proven>>
directionVars == <<queue, recorded, written, failed, terminals, asked, given, sent, crashes>>

\* One Workspace and one Pane.
MCSubjects ==
  {[kind |-> "SnapshotSave",   key |-> "w"],
   [kind |-> "EventAppend",    key |-> "w"],
   [kind |-> "PaneEvidence",   key |-> "p"],
   [kind |-> "SnapshotDelete", key |-> "w"]}

MCSizeOf(kind) == IF kind = "SnapshotSave" THEN 2 ELSE 1

\* The pair template (a builder that owes artifacts, a verifier) and the relay
\* (builder, reviewer).
Pair   == [kind |-> "Workflow", roles |-> <<FALSE, TRUE>>, expecting |-> {1}]
Relay  == [kind |-> "Relay", roles |-> <<FALSE, FALSE>>, expecting |-> {}]
PairAlone    == {Pair}
PairAndRelay == {Pair, Relay}
Driver == INSTANCE RunDriver WITH MaxIterations <- 1, MaxInFlight <- 2

Direction == INSTANCE InstructionQueue WITH
  MaxWorkspace <- 3, MaxInvocation <- 2, MaxAsked <- 1, MaxDelivery <- 1, MaxPid <- 3,
  MaxVerdicts <- 1, MaxCrashes <- 0, panes <- terminals

MCInit ==
  /\ part \in Parts
  /\ Init /\ Driver!Init /\ Direction!Init
  /\ template = Pair \/ part = "driver"

SeamStep      == part = "seam" /\ UNCHANGED <<part, driverVars, directionVars>> /\ Next
DriverStep    == part = "driver" /\ UNCHANGED <<part, vars, directionVars>> /\ Driver!Next
DirectionStep == part = "direction" /\ UNCHANGED <<part, vars, driverVars>> /\ Direction!Next

MCNext == SeamStep \/ DriverStep \/ DirectionStep

MCSpec == MCInit /\ [][MCNext]_<<part, vars, driverVars, directionVars>>

\* RuntimeSeam: the core polls its waker; its shutdown loop and the threads run.
SeamFairness ==
  /\ WF_vars(part = "seam" /\ Drain)
  /\ WF_vars(part = "seam" /\ FlushBacklog)
  /\ WF_vars(part = "seam" /\ CloseRequests)
  /\ WF_vars(part = "seam" /\ JoinConsume)
  /\ WF_vars(part = "seam" /\ Receive)
  /\ WF_vars(part = "seam" /\ Reply)

\* RunDriver: the core loop wakes at each due time.
DriverFairness ==
  /\ WF_driverVars(part = "driver" /\ Driver!ValidationsDue)
  /\ WF_driverVars(part = "driver" /\ Driver!StallsDue)
  /\ WF_driverVars(part = "driver" /\ Driver!LimitsDue)

\* InstructionQueue: Panes keep producing output and verdicts come back.
DirectionFairness ==
  \A p \in Panes :
    /\ WF_directionVars(part = "direction" /\ Direction!Observed(p))
    /\ WF_directionVars(part = "direction" /\ Direction!Judged(p))

MCFairSpec == MCSpec /\ SeamFairness /\ DriverFairness /\ DirectionFairness

-----------------------------------------------------------------------------
(* The properties of the instances; each is stated and explained in its    *)
(* own module.                                                             *)

\* RuntimeSeam: the outbox counts the bytes it holds and keeps its capacities.
\* RunDriver: a live run has its Panes and an ended one left nothing pending.
StateIsSettled ==
  /\ TypeOK
  /\ part = "driver" => Driver!TypeOK /\ Driver!LiveRunHasItsPanes /\ Driver!EndedRunIsSettled
\* RunDriver: a role that owes artifacts hands over only after they were
\* validated, and a paused run goes on only when a human says so.
RunStepsAreGated == [][Driver!ArtifactsBeforeHandover /\ Driver!PausedNeedsHuman]_driverVars
\* RunDriver, against docs/07: a paused run has an item in the waiting queue.
PausedRunIsWaiting == part = "driver" => Driver!PausedRunIsWaiting
\* RunDriver: a gated submission does not stay pending for ever.
ValidationsEnd == Driver!ValidationsEnd
\* InstructionQueue: while agents keep reporting idle and the log can be
\* written, no request stays queued.
DirectionResolves ==
  (\A p \in Panes : SF_directionVars(part = "direction" /\ Direction!Ready(p))) /\ []~failed
    => \A n \in {1} : Direction!Queued(n) ~> ~Direction!Queued(n)
=============================================================================
