----------------------------- MODULE RunRecovery -----------------------------
(***************************************************************************)
(* A crash in the middle of a workflow or relay, and what restart makes of  *)
(* it (crates/uniterm-server/src/server/orchestration.rs: durable,          *)
(* recovered_run_shape_error, restore_orchestrations; eventlog.rs: the      *)
(* replay_ functions).  Each handler appends its events in the order of the *)
(* code; a crash keeps some prefix of the log, so it can fall between any   *)
(* two of them.                                                             *)
(*                                                                         *)
(* The log is kept for one run.  Its Task, its entry in the run graph, its  *)
(* waiting item and the run itself are each replayed from it.  Turn n has   *)
(* activation token n, never used again, as the random tokens are.          *)
(***************************************************************************)
EXTENDS Integers, Sequences

CONSTANTS MaxTurns, MaxEvents   \* bounds on the turns opened and the log

VARIABLES
  log,    \* durable events of the run, in order
  run,    \* the live orchestration: its phase ("none" when there is none) and turn
  graph,  \* its status in the live run graph
  task,   \* status of its Task
  item,   \* it has an item in the waiting queue
  stall,  \* its stall deadline is armed
  issued, \* turns whose token was ever handed out
  refused \* durability_error: the run graph rejected a transition

vars == <<log, run, graph, task, item, stall, issued, refused>>

Closed  == {"Completed", "Failed", "Canceled"}
NoRun   == [phase |-> "none", turn |-> 0]
Restartable == {"Awaiting", "Paused"}

Ev(t, v) == [type |-> t, value |-> v]
Task(s)  == Ev("Task", s)
Graph(s) == Ev("Graph", s)
Project(phase, turn) == Ev("Projected", [phase |-> phase, turn |-> turn])

\* The last value an event of the type has in the log.
Last(events, type, none) ==
  LET at == {i \in DOMAIN events : events[i].type = type}
  IN  IF at = {} THEN none ELSE events[CHOOSE i \in at : \A j \in at : j <= i].value

Init ==
  /\ log = <<>> /\ run = NoRun /\ graph = "none" /\ task = "none"
  /\ item = FALSE /\ stall = FALSE /\ issued = 0 /\ refused = FALSE

-----------------------------------------------------------------------------
(* The handlers, by the events they append.                                *)

\* record_run_graph_change refuses an activation or a second end of a closed run.
GraphEvents(s) == IF graph \in Closed THEN <<>> ELSE <<Graph(s)>>

Emit(events) == log' = log \o events

\* Inject: record_orchestration_activation, then the turn is projected.
OpenTurn(before, turn) ==
  /\ turn <= MaxTurns
  /\ Emit(before \o GraphEvents("Active") \o <<Project("Awaiting", turn)>>)
  /\ graph' = IF graph \in Closed THEN graph ELSE "Active"
  /\ refused' = (refused \/ graph \in Closed)
  /\ run' = [phase |-> "Awaiting", turn |-> turn]
  /\ issued' = turn /\ stall' = TRUE

Launch ==
  /\ log = <<>>
  /\ OpenTurn(<<Task("Doing"), Graph("Created")>>, 1)
  /\ task' = "Doing"
  /\ UNCHANGED item

\* A submission or an idle hold hands the turn over.
HandOver ==
  /\ run.phase = "Awaiting"
  /\ OpenTurn(IF item THEN <<Ev("Item", FALSE)>> ELSE <<>>, issued + 1)
  /\ item' = FALSE
  /\ UNCHANGED task

\* A stall or a guardrail pauses the run.
PauseRun ==
  /\ run.phase = "Awaiting" /\ stall
  /\ Emit(<<Ev("Item", TRUE), Task("Blocked"), Project("Paused", run.turn)>>)
  /\ run' = [run EXCEPT !.phase = "Paused"]
  /\ item' = TRUE /\ task' = "Blocked" /\ stall' = FALSE
  /\ UNCHANGED <<graph, issued, refused>>

ResumePaused ==
  /\ run.phase = "Paused" /\ item
  /\ OpenTurn(<<Ev("Item", FALSE), Task("Doing")>>, issued + 1)
  /\ item' = FALSE /\ task' = "Doing"

\* Slip: the run is projected once more after it finished.
ProjectedAgain(status, outcome) ==
  GraphEvents(outcome) \o <<Ev("Finished", TRUE), Task(status), Project("Awaiting", run.turn)>>
\* The end of a run: its graph entry, the run, then its Task.
EndEvents(status, outcome) == GraphEvents(outcome) \o <<Ev("Finished", TRUE), Task(status)>>

\* finish_workflow and finish_relay; cancel_orchestrations_for_pane.
EndRun(status, outcome) ==
  /\ run.phase \in Restartable
  /\ Emit(EndEvents(status, outcome))
  /\ graph' = IF graph \in Closed THEN graph ELSE outcome
  /\ run' = NoRun /\ task' = status /\ stall' = FALSE
  /\ UNCHANGED <<item, issued, refused>>

\* The item goes when its agent moves on or its Pane closes.
ItemResolved ==
  /\ item
  /\ Emit(<<Ev("Item", FALSE)>>)
  /\ item' = FALSE
  /\ UNCHANGED <<run, graph, task, stall, issued, refused>>

-----------------------------------------------------------------------------
(* Recovery.                                                               *)

\* replay_orchestrations: the last projection, unless the run finished after it.
ReplayRun(events) ==
  LET of == SelectSeq(events, LAMBDA e : e.type \in {"Projected", "Finished"})
  IN  IF of = <<>> \/ of[Len(of)].type = "Finished" THEN NoRun ELSE of[Len(of)].value

AsksHuman(resumed) == ~resumed

Recorded(events) == events

\* A crash keeps a prefix.  The role Panes are back or not; the agent of the
\* current role runs again ("resumed") only if its provider could resume it.
\* resolve_stale_waiting_items removes the item of every earlier invocation.
CrashAndRestore(kept, panes, resumed) ==
  LET events == SubSeq(log, 1, kept)
      back   == ReplayRun(events)
      status == Last(events, "Graph", "none")
      stale  == IF Last(events, "Item", FALSE) THEN <<Ev("Item", FALSE)>> ELSE <<>>
      accept == back.phase \in Restartable /\ panes
      reject == back # NoRun /\ ~accept
      fail   == IF status \in Closed THEN <<>> ELSE <<Graph("Failed")>>
  IN  /\ log' = events \o stale
                \o (IF reject THEN Recorded(fail \o <<Ev("Finished", TRUE), Task("Blocked")>>) ELSE <<>>)
                \o (IF accept /\ AsksHuman(resumed) THEN <<Ev("Item", TRUE)>> ELSE <<>>)
      /\ run' = IF accept THEN back ELSE NoRun
      /\ graph' = IF reject /\ status \notin Closed THEN "Failed" ELSE status
      /\ task' = IF reject THEN "Blocked" ELSE Last(events, "Task", "none")
      /\ item' = (accept /\ AsksHuman(resumed))
      /\ stall' = (accept /\ resumed)
      /\ refused' = FALSE
      /\ UNCHANGED issued

Steps ==
  \/ Launch \/ HandOver \/ PauseRun \/ ResumePaused \/ ItemResolved
  \/ EndRun("Done", "Completed") \/ EndRun("Blocked", "Failed") \/ EndRun("Blocked", "Canceled")
  \/ \E kept \in 0 .. Len(log), panes, resumed \in BOOLEAN : CrashAndRestore(kept, panes, resumed)

\* The log stops at the bound.
Next == Steps /\ Len(log') <= MaxEvents

Spec == Init /\ [][Next]_vars

-----------------------------------------------------------------------------
(* Properties.                                                             *)

\* Types; and the live Task, graph entry and item are what the log replays to.
TypeOK ==
  /\ run \in [phase : {"none"} \cup Restartable, turn : 0 .. MaxTurns]
  /\ graph = Last(log, "Graph", "none") /\ task = Last(log, "Task", "none")
  /\ item = Last(log, "Item", FALSE)

EndIsFinal ==
  (\E i \in DOMAIN log : log[i].type = "Finished" /\ i <= Len(log') /\ log'[i] = log[i])
    => run' = NoRun

\* A run whose end is durable is not revived by any later restart.
FinishedStaysFinished == [][EndIsFinal]_vars

RestoreIsWatched ==
  (\E kept \in 0 .. Len(log), panes, resumed \in BOOLEAN : CrashAndRestore(kept, panes, resumed))
    => run' = NoRun \/ stall' \/ item'

\* A run that is restored either runs again under a stall deadline or asks a
\* human: no restart leaves it with neither.
RestoredRunIsWatched == [][RestoreIsWatched]_vars
=============================================================================
