------------------------------ MODULE RunDriver ------------------------------
(***************************************************************************)
(* The server side of one workflow or relay                                *)
(* (crates/uniterm-server/src/server/orchestration.rs, with the waiting    *)
(* actions of server/waiting.rs and the replies handled in                 *)
(* server/agents.rs): prompts delivered and retried, submissions gated by  *)
(* artifact validation, the stall, idle and elapsed deadlines, relay       *)
(* checkpoints, and the items through which a human answers.               *)
(*                                                                         *)
(* Role i runs in Pane i.  Activation tokens are random in the code and    *)
(* never repeat; here the n-th turn has token n, the brain's own counter.  *)
(* A waiting item needs no id: what an id is used for, telling an item     *)
(* from a later one of the same Pane, is the item's field "asked".         *)
(***************************************************************************)
EXTENDS OrchestrateOps, FiniteSets

CONSTANTS
  Templates,      \* what may be launched: [kind, roles, expecting]
  MaxIterations,
  MaxTurns,       \* bound on the turns opened
  MaxInFlight     \* bound on the prompts and requests under way at once

VARIABLES
  template,     \* what is launched
  run,          \* ActiveWorkflow or ActiveRelay
  panes,        \* roles whose Pane is open
  agent,        \* status of the agent bound to each role's Pane
  waiting,      \* the Pane's item in the waiting queue
  submissions,  \* pending_orchestration_submissions
  validating,   \* tokens of the ArtifactValidate requests in flight
  deliveries,   \* pending_prompt_deliveries
  activation,   \* pending_relay_activations: tokens awaiting their checkpoint
  rolling,      \* a RelayCheckpointRollback request is in flight
  task,         \* status of the run's task
  graph,        \* status of the run in the run graph
  known,        \* token of the last turn whose prompt an agent was given
  proven        \* history: token of the last turn whose artifacts were validated

vars == <<template, run, panes, agent, waiting, submissions, validating, deliveries, activation,
          rolling, task, graph, known, proven>>

Kind      == template.kind        \* "Workflow" or "Relay"
Roles     == template.roles       \* for each role, is it the verifier?
Expecting == template.expecting   \* roles whose template expects artifacts

RoleIds  == 1 .. Len(Roles)
NoItem   == [kind |-> "none", asked |-> FALSE]
Item(k)  == [kind |-> k, asked |-> FALSE]
Statuses == {"none", "Working", "Idle", "Permission"}
\* MAX_ATTEMPTS of a prompt delivery, the first included.
Attempts == 3

Init ==
  /\ template \in Templates
  /\ run = [st |-> NewRun(Roles, MaxIterations), live |-> FALSE,
            started |-> [r \in RoleIds |-> FALSE], stall |-> FALSE, idle |-> FALSE,
            elapsed |-> FALSE, triggered |-> FALSE, checkpoint |-> FALSE]
  /\ panes = {}
  /\ agent = [r \in RoleIds |-> "none"]
  /\ waiting = [r \in RoleIds |-> NoItem]
  /\ submissions = {} /\ validating = {} /\ deliveries = {} /\ activation = {} /\ rolling = FALSE
  /\ task = "none" /\ graph = "none"
  /\ known = 0 /\ proven = 0

Cur(R)     == R.st.cur
Current(r) == run.live /\ run.st.cur = r
Request(w, r, kind) == [w EXCEPT ![r] = Item(kind)]
ResolveKind(w, r)   == IF w[r].kind = "Run" THEN [w EXCEPT ![r] = NoItem] ELSE w

-----------------------------------------------------------------------------
(* apply_workflow_action and apply_relay_action.                           *)

\* The prompt of the open turn goes into its Pane, or is queued for a retry.
Inject(R, ok) ==
  LET r == Cur(R)
      n == R.st.token
  IN  /\ run' = IF ok THEN [R EXCEPT !.stall = TRUE, !.started[r] = TRUE] ELSE R
      /\ agent' = IF ok /\ ~R.started[r] THEN [agent EXCEPT ![r] = "Working"] ELSE agent
      /\ known' = IF ok THEN n ELSE known
      /\ deliveries' = IF ok THEN deliveries
                       ELSE {d \in deliveries : d.token # n}
                            \cup {[token |-> n, role |-> r, attempts |-> 1,
                                   first |-> ~R.started[r]]}

\* The run is removed, its deadlines with it; its brain is kept as history.
Ended(R) ==
  [R EXCEPT !.live = FALSE, !.stall = FALSE, !.idle = FALSE, !.elapsed = FALSE,
            !.triggered = FALSE, !.checkpoint = FALSE, !.started = [r \in RoleIds |-> FALSE]]

\* finish_workflow and finish_relay.
Finish(R, status, outcome) ==
  /\ run' = Ended(R)
  /\ submissions' = {}
  /\ task' = status
  /\ graph' = outcome

\* w and subs are the waiting items and submissions the handler has left.
Apply(R, act, w, subs, ok) ==
  \/ /\ act = "Inject"
     /\ Inject(R, ok)
     /\ waiting' = w /\ submissions' = subs
     /\ UNCHANGED <<task, graph>>
  \/ /\ act = "Complete"
     /\ Finish(R, "Done", "Completed")
     /\ waiting' = w
     /\ UNCHANGED <<agent, known, deliveries>>
  \/ /\ act = "Escalate"
     /\ run' = R
     /\ waiting' = Request(w, Cur(R), "Run") /\ submissions' = subs
     /\ task' = "Blocked"
     /\ UNCHANGED <<agent, known, deliveries, graph>>
  \/ /\ act \in {"AwaitSubmit", "Hold"}
     /\ run' = R
     /\ waiting' = w /\ submissions' = subs
     /\ UNCHANGED <<agent, known, deliveries, task, graph>>

\* launch_workflow_with_parent, once every role's Pane is spawned.
LaunchWorkflow(ok) ==
  /\ Kind = "Workflow" /\ task = "none"
  /\ Inject([run EXCEPT !.st = Start(@).st, !.live = TRUE, !.elapsed = TRUE], ok)
  /\ panes' = RoleIds /\ task' = "Doing" /\ graph' = "Active"
  /\ UNCHANGED <<waiting, submissions, validating, activation, rolling, proven>>

\* launch_relay_with_parent: the builder's turn waits for its checkpoint.
LaunchRelay ==
  /\ Kind = "Relay" /\ task = "none"
  /\ run' = [run EXCEPT !.st = Start(@).st, !.live = TRUE, !.elapsed = TRUE]
  /\ activation' = {run'.st.token}
  /\ panes' = RoleIds /\ task' = "Doing" /\ graph' = "Active"
  /\ UNCHANGED <<agent, known, deliveries, waiting, submissions, validating, rolling, proven>>

-----------------------------------------------------------------------------
(* Submissions.                                                            *)

HasPending(token) == \E p \in submissions : p.token = token

Cleared(R)  == [R EXCEPT !.stall = FALSE, !.idle = FALSE]
Open(token) == run.live /\ run.st.token = token /\ run.st.phase = "Awaiting"

\* on_workflow_submit and on_relay_submit after the artifact gate.
Accept(token, status, verdict, subs, ok) ==
  LET r == Submit(run.st, [token |-> token, role |-> Cur(run), status |-> status,
                           verdict |-> verdict, findings |-> "f"])
      R == Cleared(run)
  IN  \/ /\ status = "needs_input"
         /\ run' = R
         /\ waiting' = Request(waiting, Cur(R), "Run") /\ submissions' = subs
         /\ UNCHANGED <<agent, known, deliveries, task, graph>>
      \/ /\ status # "needs_input"
         /\ Apply([R EXCEPT !.st = r.st], r.act, ResolveKind(waiting, Cur(R)), subs, ok)

\* An agent submits with the token it was given.  Any other token, an earlier
\* one included, matches no open turn and the submission is dropped.
AgentSubmits(token, status, verdict, artifacts, ok) ==
  LET gated == status = "done" /\ (artifacts \/ Cur(run) \in Expecting)
  IN  /\ token = known
      /\ Kind = "Relay" => verdict = "none"
      /\ Open(token)
      /\ \/ /\ ~gated
            /\ Accept(token, status, verdict, submissions, ok)
            /\ UNCHANGED validating
         \/ /\ gated
            /\ run' = Cleared(run)
            /\ IF HasPending(token)
               THEN UNCHANGED <<submissions, validating>>
               ELSE /\ submissions' = submissions \cup
                         {[token |-> token, role |-> Cur(run), verdict |-> verdict]}
                    /\ validating' = validating \cup {token}
            /\ UNCHANGED <<agent, known, deliveries, waiting, task, graph>>
      /\ UNCHANGED <<panes, activation, rolling, proven>>

\* AgentToCore::ArtifactValidated, and report_artifact_gate_failure.
ArtifactValidated(token, valid, ok) ==
  LET mine == {p \in submissions : p.token = token}
      rest == submissions \ mine
  IN  /\ token \in validating
      /\ validating' = validating \ {token}
      /\ \/ /\ mine = {}
            /\ UNCHANGED <<run, agent, known, deliveries, waiting, submissions, task, graph, proven>>
         \/ /\ mine # {} /\ ~valid
            /\ submissions' = rest
            /\ waiting' = IF run.live /\ run.st.token = token
                          THEN Request(waiting, Cur(run), "Run") ELSE waiting
            /\ UNCHANGED <<run, agent, known, deliveries, task, graph, proven>>
         \/ /\ mine # {} /\ valid /\ ~Open(token)
            /\ submissions' = rest
            /\ UNCHANGED <<run, agent, known, deliveries, waiting, task, graph, proven>>
         \/ /\ valid /\ Open(token)
            /\ \E p \in mine : Accept(token, "done", p.verdict, rest, ok)
            /\ proven' = token
      /\ UNCHANGED <<panes, activation, rolling>>

\* Slip: the human is asked and the submission stays pending.
NotExpired(p) == submissions
Expire(p) == submissions \ {p}

\* flush_artifact_validations_due.
ValidationTimeout(p) ==
  /\ p \in submissions
  /\ submissions' = Expire(p)
  /\ waiting' = IF Current(p.role) /\ run.st.token = p.token
                THEN Request(waiting, p.role, "Run") ELSE waiting
  /\ UNCHANGED <<run, panes, agent, validating, deliveries, activation, rolling, task, graph, known,
                 proven>>

-----------------------------------------------------------------------------
(* Deliveries and deadlines.                                               *)

RetriesLeft(d)     == d.attempts + 1 < Attempts

\* flush_prompt_deliveries_due, for one delivery.
RetryPrompt(d, ok) ==
  LET active == Current(d.role) /\ run.st.token = d.token
      rest   == deliveries \ {d}
  IN  /\ d \in deliveries
      /\ \/ /\ ~active
            /\ deliveries' = rest
            /\ UNCHANGED <<run, agent, known, waiting>>
         \/ /\ active /\ ok
            /\ run' = [run EXCEPT !.stall = TRUE, !.started[d.role] = @ \/ d.first]
            /\ agent' = IF d.first THEN [agent EXCEPT ![d.role] = "Working"] ELSE agent
            /\ known' = d.token
            /\ waiting' = ResolveKind(waiting, d.role)
            /\ deliveries' = rest
         \/ /\ active /\ ~ok /\ RetriesLeft(d)
            /\ deliveries' = rest \cup {[d EXCEPT !.attempts = @ + 1]}
            /\ UNCHANGED <<run, agent, known, waiting>>
         \/ /\ active /\ ~ok /\ ~RetriesLeft(d)
            /\ deliveries' = rest
            /\ waiting' = Request(waiting, d.role, "Run")
            /\ UNCHANGED <<run, agent, known>>
      /\ UNCHANGED <<panes, submissions, validating, activation, rolling, task, graph, proven>>

\* flush_orchestration_stalls.
StallDue ==
  LET r == Stall(run.st)
  IN  /\ run.live /\ run.stall
      /\ Apply([run EXCEPT !.stall = FALSE, !.st = r.st], r.act, waiting, submissions, FALSE)
      /\ UNCHANGED <<panes, validating, activation, rolling, proven>>

\* flush_orchestration_elapsed_due.
ElapsedDue ==
  LET r == Stall(run.st)
  IN  /\ run.live /\ run.elapsed /\ run.st.phase = "Awaiting"
      /\ Apply([Cleared(run) EXCEPT !.elapsed = FALSE, !.triggered = TRUE, !.st = r.st],
               r.act, waiting, submissions, FALSE)
      /\ UNCHANGED <<panes, validating, activation, rolling, proven>>

Blocked(R) == waiting[Cur(R)] # NoItem \/ HasPending(R.st.token)

\* flush_orchestration_idle_due.
IdleDue(ok) ==
  LET r == IdleHold(run.st, Cur(run))
  IN  /\ run.live /\ run.idle
      /\ \/ /\ Blocked(run)
            /\ run' = [run EXCEPT !.idle = FALSE]
            /\ UNCHANGED <<agent, known, deliveries, waiting, submissions, task, graph>>
         \/ /\ ~Blocked(run)
            /\ Apply([Cleared(run) EXCEPT !.st = r.st], r.act, waiting, submissions, ok)
      /\ UNCHANGED <<panes, validating, activation, rolling, proven>>

-----------------------------------------------------------------------------
(* Agents.                                                                 *)

\* observe_agent.
ObserveAgent(w, r, status) ==
  IF status # "Permission" THEN [w EXCEPT ![r] = NoItem]
  ELSE IF w[r].kind = "Permission" THEN w
  ELSE Request(w, r, "Permission")

\* Slip: an idle role that owes artifacts may be taken to be done.
IdleAllowedDespiteArtifacts(item, r) ==
  item = NoItem /\ ~HasPending(run.st.token) /\ ~Roles[r]

\* orchestration_idle_allowed.
IdleAllowed(item, r) ==
  item = NoItem /\ ~HasPending(run.st.token) /\ ~Roles[r] /\ r \notin Expecting

\* notify_agent_transition: sync_waiting_agent, then reconcile_orchestration_idle.
AgentTransition(r, status) ==
  /\ r \in panes /\ agent[r] # "none" /\ status # agent[r]
  /\ agent' = [agent EXCEPT ![r] = status]
  /\ waiting' = ObserveAgent(waiting, r, status)
  /\ run' = IF Current(r) /\ run.st.phase = "Awaiting"
            THEN [run EXCEPT !.idle = (status = "Idle" /\ IdleAllowed(waiting'[r], r))] ELSE run
  /\ UNCHANGED <<panes, submissions, validating, deliveries, activation, rolling, task, graph,
                 known, proven>>

\* on_process_exit: the agent is unbound and the Pane's item is resolved.
AgentExits(r) ==
  /\ r \in panes /\ agent[r] # "none"
  /\ agent' = [agent EXCEPT ![r] = "none"]
  /\ waiting' = [waiting EXCEPT ![r] = NoItem]
  /\ UNCHANGED <<run, panes, submissions, validating, deliveries, activation, rolling, task, graph,
                 known, proven>>

\* apply_agent_detection finds an agent in a Pane that has none.
AgentDetected(r) ==
  /\ r \in panes /\ agent[r] = "none"
  /\ agent' = [agent EXCEPT ![r] = "Working"]
  /\ waiting' = [waiting EXCEPT ![r] = NoItem]
  /\ UNCHANGED <<run, panes, submissions, validating, deliveries, activation, rolling, task, graph,
                 known, proven>>

\* AgentToCore::RelayCheckpointCreated, with or without a checkpoint.
CheckpointCreated(token, made, ok) ==
  /\ token \in activation
  /\ activation' = activation \ {token}
  /\ IF run.live /\ run.st.token = token
     THEN Inject([run EXCEPT !.checkpoint = @ \/ made], ok)
     ELSE UNCHANGED <<run, agent, known, deliveries>>
  /\ UNCHANGED <<panes, waiting, submissions, validating, rolling, task, graph, proven>>

-----------------------------------------------------------------------------
(* The human: waiting_action, and Panes closed.                            *)

\* resume_waiting_orchestration, once the item is resolved.
ResumeRun(ok) ==
  LET R == IF run.st.phase = "Paused"
           THEN [run EXCEPT !.st = Resume(run.st).st, !.elapsed = ~run.triggered]
           ELSE run
  IN  Inject(R, ok) /\ task' = "Doing"

Answer(r, ok) ==
  LET item == waiting[r]
      gone == [waiting EXCEPT ![r] = NoItem]
      mine == Current(r) /\ run.st.phase = "Awaiting"
  IN  /\ item # NoItem
      /\ \/ /\ item.kind = "Permission" /\ agent[r] # "Permission"
            /\ waiting' = gone /\ UNCHANGED run
         \/ /\ item.kind = "Permission" => agent[r] = "Permission"
            /\ item.kind = "Run" => mine
            /\ ok
            /\ waiting' = gone
            /\ run' = IF mine THEN [run EXCEPT !.stall = TRUE] ELSE run
      /\ UNCHANGED <<panes, agent, submissions, validating, deliveries, activation, rolling, task,
                     graph, known, proven>>

Dismiss(r) ==
  /\ waiting[r].kind = "Permission"
  /\ waiting' = [waiting EXCEPT ![r] = NoItem]
  /\ UNCHANGED <<run, panes, agent, submissions, validating, deliveries, activation, rolling, task,
                 graph, known, proven>>

ResumeItem(r, ok) ==
  /\ waiting[r] # NoItem /\ Current(r)
  /\ waiting' = [waiting EXCEPT ![r] = NoItem]
  /\ ResumeRun(ok)
  /\ UNCHANGED <<panes, submissions, validating, activation, rolling, graph, proven>>

RollbackItem(r) ==
  /\ waiting[r].kind = "Run" /\ Kind = "Relay" /\ Current(r) /\ run.checkpoint
  /\ ~rolling
  /\ rolling' = TRUE
  /\ waiting' = [waiting EXCEPT ![r].asked = TRUE]
  /\ UNCHANGED <<run, panes, agent, submissions, validating, deliveries, activation, task, graph,
                 known, proven>>

\* AgentToCore::RelayCheckpointRolledBack.
RolledBack(done, ok) ==
  LET asked == {r \in RoleIds : waiting[r].asked}
  IN  /\ rolling
      /\ rolling' = FALSE
      /\ \/ /\ asked = {}
            /\ UNCHANGED <<run, waiting, agent, known, deliveries, task>>
         \/ \E r \in asked :
              \/ /\ ~done
                 /\ waiting' = Request(waiting, r, "Run")
                 /\ UNCHANGED <<run, agent, known, deliveries, task>>
              \/ /\ done
                 /\ waiting' = [waiting EXCEPT ![r] = NoItem]
                 /\ IF Current(r) THEN ResumeRun(ok)
                    ELSE UNCHANGED <<run, agent, known, deliveries, task>>
      /\ UNCHANGED <<panes, submissions, validating, activation, graph, proven>>

CanceledBy(closed) == run.live /\ closed \cap RoleIds # {}

\* Slip: pending submissions of the canceled run are kept.
KeptSubmissions == submissions
CanceledSubmissions == {}

\* close_pane and cancel_orchestrations_for_pane: any role's Pane ends the run.
ClosePanes(closed) ==
  /\ closed # {} /\ closed \subseteq panes
  /\ panes' = panes \ closed
  /\ agent' = [r \in RoleIds |-> IF r \in closed THEN "none" ELSE agent[r]]
  /\ waiting' = [r \in RoleIds |-> IF r \in closed THEN NoItem ELSE waiting[r]]
  /\ deliveries' = {d \in deliveries : d.role \notin closed}
  /\ IF CanceledBy(closed)
     THEN /\ run' = Ended(run)
          /\ submissions' = CanceledSubmissions
          /\ task' = "Blocked" /\ graph' = "Canceled"
          /\ activation' = IF Kind = "Relay" THEN {} ELSE activation
     ELSE UNCHANGED <<run, submissions, task, graph, activation>>
  /\ UNCHANGED <<validating, rolling, known, proven>>

StopItem(r) ==
  /\ waiting[r] # NoItem
  /\ ClosePanes(IF run.live THEN panes ELSE {r})

\* Submissions that can differ in effect: artifacts count when the role is done,
\* and which verdict it is counts when the verifier is.
Distinct(status, verdict, artifacts) ==
  /\ artifacts => status = "done"
  /\ verdict \in {"fix", "replan"} => status = "done" /\ Roles[Cur(run)]

\* The steps of the server, its agents, its timers and its human.
Steps ==
  \/ \E ok \in BOOLEAN :
       \/ LaunchWorkflow(ok)
       \/ IdleDue(ok)
       \/ \E d \in deliveries : RetryPrompt(d, ok)
       \/ \E token \in activation, made \in BOOLEAN : CheckpointCreated(token, made, ok)
       \/ \E r \in RoleIds : Answer(r, ok) \/ ResumeItem(r, ok)
       \/ \E done \in BOOLEAN : RolledBack(done, ok)
       \/ \E token \in validating, valid \in BOOLEAN : ArtifactValidated(token, valid, ok)
       \/ \E status \in {"done", "needs_input", "failed"},
             verdict \in {"none", "approved", "fix", "replan"}, artifacts \in BOOLEAN :
            /\ Distinct(status, verdict, artifacts)
            /\ AgentSubmits(known, status, verdict, artifacts, ok)
  \/ \E p \in submissions : ValidationTimeout(p)
  \/ LaunchRelay \/ StallDue \/ ElapsedDue
  \/ \E r \in RoleIds :
       \/ \E status \in Statuses \ {"none"} : AgentTransition(r, status)
       \/ AgentExits(r) \/ AgentDetected(r)
       \/ Dismiss(r) \/ RollbackItem(r) \/ StopItem(r)
       \/ ClosePanes({r})

InFlight ==
  Cardinality(deliveries) + Cardinality(validating) + Cardinality(activation)
    + (IF rolling THEN 1 ELSE 0)

\* Turns, and what is under way, stop at their bounds.
Next ==
  /\ Steps
  /\ run'.st.seq <= MaxTurns /\ InFlight' <= MaxInFlight
  /\ UNCHANGED template

Spec == Init /\ [][Next]_vars

\* next_orchestration_deadline wakes the core loop at each due time.
ValidationsDue == (\E p \in submissions : ValidationTimeout(p)) /\ UNCHANGED template
StallsDue      == StallDue /\ UNCHANGED template
LimitsDue      == ElapsedDue /\ UNCHANGED template
Timers         == WF_vars(ValidationsDue) /\ WF_vars(StallsDue) /\ WF_vars(LimitsDue)

FairSpec == Spec /\ Timers

-----------------------------------------------------------------------------
(* Properties.                                                             *)

TypeOK ==
  /\ run.st.phase \in Phases /\ run.st.cur \in RoleIds
  /\ panes \subseteq RoleIds
  /\ agent \in [RoleIds -> Statuses]
  /\ waiting \in [RoleIds -> [kind : {"none", "Run", "Permission"}, asked : BOOLEAN]]
  /\ submissions \subseteq [token : Nat, role : RoleIds,
                            verdict : {"none", "approved", "fix", "replan"}]
  /\ \A d \in deliveries : d.role \in RoleIds /\ d.attempts \in 1 .. Attempts - 1
  /\ task \in {"none", "Doing", "Blocked", "Done"}
  /\ graph \in {"none", "Active", "Completed", "Canceled"}

\* Every Pane of a live run is open: the branch of apply_workflow_action in
\* which "the run dies quietly" because its role's Pane is gone is never taken.
LiveRunHasItsPanes == run.live => panes = RoleIds

\* A role whose template expects artifacts hands its turn over only when they
\* were validated for that very turn, whatever an idle agent, a timeout, a late
\* validation or a human answer does meanwhile.
ArtifactsBeforeHandover ==
  (/\ run.live /\ run.st.cur \in Expecting /\ run.st.phase = "Awaiting"
   /\ run'.st.cur # run.st.cur \/ run'.st.phase = "Done")
  => proven' = run.st.token

\* A finished run and its records agree, and nothing revives it: no pending
\* validation outlives it, its graph entry is terminal and its task closed.
EndedRunIsSettled ==
  (task # "none" /\ ~run.live) =>
    /\ submissions = {}
    /\ graph = "Completed" <=> task = "Done"
    /\ graph \in {"Completed", "Canceled"} /\ task \in {"Done", "Blocked"}

\* Action::Escalate pauses "while retaining restartable run state", and a
\* guardrail "requires human direction before the current role can continue":
\* a paused run reopens only in a step that consumes the item a human acted on,
\* never through a late validation, delivery, checkpoint or rollback answer.
PausedNeedsHuman ==
  (run.live /\ run.st.phase = "Paused" /\ run'.st.phase # "Paused")
  => (waiting[Cur(run)] # NoItem /\ waiting'[Cur(run)] = NoItem)

\* ARTIFACT_VALIDATION_TIMEOUT: a gated submission does not stay pending for
\* ever, whether or not the runtime answers.
ValidationsEnd ==
  \A n \in 1 .. MaxTurns :
    HasPending(n) ~> ~HasPending(n)

\* docs/07: "Every non-happy path ends in the same place: an item in the
\* waiting queue".  A paused run has one on the Pane of its current role.
PausedRunIsWaiting ==
  (run.live /\ run.st.phase = "Paused") => waiting[Cur(run)] # NoItem
=============================================================================
