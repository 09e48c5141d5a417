--------------------------- MODULE OrchestrateOps ---------------------------
(***************************************************************************)
(* The decision function that workflows and relays share                   *)
(* (crates/uniterm-core/src/orchestrate.rs: State, step), as operators     *)
(* from a run's state to [st |-> the next state, act |-> the Action].      *)
(* A run's state is the record                                             *)
(*   [roles, cur, iteration, max, token, seq, lastFix, phase]              *)
(* where roles[i] says whether role i is the verifier (the only fact about *)
(* a role that decides anything).  Role indices start at 1.  The role and  *)
(* token of an Inject action are those of the state it comes with.         *)
(***************************************************************************)
EXTENDS Integers, Sequences

Phases  == {"Idle", "Awaiting", "Paused", "Done", "Aborted"}
Actions == {"Inject", "AwaitSubmit", "Complete", "Escalate", "Abort", "Hold"}

\* "no findings yet"; findings are compared for equality only.
NoFix == "no fix"

Verifiers(roles) == {i \in 1 .. Len(roles) : roles[i]}

FirstVerifier(roles) ==
  CHOOSE i \in Verifiers(roles) : \A j \in Verifiers(roles) : i <= j

\* The role before the verifier; the first role when there is no such role.
FixTarget(roles) ==
  IF Verifiers(roles) = {} \/ FirstVerifier(roles) = 1 THEN 1 ELSE FirstVerifier(roles) - 1

ReplanTarget == 1

NewRun(roles, max) ==
  [roles |-> roles, cur |-> 1, iteration |-> 0, max |-> max, token |-> 0, seq |-> 0,
   lastFix |-> NoFix, phase |-> "Idle"]

Result(s, act) == [st |-> s, act |-> act]
Hold(s)        == Result(s, "Hold")
Terminal(s)    == s.phase \in {"Done", "Aborted"}

\* Slip: a reopened turn keeps its old token.
OpenTurnKeepingToken(s) ==
  Result([s EXCEPT !.seq = IF @ = 0 THEN 1 ELSE @, !.token = IF s.seq = 0 THEN 1 ELSE s.seq,
                   !.phase = "Awaiting"], "Inject")

OpenTurn(s) ==
  Result([s EXCEPT !.seq = @ + 1, !.token = s.seq + 1, !.phase = "Awaiting"], "Inject")

AdvanceAfterDone(s) ==
  IF s.cur >= Len(s.roles) THEN Result([s EXCEPT !.phase = "Done"], "Complete")
  ELSE OpenTurn([s EXCEPT !.cur = @ + 1])

Pause(s) == Result([s EXCEPT !.phase = "Paused"], "Escalate")
Abort(s) == Result([s EXCEPT !.phase = "Aborted"], "Abort")

RouteFix(s, findings) ==
  LET counted == [s EXCEPT !.lastFix = findings, !.iteration = @ + 1]
  IN  IF s.lastFix = findings THEN Pause(s)
      ELSE IF counted.iteration > s.max THEN Pause(counted)
      ELSE OpenTurn([counted EXCEPT !.cur = FixTarget(s.roles)])

\* Slip: a replan starts afresh, its iteration included.
RouteReplanUncounted(s) ==
  OpenTurn([s EXCEPT !.lastFix = NoFix, !.iteration = 0, !.cur = ReplanTarget])

RouteReplan(s) ==
  LET counted == [s EXCEPT !.iteration = @ + 1]
  IN  IF counted.iteration > s.max THEN Pause(counted)
      ELSE OpenTurn([counted EXCEPT !.lastFix = NoFix, !.cur = ReplanTarget])

-----------------------------------------------------------------------------
(* step, one operator per event.                                           *)

Start(s) == IF s.phase = "Idle" THEN OpenTurn([s EXCEPT !.cur = 1]) ELSE Hold(s)

Stop(s) == IF Terminal(s) THEN Hold(s) ELSE Abort(s)

\* Event::Stall, and Event::Guardrail, which differ in the reason only.
Stall(s) == IF Terminal(s) \/ s.phase = "Paused" THEN Hold(s) ELSE Pause(s)

Resume(s) == IF s.phase = "Paused" THEN OpenTurn(s) ELSE Hold(s)

\* Slip: an idle verifier is taken to be done.
IdleHoldAnyRole(s, role) ==
  IF s.phase # "Awaiting" \/ role # s.cur THEN Hold(s) ELSE AdvanceAfterDone(s)

IdleHold(s, role) ==
  IF s.phase # "Awaiting" \/ role # s.cur \/ s.roles[s.cur] THEN Hold(s)
  ELSE AdvanceAfterDone(s)

\* A verdict submitted by the verifier of the open turn.
Decide(s, verdict, findings) ==
  CASE verdict = "approved" -> Result([s EXCEPT !.phase = "Done"], "Complete")
    [] verdict = "fix"      -> RouteFix(s, findings)
    [] verdict = "replan"   -> RouteReplan(s)
    [] verdict = "none"     -> Result(s, "AwaitSubmit")

\* sub is [token, role, status, verdict, findings].
Submit(s, sub) ==
  IF \/ s.phase # "Awaiting"
     \/ sub.token # s.token \/ sub.role # s.cur
     \/ sub.verdict # "none" /\ ~s.roles[s.cur]
  THEN Hold(s)
  ELSE CASE sub.status = "failed"      -> Pause(s)
         [] sub.status = "needs_input" -> Result(s, "AwaitSubmit")
         [] sub.status = "done"        ->
              IF s.roles[s.cur] THEN Decide(s, sub.verdict, sub.findings)
              ELSE AdvanceAfterDone(s)
=============================================================================
