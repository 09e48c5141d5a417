---------------------------- MODULE Orchestrate ----------------------------
(***************************************************************************)
(* One orchestration run driven by arbitrary events                        *)
(* (crates/uniterm-core/src/orchestrate.rs: step and its events), for any  *)
(* list of roles.  The history variables record which tokens' turns were   *)
(* handed over, how often a verdict reopened an earlier turn, and whether  *)
(* the verifier approved.                                                  *)
(***************************************************************************)
EXTENDS OrchestrateOps, NaturalFacts, FiniteSetTheorems, TLAPS

CONSTANTS
  Roles,          \* for each role, is it the verifier?
  MaxIterations,  \* max_iterations of the run
  Findings,       \* findings a fix verdict may carry
  MaxTurns        \* bound on the number of turns opened

ASSUME RolesAssumption == Roles \in Seq(BOOLEAN) /\ Len(Roles) > 0
ASSUME BoundsAssumption == MaxIterations \in Nat /\ MaxTurns \in Nat
ASSUME FindingsAssumption == NoFix \notin Findings

VARIABLES
  st,         \* State
  closed,     \* history: tokens of the turns that were handed over
  sendbacks,  \* history: turns a fix or replan verdict opened
  approved    \* history: the verifier approved

vars == <<st, closed, sendbacks, approved>>

Init ==
  /\ st = NewRun(Roles, MaxIterations)
  /\ closed = {}
  /\ sendbacks = 0
  /\ approved = FALSE

\* The turn that was open is over: its successor is open or the run is done.
HandsOver(r) == r.act \in {"Inject", "Complete"}

Starts  == st' = Start(st).st  /\ UNCHANGED <<closed, sendbacks, approved>>
Stops   == st' = Stop(st).st   /\ UNCHANGED <<closed, sendbacks, approved>>
Stalls  == st' = Stall(st).st  /\ UNCHANGED <<closed, sendbacks, approved>>
Resumes == st' = Resume(st).st /\ UNCHANGED <<closed, sendbacks, approved>>

Idles(role) ==
  LET r == IdleHold(st, role)
  IN  /\ st' = r.st
      /\ closed' = IF HandsOver(r) THEN closed \cup {st.token} ELSE closed
      /\ UNCHANGED <<sendbacks, approved>>

Submits(sub) ==
  LET r == Submit(st, sub)
  IN  /\ st' = r.st
      /\ closed' = IF HandsOver(r) THEN closed \cup {st.token} ELSE closed
      /\ sendbacks' = IF HandsOver(r) /\ sub.verdict \in {"fix", "replan"} THEN sendbacks + 1
                      ELSE sendbacks
      /\ approved' = (approved \/ (HandsOver(r) /\ sub.verdict = "approved"))

Submissions ==
  [token : Nat, role : Nat, status : {"done", "needs_input", "failed"},
   verdict : {"none", "approved", "fix", "replan"}, findings : Findings]

Next ==
  \/ Starts \/ Stops \/ Stalls \/ Resumes
  \/ \E role \in 1 .. Len(Roles) : Idles(role)
  \/ \E sub \in Submissions : Submits(sub)

Spec == Init /\ [][Next]_vars

-----------------------------------------------------------------------------
(* Properties.                                                             *)

TypeOK ==
  /\ st \in [roles : {Roles}, cur : 1 .. Len(Roles), iteration : Nat, max : {MaxIterations},
             token : Nat, seq : Nat, lastFix : Findings \cup {NoFix}, phase : Phases]
  /\ closed \subseteq Nat
  /\ sendbacks \in Nat
  /\ approved \in BOOLEAN

\* Role.verifier: "only it may produce a verdict", and Event::Idle is "never
\* for the verifier".  When some role is a verifier, no sequence of
\* submissions, idle holds, stalls and resumes completes the run unless the
\* verifier has approved it.
CompletionNeedsApproval ==
  (st.phase = "Done" /\ Verifiers(Roles) # {}) => approved

\* docs/07: the iteration cap "makes infinite fix loops impossible".  Verdicts
\* reopen an earlier turn at most MaxIterations times in the life of a run,
\* whatever humans resume in between.
SendBackBound == sendbacks <= MaxIterations

\* A turn is handed over once: while a turn is open its token has not been
\* used for a handover before, so a repeated or late submission of any earlier
\* turn cannot advance the run again.
OpenTurnIsFresh == st.phase \in {"Awaiting", "Paused"} => st.token \notin closed

-----------------------------------------------------------------------------
(* Proofs, for every list of roles, every iteration limit and every set of *)
(* findings.                                                               *)

\* A run's current role never passes the first verifier; verdicts are counted
\* before they open a turn; and handed-over tokens are older than the open one.
IInv ==
  /\ TypeOK
  /\ Verifiers(Roles) # {} => st.cur <= FirstVerifier(Roles)
  /\ CompletionNeedsApproval
  /\ sendbacks <= st.iteration /\ sendbacks <= MaxIterations
  /\ st.token = st.seq
  /\ \A c \in closed : c <= st.seq
  /\ st.phase \in {"Idle", "Awaiting", "Paused"} => st.token \notin closed

\* FirstVerifier, which State::new computes with position(), is the least index
\* of a verifier whenever there is a verifier.
LEMMA FirstVerifierIsLeast ==
  ASSUME Verifiers(Roles) # {}
  PROVE  /\ FirstVerifier(Roles) \in Verifiers(Roles)
         /\ \A j \in Verifiers(Roles) : FirstVerifier(Roles) <= j
<1>1. Verifiers(Roles) \in SUBSET Nat
  BY DEF Verifiers
<1>2. \E x \in Verifiers(Roles) : \A y \in Verifiers(Roles) : x <= y
  BY <1>1, LeastNatural
<1> QED BY <1>2 DEF FirstVerifier

\* A fix verdict goes to a role that is not behind any verifier.
LEMMA FixTargetInRange ==
  /\ FixTarget(Roles) \in 1 .. Len(Roles)
  /\ Verifiers(Roles) # {} => FixTarget(Roles) <= FirstVerifier(Roles)
<1>1. CASE Verifiers(Roles) = {}
  BY <1>1, RolesAssumption DEF FixTarget
<1>2. CASE Verifiers(Roles) # {}
  <2>1. FirstVerifier(Roles) \in 1 .. Len(Roles)
    BY <1>2, FirstVerifierIsLeast DEF Verifiers
  <2> QED BY <2>1, <1>2, RolesAssumption DEF FixTarget
<1> QED BY <1>1, <1>2

\* The states of a run are records of the expected shape.
States ==
  [roles : {Roles}, cur : 1 .. Len(Roles), iteration : Nat, max : {MaxIterations},
   token : Nat, seq : Nat, lastFix : Findings \cup {NoFix}, phase : Phases]

\* The role is not behind the first verifier.
Ahead(s) == Verifiers(Roles) # {} => s.cur <= FirstVerifier(Roles)

\* open_turn mints the next token and leaves the rest of the state alone.
LEMMA OpenTurnFacts ==
  ASSUME NEW s \in States
  PROVE  /\ OpenTurn(s).st \in States
         /\ OpenTurn(s).st.cur = s.cur
         /\ OpenTurn(s).st.iteration = s.iteration
         /\ OpenTurn(s).st.token = s.seq + 1
         /\ OpenTurn(s).st.seq = s.seq + 1
         /\ OpenTurn(s).st.phase = "Awaiting"
         /\ OpenTurn(s).act = "Inject"
<1> DEFINE t == [s EXCEPT !.seq = s.seq + 1, !.token = s.seq + 1, !.phase = "Awaiting"]
<1>1. s.seq + 1 \in Nat /\ "Awaiting" \in Phases
  BY DEF States, Phases
<1>2. /\ t \in States /\ t.cur = s.cur /\ t.iteration = s.iteration
      /\ t.token = s.seq + 1 /\ t.seq = s.seq + 1 /\ t.phase = "Awaiting"
  BY <1>1 DEF States
<1>3. OpenTurn(s).st = t /\ OpenTurn(s).act = "Inject"
  BY DEF OpenTurn, Result
<1> QED BY <1>2, <1>3

\* advance_after_done on a non-verifier role that is not behind the first
\* verifier: it completes the run only when there is no verifier at all.
LEMMA AdvanceFacts ==
  ASSUME NEW s \in States, Ahead(s), ~s.roles[s.cur], s.token = s.seq
  PROVE  LET r == AdvanceAfterDone(s)
         IN  /\ r.st \in States /\ Ahead(r.st)
             /\ r.st.iteration = s.iteration
             /\ r.st.token = r.st.seq
             /\ r.act \in {"Inject", "Complete"}
             /\ r.act = "Inject" => r.st.phase = "Awaiting" /\ r.st.seq = s.seq + 1
             /\ r.act = "Complete" => /\ r.st.phase = "Done" /\ r.st.seq = s.seq
                                       /\ Verifiers(Roles) = {}
<1>1. s.roles = Roles /\ s.cur \in 1 .. Len(Roles)
  BY DEF States
<1>2. Verifiers(Roles) # {} => s.cur < FirstVerifier(Roles) /\ FirstVerifier(Roles) \in 1 .. Len(Roles)
  BY <1>1, FirstVerifierIsLeast DEF Ahead, Verifiers
<1>3. CASE s.cur >= Len(s.roles)
  <2>1. Verifiers(Roles) = {}
    BY <1>1, <1>2, <1>3, RolesAssumption
  <2> QED BY <2>1, <1>1, <1>3 DEF AdvanceAfterDone, Result, States, Phases, Ahead
<1>4. CASE ~(s.cur >= Len(s.roles))
  <2> DEFINE t == [s EXCEPT !.cur = @ + 1]
  <2>1. t \in States /\ t.cur = s.cur + 1 /\ t.seq = s.seq /\ t.iteration = s.iteration
    BY <1>1, <1>4, RolesAssumption DEF States
  <2>2. Ahead(t)
    BY <2>1, <1>1, <1>2, RolesAssumption DEF Ahead
  <2>3. AdvanceAfterDone(s) = OpenTurn(t)
    BY <1>4 DEF AdvanceAfterDone
  <2> HIDE DEF t
  <2> QED BY <2>1, <2>2, <2>3, OpenTurnFacts DEF Ahead
<1> QED BY <1>3, <1>4

\* What a step of the run may make of an open turn: r follows from s.
Follows(s, r) ==
  /\ r.st \in States /\ Ahead(r.st) /\ r.st.token = r.st.seq
  /\ r.st.iteration >= s.iteration
  /\ r.act = "Inject" => r.st.phase = "Awaiting" /\ r.st.seq = s.seq + 1
  /\ r.act = "Complete" => r.st.phase = "Done" /\ r.st.seq = s.seq
  /\ r.act \notin {"Inject", "Complete"} =>
       r.st.seq = s.seq /\ (r.st.phase = s.phase \/ r.st.phase \in {"Paused", "Aborted"})

\* pause (and abort) keep the turn and its token and change only the phase.
LEMMA PauseFacts ==
  ASSUME NEW s \in States, Ahead(s), s.token = s.seq
  PROVE  Follows(s, Pause(s)) /\ Pause(s).act = "Escalate" /\ Pause(s).st.phase = "Paused"
<1> DEFINE t == [s EXCEPT !.phase = "Paused"]
<1>1. "Paused" \in Phases
  BY DEF Phases
<1>2. /\ t \in States /\ t.cur = s.cur /\ t.iteration = s.iteration
      /\ t.token = s.token /\ t.seq = s.seq /\ t.phase = "Paused" /\ s.iteration \in Nat
  BY <1>1 DEF States
<1>3. Pause(s).st = t /\ Pause(s).act = "Escalate"
  BY DEF Pause, Result
<1> QED BY <1>2, <1>3 DEF Follows, Ahead

\* route_fix reopens a turn only within the cap, and counts it.
LEMMA RouteFixFacts ==
  ASSUME NEW s \in States, Ahead(s), s.token = s.seq, NEW f \in Findings
  PROVE  LET r == RouteFix(s, f)
         IN  /\ Follows(s, r)
             /\ r.act \in {"Inject", "Escalate"}
             /\ r.act = "Inject" => /\ r.st.iteration = s.iteration + 1
                                     /\ r.st.iteration <= MaxIterations
<1> DEFINE c == [s EXCEPT !.lastFix = f, !.iteration = @ + 1]
           t == [c EXCEPT !.cur = FixTarget(s.roles)]
<1>0. /\ s.iteration \in Nat /\ s.iteration + 1 \in Nat /\ f \in Findings \cup {NoFix}
      /\ s.max = MaxIterations /\ s.roles = Roles
  BY DEF States
<1>1. /\ c \in States /\ c.cur = s.cur /\ c.iteration = s.iteration + 1
      /\ c.token = s.token /\ c.seq = s.seq /\ s.iteration \in Nat
      /\ s.max = MaxIterations /\ s.roles = Roles
  BY <1>0 DEF States
<1>2. /\ t \in States /\ t.cur = FixTarget(Roles) /\ t.iteration = s.iteration + 1
      /\ t.token = s.token /\ t.seq = s.seq
  BY <1>1, FixTargetInRange DEF States
<1>3. Ahead(c) /\ Ahead(t)
  BY <1>1, <1>2, FixTargetInRange DEF Ahead
<1>4. RouteFix(s, f) \in {Pause(s), Pause(c), OpenTurn(t)}
      /\ (RouteFix(s, f) = OpenTurn(t) \/ RouteFix(s, f) = Pause(s) \/ RouteFix(s, f) = Pause(c))
      /\ (c.iteration > s.max => RouteFix(s, f) = Pause(s) \/ RouteFix(s, f) = Pause(c))
  BY DEF RouteFix
<1> HIDE DEF c, t
<1>5. Follows(s, Pause(c)) /\ Pause(c).act = "Escalate"
  <2>1. Follows(c, Pause(c)) /\ Pause(c).act = "Escalate"
    BY <1>1, <1>3, PauseFacts
  <2>2. Pause(c).st.iteration \in Nat /\ Pause(c).st.phase = "Paused"
    BY <2>1 DEF Follows, States, Pause, Result
  <2> QED BY <1>1, <2>1, <2>2 DEF Follows
<1>6. CASE RouteFix(s, f) = OpenTurn(t) /\ c.iteration <= s.max
  <2>1. Ahead(OpenTurn(t).st)
    BY <1>2, <1>3, OpenTurnFacts DEF Ahead
  <2> QED BY <1>1, <1>2, <1>6, <2>1, OpenTurnFacts DEF Follows
<1>7. CASE RouteFix(s, f) = Pause(s)
  BY <1>7, PauseFacts
<1>8. CASE RouteFix(s, f) = Pause(c)
  BY <1>8, <1>5
<1>9. c.iteration \in Nat /\ s.max \in Nat
  BY <1>1, BoundsAssumption
<1> QED BY <1>4, <1>6, <1>7, <1>8, <1>9

\* route_replan, too, reopens a turn only within the cap, and counts it.
LEMMA RouteReplanFacts ==
  ASSUME NEW s \in States, Ahead(s), s.token = s.seq
  PROVE  LET r == RouteReplan(s)
         IN  /\ Follows(s, r)
             /\ r.act \in {"Inject", "Escalate"}
             /\ r.act = "Inject" => /\ r.st.iteration = s.iteration + 1
                                     /\ r.st.iteration <= MaxIterations
<1> DEFINE c == [s EXCEPT !.iteration = @ + 1]
           t == [c EXCEPT !.lastFix = NoFix, !.cur = ReplanTarget]
<1>1. /\ c \in States /\ c.cur = s.cur /\ c.iteration = s.iteration + 1
      /\ c.token = s.token /\ c.seq = s.seq /\ s.iteration \in Nat
      /\ s.max = MaxIterations
  BY DEF States
<1>2. 1 \in 1 .. Len(Roles) /\ (Verifiers(Roles) # {} => 1 <= FirstVerifier(Roles))
  BY RolesAssumption, FirstVerifierIsLeast DEF Verifiers
<1>3. /\ t \in States /\ t.cur = 1 /\ t.iteration = s.iteration + 1
      /\ t.token = s.token /\ t.seq = s.seq
  BY <1>1, <1>2 DEF States, ReplanTarget
<1>4. Ahead(c) /\ Ahead(t)
  BY <1>1, <1>2, <1>3 DEF Ahead
<1>5. IF c.iteration > s.max THEN RouteReplan(s) = Pause(c) ELSE RouteReplan(s) = OpenTurn(t)
  BY DEF RouteReplan
<1> HIDE DEF c, t
<1>6. CASE c.iteration > s.max
  <2>1. Follows(c, Pause(c)) /\ Pause(c).act = "Escalate"
    BY <1>1, <1>4, PauseFacts
  <2>2. Pause(c).st.iteration \in Nat /\ Pause(c).st.phase = "Paused"
    BY <2>1 DEF Follows, States, Pause, Result
  <2> QED BY <1>1, <1>5, <1>6, <2>1, <2>2 DEF Follows
<1>7. CASE ~(c.iteration > s.max)
  <2>1. Ahead(OpenTurn(t).st)
    BY <1>3, <1>4, OpenTurnFacts DEF Ahead
  <2>2. c.iteration <= MaxIterations
    BY <1>1, <1>7, BoundsAssumption
  <2> QED BY <1>1, <1>3, <1>5, <1>7, <2>1, <2>2, OpenTurnFacts DEF Follows
<1> QED BY <1>6, <1>7

\* A submission: a turn is reopened by a counted verdict, or handed to the
\* next role; a run with a verifier completes only on approval.
LEMMA SubmitFacts ==
  ASSUME NEW s \in States, Ahead(s), s.token = s.seq, NEW sub \in Submissions
  PROVE  LET r == Submit(s, sub)
         IN  /\ Follows(s, r)
             /\ r.act \in {"Inject", "Complete"} => s.phase = "Awaiting"
             /\ (r.act = "Inject" /\ sub.verdict \in {"fix", "replan"}) =>
                  r.st.iteration = s.iteration + 1 /\ r.st.iteration <= MaxIterations
             /\ r.act = "Complete" => (Verifiers(Roles) = {} \/ sub.verdict = "approved")
             /\ r.act = "Complete" => sub.verdict \in {"none", "approved"}
             /\ r.act \notin {"Inject", "Complete"} =>
                  r.st.phase = s.phase \/ (s.phase = "Awaiting" /\ r.st.phase = "Paused")
<1> DEFINE r == Submit(s, sub)
<1>0. s.iteration \in Nat /\ s.seq \in Nat /\ s.roles = Roles /\ s.cur \in 1 .. Len(Roles)
  BY DEF States
<1>1. Follows(s, Hold(s)) /\ Follows(s, Result(s, "AwaitSubmit"))
  BY <1>0 DEF Follows, Hold, Result
<1>2. sub.status \in {"done", "needs_input", "failed"}
      /\ sub.verdict \in {"none", "approved", "fix", "replan"} /\ sub.findings \in Findings
  BY DEF Submissions
<1>3. CASE \/ s.phase # "Awaiting" \/ sub.token # s.token \/ sub.role # s.cur
           \/ sub.verdict # "none" /\ ~s.roles[s.cur]
  <2>1. r = Hold(s) /\ r.act = "Hold" /\ r.st = s
    BY <1>3 DEF Submit, Hold, Result
  <2> QED BY <1>1, <2>1
<1>4. CASE /\ s.phase = "Awaiting" /\ sub.token = s.token /\ sub.role = s.cur
           /\ (sub.verdict = "none" \/ s.roles[s.cur])
  <2>1. CASE sub.status = "failed"
    <3>1. r = Pause(s)
      BY <1>4, <2>1 DEF Submit
    <3> QED BY <1>4, <3>1, PauseFacts
  <2>2. CASE sub.status = "needs_input"
    <3>1. r = Result(s, "AwaitSubmit") /\ r.st = s /\ r.act = "AwaitSubmit"
      BY <1>4, <2>2 DEF Submit, Result
    <3> QED BY <1>1, <3>1
  <2>3. CASE sub.status = "done" /\ ~s.roles[s.cur]
    <3>1. r = AdvanceAfterDone(s) /\ sub.verdict = "none"
      BY <1>4, <2>3 DEF Submit
    <3> QED BY <1>0, <1>4, <3>1, <2>3, AdvanceFacts DEF Follows
  <2>4. CASE sub.status = "done" /\ s.roles[s.cur]
    <3>1. r = Decide(s, sub.verdict, sub.findings)
      BY <1>4, <2>4 DEF Submit
    <3>2. CASE sub.verdict = "approved"
      <4> DEFINE t == [s EXCEPT !.phase = "Done"]
      <4>1. /\ t \in States /\ t.cur = s.cur /\ t.iteration = s.iteration
            /\ t.token = s.token /\ t.seq = s.seq /\ t.phase = "Done"
        <5>1. "Done" \in Phases
          BY DEF Phases
        <5> QED BY <5>1 DEF States
      <4>2. r.st = t /\ r.act = "Complete"
        BY <3>1, <3>2 DEF Decide, Result
      <4> HIDE DEF t
      <4> QED BY <1>0, <1>4, <3>2, <4>1, <4>2 DEF Follows, Ahead
    <3>3. CASE sub.verdict = "fix"
      <4>1. r = RouteFix(s, sub.findings)
        BY <3>1, <3>3 DEF Decide
      <4>2. r.act = "Escalate" => r.st.phase = "Paused"
        BY <4>1 DEF RouteFix, Pause, OpenTurn, Result
      <4> QED BY <1>2, <1>4, <4>1, <4>2, <3>3, RouteFixFacts
    <3>4. CASE sub.verdict = "replan"
      <4>1. r = RouteReplan(s)
        BY <3>1, <3>4 DEF Decide
      <4>2. r.act = "Escalate" => r.st.phase = "Paused"
        BY <4>1 DEF RouteReplan, Pause, OpenTurn, Result
      <4> QED BY <1>2, <1>4, <4>1, <4>2, <3>4, RouteReplanFacts
    <3>5. CASE sub.verdict = "none"
      <4>1. r = Result(s, "AwaitSubmit") /\ r.st = s /\ r.act = "AwaitSubmit"
        BY <3>1, <3>5 DEF Decide, Result
      <4> QED BY <1>1, <4>1
    <3> QED BY <1>2, <3>2, <3>3, <3>4, <3>5
  <2> QED BY <1>2, <2>1, <2>2, <2>3, <2>4
<1> QED BY <1>3, <1>4

\* The state State::new builds satisfies the invariant.
LEMMA InitEstablishes == Init => IInv
<1> SUFFICES ASSUME Init PROVE IInv
  OBVIOUS
<1>1. "Idle" \in Phases /\ 1 \in 1 .. Len(Roles) /\ 0 <= MaxIterations /\ MaxIterations \in Nat
  BY RolesAssumption, BoundsAssumption DEF Phases
<1>2. Verifiers(Roles) # {} => 1 <= FirstVerifier(Roles)
  BY FirstVerifierIsLeast, RolesAssumption DEF Verifiers
<1>3. /\ st.roles = Roles /\ st.cur = 1 /\ st.iteration = 0 /\ st.max = MaxIterations
      /\ st.token = 0 /\ st.seq = 0 /\ st.lastFix = NoFix /\ st.phase = "Idle"
      /\ closed = {} /\ sendbacks = 0 /\ approved = FALSE
  BY DEF Init, NewRun
<1>4. TypeOK
  BY <1>1 DEF Init, NewRun, TypeOK
<1> QED BY <1>1, <1>2, <1>3, <1>4 DEF IInv, CompletionNeedsApproval

\* The events that record no history: the open turn's token is either kept or
\* replaced by a newer one, and the run does not become done.
LEMMA QuietStep ==
  ASSUME IInv, NEW r, Follows(st, r), st' = r.st, UNCHANGED <<closed, sendbacks, approved>>,
         r.st.phase = st.phase \/ r.st.phase # "Done",
         r.st.phase \in {"Idle", "Awaiting", "Paused"} =>
           r.st.seq = st.seq + 1 \/ st.phase \in {"Idle", "Awaiting", "Paused"},
         r.act # "Complete"
  PROVE  IInv'
<1>1. /\ st \in States /\ r.st \in States /\ st.token = st.seq /\ r.st.token = r.st.seq
      /\ st.seq \in Nat /\ r.st.seq \in Nat /\ (r.st.seq = st.seq \/ r.st.seq = st.seq + 1)
      /\ r.st.iteration \in Nat /\ st.iteration \in Nat /\ r.st.iteration >= st.iteration
  BY DEF IInv, TypeOK, States, Follows
<1>2. TypeOK'
  BY <1>1 DEF IInv, TypeOK, States
<1>3. (Verifiers(Roles) # {} => st.cur <= FirstVerifier(Roles))'
  BY DEF Follows, Ahead
<1>4. CompletionNeedsApproval'
  BY DEF IInv, CompletionNeedsApproval
<1>5. (sendbacks <= st.iteration /\ sendbacks <= MaxIterations)'
  BY <1>1 DEF IInv, TypeOK
<1>6. (\A c \in closed : c <= st.seq)'
  BY <1>1 DEF IInv, TypeOK
<1>7. (st.phase \in {"Idle", "Awaiting", "Paused"} => st.token \notin closed)'
  BY <1>1 DEF IInv, TypeOK
<1> QED BY <1>1, <1>2, <1>3, <1>4, <1>5, <1>6, <1>7 DEF IInv

\* A handover: the open turn's token is closed and a newer one is open, or
\* the run is done with approval.
LEMMA HandoverStep ==
  ASSUME IInv, NEW r, Follows(st, r), st' = r.st, st.phase = "Awaiting",
         r.act \in {"Inject", "Complete"}, closed' = closed \cup {st.token},
         \/ sendbacks' = sendbacks
         \/ sendbacks' = sendbacks + 1 /\ r.st.iteration = st.iteration + 1
              /\ r.st.iteration <= MaxIterations,
         approved' \in BOOLEAN, approved => approved',
         r.act = "Complete" => (Verifiers(Roles) = {} \/ approved')
  PROVE  IInv'
<1>1. /\ st \in States /\ r.st \in States /\ st.token = st.seq /\ r.st.token = r.st.seq
      /\ st.seq \in Nat /\ r.st.seq \in Nat /\ (r.st.seq = st.seq \/ r.st.seq = st.seq + 1)
      /\ r.st.iteration \in Nat /\ st.iteration \in Nat /\ r.st.iteration >= st.iteration
      /\ sendbacks \in Nat /\ MaxIterations \in Nat
  BY BoundsAssumption DEF IInv, TypeOK, States, Follows
<1>2. TypeOK'
  <2>1. closed' \subseteq Nat
    BY <1>1 DEF IInv, TypeOK
  <2>3. sendbacks' \in Nat
    BY <1>1
  <2>2. st' \in States
    BY <1>1
  <2> QED BY <2>1, <2>2, <2>3 DEF TypeOK, States
<1>3. (Verifiers(Roles) # {} => st.cur <= FirstVerifier(Roles))'
  BY DEF Follows, Ahead
<1>4. CompletionNeedsApproval'
  BY DEF IInv, CompletionNeedsApproval, Follows
<1>5. (sendbacks <= st.iteration /\ sendbacks <= MaxIterations)'
  BY <1>1 DEF IInv
<1>6. (\A c \in closed : c <= st.seq)'
  BY <1>1 DEF IInv, TypeOK
<1>7. (st.phase \in {"Idle", "Awaiting", "Paused"} => st.token \notin closed)'
  <2>1. CASE r.act = "Complete"
    BY <2>1 DEF Follows
  <2>2. CASE r.act = "Inject"
    <3>1. r.st.token = st.seq + 1 /\ \A c \in closed : c \in Nat /\ c <= st.seq
      BY <2>2, <1>1 DEF Follows, IInv, TypeOK
    <3> QED BY <3>1, <1>1
  <2> QED BY <2>1, <2>2
<1> QED BY <1>1, <1>2, <1>3, <1>4, <1>5, <1>6, <1>7 DEF IInv

\* Every event step() handles keeps the invariant.
LEMMA StepPreserves == IInv /\ [Next]_vars => IInv'
<1> SUFFICES ASSUME IInv, [Next]_vars PROVE IInv'
  OBVIOUS
<1>0. st \in States /\ Ahead(st) /\ st.token = st.seq /\ st.iteration \in Nat /\ st.seq \in Nat
  BY DEF IInv, TypeOK, States, Ahead
<1>1. Follows(st, Hold(st)) /\ Hold(st).st = st /\ Hold(st).act = "Hold"
  BY <1>0 DEF Follows, Hold, Result
<1>2. Follows(st, OpenTurn(st)) /\ OpenTurn(st).st.phase = "Awaiting"
      /\ OpenTurn(st).act = "Inject" /\ OpenTurn(st).st.seq = st.seq + 1
  BY <1>0, OpenTurnFacts DEF Follows, Ahead
<1>3. CASE Starts
  <2>1. CASE st.phase = "Idle"
    <3> DEFINE t == [st EXCEPT !.cur = 1]
    <3>1. 1 \in 1 .. Len(Roles) /\ (Verifiers(Roles) # {} => 1 <= FirstVerifier(Roles))
      BY RolesAssumption, FirstVerifierIsLeast DEF Verifiers
    <3>2. t \in States /\ t.cur = 1 /\ t.iteration = st.iteration /\ t.seq = st.seq
      BY <1>0, <3>1 DEF States
    <3>3. Start(st) = OpenTurn(t)
      BY <2>1 DEF Start
    <3> HIDE DEF t
    <3>4. /\ Follows(st, OpenTurn(t)) /\ OpenTurn(t).st.phase = "Awaiting"
          /\ OpenTurn(t).act = "Inject" /\ OpenTurn(t).st.seq = st.seq + 1
      BY <1>0, <3>1, <3>2, OpenTurnFacts DEF Follows, Ahead
    <3> QED BY <1>3, <3>3, <3>4, QuietStep DEF Starts
  <2>2. CASE st.phase # "Idle"
    BY <1>1, <1>3, <2>2, QuietStep DEF Starts, Start
  <2> QED BY <2>1, <2>2
<1>4. CASE Stops
  <2> DEFINE t == [st EXCEPT !.phase = "Aborted"]
  <2>1. "Aborted" \in Phases
    BY DEF Phases
  <2>2. t \in States /\ t.cur = st.cur /\ t.iteration = st.iteration /\ t.seq = st.seq
        /\ t.token = st.token /\ t.phase = "Aborted"
    BY <1>0, <2>1 DEF States
  <2>3. Abort(st).st = t /\ Abort(st).act = "Abort"
    BY DEF Abort, Result
  <2>4. Follows(st, Abort(st))
    BY <1>0, <2>2, <2>3 DEF Follows, Ahead
  <2>5. CASE Terminal(st)
    BY <1>1, <1>4, <2>5, QuietStep DEF Stops, Stop
  <2>6. CASE ~Terminal(st)
    BY <1>4, <2>2, <2>3, <2>4, <2>6, QuietStep DEF Stops, Stop
  <2> QED BY <2>5, <2>6
<1>5. CASE Stalls
  <2>1. CASE Terminal(st) \/ st.phase = "Paused"
    BY <1>1, <1>5, <2>1, QuietStep DEF Stalls, Stall
  <2>2. CASE ~(Terminal(st) \/ st.phase = "Paused")
    <3>1. st.phase \in {"Idle", "Awaiting"}
      BY <1>0, <2>2 DEF States, Phases, Terminal
    <3>2. Stall(st) = Pause(st)
      BY <2>2 DEF Stall
    <3> QED BY <1>0, <1>5, <3>1, <3>2, PauseFacts, QuietStep DEF Stalls
  <2> QED BY <2>1, <2>2
<1>6. CASE Resumes
  <2>1. CASE st.phase = "Paused"
    BY <1>2, <1>6, <2>1, QuietStep DEF Resumes, Resume
  <2>2. CASE st.phase # "Paused"
    BY <1>1, <1>6, <2>2, QuietStep DEF Resumes, Resume
  <2> QED BY <2>1, <2>2
<1>7. ASSUME NEW role \in 1 .. Len(Roles), Idles(role) PROVE IInv'
  <2>1. CASE st.phase # "Awaiting" \/ role # st.cur \/ st.roles[st.cur]
    <3>1. IdleHold(st, role) = Hold(st)
      BY <2>1 DEF IdleHold
    <3> QED BY <1>1, <1>7, <3>1, QuietStep DEF Idles, HandsOver
  <2>2. CASE st.phase = "Awaiting" /\ role = st.cur /\ ~st.roles[st.cur]
    <3> DEFINE r == AdvanceAfterDone(st)
    <3>1. IdleHold(st, role) = r
      BY <2>2 DEF IdleHold
    <3>2. /\ Follows(st, r) /\ r.act \in {"Inject", "Complete"}
          /\ r.act = "Complete" => Verifiers(Roles) = {}
      BY <1>0, <2>2, AdvanceFacts DEF Follows
    <3> HIDE DEF r
    <3>3. st' = r.st /\ closed' = closed \cup {st.token} /\ sendbacks' = sendbacks
          /\ approved' = approved /\ approved \in BOOLEAN
      BY <1>7, <3>1, <3>2 DEF Idles, HandsOver, IInv, TypeOK
    <3> QED BY <2>2, <3>2, <3>3, HandoverStep
  <2> QED BY <2>1, <2>2
<1>8. ASSUME NEW sub \in Submissions, Submits(sub) PROVE IInv'
  <2> DEFINE r == Submit(st, sub)
  <2>1. /\ Follows(st, r)
        /\ r.act \in {"Inject", "Complete"} => st.phase = "Awaiting"
        /\ (r.act = "Inject" /\ sub.verdict \in {"fix", "replan"}) =>
             r.st.iteration = st.iteration + 1 /\ r.st.iteration <= MaxIterations
        /\ r.act = "Complete" => (Verifiers(Roles) = {} \/ sub.verdict = "approved")
        /\ r.act = "Complete" => sub.verdict \in {"none", "approved"}
        /\ r.act \notin {"Inject", "Complete"} =>
                  r.st.phase = st.phase \/ (st.phase = "Awaiting" /\ r.st.phase = "Paused")
    BY <1>0, SubmitFacts
  <2>2. /\ st' = r.st
        /\ closed' = IF HandsOver(r) THEN closed \cup {st.token} ELSE closed
        /\ sendbacks' = IF HandsOver(r) /\ sub.verdict \in {"fix", "replan"} THEN sendbacks + 1
                        ELSE sendbacks
        /\ approved' = (approved \/ (HandsOver(r) /\ sub.verdict = "approved"))
    BY <1>8 DEF Submits
  <2> HIDE DEF r
  <2>3. CASE HandsOver(r)
    <3>1. approved' \in BOOLEAN /\ (approved => approved')
          /\ (sub.verdict = "approved" => approved')
      BY <2>2, <2>3
    <3>2. \/ sendbacks' = sendbacks
          \/ sendbacks' = sendbacks + 1 /\ r.st.iteration = st.iteration + 1
              /\ r.st.iteration <= MaxIterations
      BY <2>1, <2>2, <2>3 DEF HandsOver
    <3> QED BY <2>1, <2>2, <2>3, <3>1, <3>2, HandoverStep DEF HandsOver
  <2>4. CASE ~HandsOver(r)
    <3>1. UNCHANGED <<closed, sendbacks, approved>>
      BY <2>2, <2>4 DEF IInv, TypeOK
    <3> QED BY <2>1, <2>2, <2>4, <3>1, QuietStep DEF HandsOver
  <2> QED BY <2>3, <2>4
<1>9. CASE UNCHANGED vars
  BY <1>9 DEF vars, IInv, TypeOK, CompletionNeedsApproval
<1> QED BY <1>3, <1>4, <1>5, <1>6, <1>7, <1>8, <1>9 DEF Next

\* The inductive invariant holds in every reachable state.
THEOREM Invariance == Spec => []IInv
BY InitEstablishes, StepPreserves, PTL DEF Spec

\* The state of a run keeps its type, its current role within the list of
\* roles included.
THEOREM TypeCorrect == Spec => []TypeOK
<1>1. IInv => TypeOK
  BY DEF IInv
<1> QED BY <1>1, Invariance, PTL

\* For every list of roles with a verifier, the run completes only after the
\* verifier approved.
THEOREM CompletionApproved == Spec => []CompletionNeedsApproval
<1>1. IInv => CompletionNeedsApproval
  BY DEF IInv
<1> QED BY <1>1, Invariance, PTL

\* For every limit, verdicts reopen a turn at most MaxIterations times.
THEOREM SendBacksBounded == Spec => []SendBackBound
<1>1. IInv => SendBackBound
  BY DEF IInv, SendBackBound
<1> QED BY <1>1, Invariance, PTL

\* No submission of an earlier turn can hand over the open one.
THEOREM OpenTurnFresh == Spec => []OpenTurnIsFresh
<1>1. IInv => OpenTurnIsFresh
  BY DEF IInv, OpenTurnIsFresh
<1> QED BY <1>1, Invariance, PTL
=============================================================================
