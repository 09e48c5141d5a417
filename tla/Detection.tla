------------------------------ MODULE Detection -----------------------------
(***************************************************************************)
(* How a Pane comes to name its agent and the agent's status               *)
(* (server/agents.rs, server/io.rs, server.rs, runtime.rs, providers,      *)
(* process_watch.rs): the kernel's processes and terminal owner, the       *)
(* output a Pane reads, the evidence it sends to the runtime, the verdict  *)
(* that comes back later, cooperative envelopes, the exit watch, dwell,    *)
(* and the notification that hangs on a status.                *)
(*                                                                         *)
(* One Pane.  Process 1 is its shell.  Times are what is left of a dwell;  *)
(* a rule's match is the status it stands for; evidence and provenance     *)
(* are the authority, the rule and the process group.                      *)
(***************************************************************************)
EXTENDS Naturals, Sequences, FiniteSets

CONSTANTS Agents,      \* provider ids
          Screens,     \* what the agents draw: statuses the rules recognise
          Logs,        \* statuses a provider's log may show, "none" among them
          Envelopes,   \* statuses of cooperative envelopes
          MaxPid, MaxDraws, MaxWrites, MaxQueue

VARIABLES procs,       \* [alive, zombies, program]: the kernel's processes
          fg,          \* the terminal's foreground group
          tty,         \* [screen, unread, envelopes]: written by the child, not yet read
          pane,        \* [seen, hash, agent, last, cand, watch]
          cache,       \* process_cache: process |-> agent
          evidence, verdicts,   \* core to runtime, runtime to core
          notice,      \* the pending notification
          latest,      \* ghost: the status of the last verdict or envelope taken
          wrong,       \* ghost: the slips met, see the properties
          used         \* bounds: [draws, writes]

kernel == <<procs, fg, tty>>
vars == <<procs, fg, tty, pane, cache, evidence, verdicts, notice, latest, wrong, used>>

Shell == 1
None == "none"
NoAgent == [id |-> None, status |-> None, auth |-> 0, from |-> <<>>, pid |-> 0]
NoCand == [status |-> None, auth |-> 0, from |-> <<>>, dwell |-> 0, left |-> 0]
NoNotice == [status |-> None, left |-> 0]

\* DetectionAuthority, in order.
Process == 1
GridEvidence == 2
LogEvidence == 3
Osc777 == 4
KernelExit == 5

Init ==
    /\ procs = [alive |-> {Shell}, zombies |-> {}, program |-> <<"shell">>]
    /\ fg = Shell
    /\ tty = [screen |-> "prompt", unread |-> FALSE, envelopes |-> <<>>]
    /\ pane = [seen |-> 0, hash |-> None, agent |-> NoAgent, last |-> [auth |-> 0, pid |-> 0],
               cand |-> NoCand, watch |-> 0]
    /\ cache = <<>>
    /\ evidence = <<>> /\ verdicts = <<>>
    /\ notice = NoNotice
    /\ latest = None /\ wrong = {}
    /\ used = [draws |-> 0, writes |-> 0]

(***************************************************************************)
(* The child side.  A launcher may exec the agent without a new process.   *)
(***************************************************************************)
Core == <<pane, cache, evidence, verdicts, notice, latest, wrong>>
Spawn(p) ==
    /\ fg = Shell /\ Len(procs.program) < MaxPid
    /\ LET pid == Len(procs.program) + 1 IN
           /\ procs' = [procs EXCEPT !.alive = @ \cup {pid}, !.program = Append(@, p)]
           /\ fg' = pid
    /\ UNCHANGED <<tty, Core, used>>
Exec(a) ==
    /\ fg \in procs.alive /\ procs.program[fg] = "launcher"
    /\ procs' = [procs EXCEPT !.program[fg] = a]
    /\ UNCHANGED <<fg, tty, Core, used>>
Draw(s) ==
    /\ fg \in procs.alive \ {Shell} /\ used.draws < MaxDraws /\ s # tty.screen
    /\ tty' = [tty EXCEPT !.screen = s, !.unread = TRUE]
    /\ used' = [used EXCEPT !.draws = @ + 1]
    /\ UNCHANGED <<procs, fg, Core>>
WriteEnvelope(s) ==
    /\ fg \in procs.alive /\ procs.program[fg] \in Agents /\ used.writes < MaxWrites
    /\ tty' = [tty EXCEPT !.envelopes = Append(@, [id |-> procs.program[fg], status |-> s]), !.unread = TRUE]
    /\ used' = [used EXCEPT !.writes = @ + 1]
    /\ UNCHANGED <<procs, fg, Core>>
Exit ==
    /\ fg \in procs.alive \ {Shell}
    /\ procs' = [procs EXCEPT !.alive = @ \ {fg}, !.zombies = @ \cup {fg}]
    /\ UNCHANGED <<fg, tty, Core, used>>
\* The shell takes its terminal back and prompts.
Reclaim ==
    /\ fg \in procs.zombies
    /\ procs' = [procs EXCEPT !.zombies = @ \ {fg}]
    /\ fg' = Shell
    /\ tty' = [tty EXCEPT !.screen = "prompt", !.unread = TRUE]
    /\ UNCHANGED <<Core, used>>

(***************************************************************************)
(* Statuses: dwell, authority, notification.                               *)
(***************************************************************************)
NeedsHuman(s) == s = "ask"
detection_dwell(s) == CASE s = "ask" -> 2 [] s = "idle" -> 1 [] OTHER -> 0
StaleDwell == 3
stale_cooperative_fallback(status, auth, s) == auth >= LogEvidence /\ status = "working" /\ s = "idle"
detection_candidate_can_apply(agent, cand) ==
    \/ cand.auth >= agent.auth \/ NeedsHuman(cand.status) \/ agent.status = "starting"
    \/ stale_cooperative_fallback(agent.status, agent.auth, cand.status)

\* notify_agent_transition: what is pending after a transition.
Noticed(previous, s) ==
    IF (NeedsHuman(s) /\ ~NeedsHuman(previous)) \/ (s = "idle" /\ previous \in {"starting", "working"})
    THEN [status |-> s, left |-> 1] ELSE NoNotice
Transition(previous, s) == IF previous = s THEN notice ELSE Noticed(previous, s)

(***************************************************************************)
(* on_pty: the envelopes, then the evidence.                               *)
(***************************************************************************)
Foreign(agent, ev) == agent.id # None /\ fg = agent.pid /\ ev.id # agent.id
Fresh(agent, ev) == agent.id # ev.id \/ (agent.pid # 0 /\ fg # agent.pid)
Cooperative(ev) == [id |-> ev.id, status |-> ev.status, auth |-> Osc777, from |-> <<Osc777>>, pid |-> fg]
Heeded(p, ev) == ~Foreign(p.agent, ev) /\ (ev.status = "exited" => p.agent # NoAgent)
\* The Pane after an envelope it heeds.  A parked candidate is left where it is.
Hooked(p, ev) ==
    IF ev.status = "exited"
    THEN [p EXCEPT !.agent = NoAgent, !.last = [auth |-> Osc777, pid |-> p.agent.pid]]
    ELSE IF Fresh(p.agent, ev) THEN [p EXCEPT !.agent = Cooperative(ev)]
    ELSE [p EXCEPT !.agent = [Cooperative(ev) EXCEPT !.pid = IF p.agent.pid = 0 THEN fg ELSE p.agent.pid]]
Previous(p) == IF p.agent = NoAgent THEN "unknown" ELSE p.agent.status

Worth(p, changed) == fg # p.seen \/ tty.screen # p.hash \/ changed
Evidence(p) == [pid |-> fg, changed |-> fg # p.seen, text |-> tty.screen, bound |-> p.agent.id]
Seen(p) == [p EXCEPT !.seen = fg, !.hash = tty.screen]

ReadPty ==
    /\ tty.unread /\ Len(evidence) < MaxQueue
    /\ LET changed == tty.envelopes # <<>> /\ Heeded(pane, Head(tty.envelopes))
           p == IF changed THEN Hooked(pane, Head(tty.envelopes)) ELSE pane
       IN  /\ pane' = IF Worth(p, changed) THEN Seen(p) ELSE p
           /\ evidence' = IF Worth(p, changed) THEN Append(evidence, Evidence(p)) ELSE evidence
           /\ notice' = IF p.agent = NoAgent THEN notice ELSE Transition(Previous(pane), p.agent.status)
           /\ latest' = IF p.agent = pane.agent THEN latest ELSE p.agent.status
    /\ tty' = [tty EXCEPT !.unread = FALSE, !.envelopes = <<>>]
    /\ UNCHANGED <<procs, fg, cache, verdicts, wrong, used>>

(***************************************************************************)
(* The runtime: PaneEvidence to AgentDetected.                             *)
(***************************************************************************)
\* detect_process reads the command line as it is now; only a match is cached.
Found(pid) == IF pid \in procs.alive /\ procs.program[pid] \in Agents THEN procs.program[pid] ELSE None
Cached(pid) == IF pid \in DOMAIN cache THEN cache[pid] ELSE None
Identity(e) == IF e.changed \/ Cached(e.pid) = None THEN Found(e.pid) ELSE Cached(e.pid)
Rule(text) == IF text \in {"working", "ask"} THEN text ELSE "idle"     \* no match is idle
Verdict(e, process, id, s, auth) ==
    [pid |-> e.pid, process |-> process, id |-> id, status |-> s, auth |-> auth, from |-> <<auth, s, e.pid>>]
\* A visible prompt, then the log, then the screen; nothing known is no verdict.
Judged(e, process, id, log) ==
    IF id = None THEN <<>>
    ELSE IF log # None /\ ~NeedsHuman(Rule(e.text)) THEN <<Verdict(e, process, id, log, LogEvidence)>>
    ELSE <<Verdict(e, process, id, Rule(e.text), GridEvidence)>>
Judge ==
    /\ evidence # <<>>
    /\ LET e == Head(evidence)
           process == Identity(e)
       IN  /\ cache' = IF process = None THEN <<>> ELSE [q \in {e.pid} |-> process]
           /\ \E log \in Logs :
                  verdicts' = verdicts \o Judged(e, process, IF process # None THEN process ELSE e.bound, log)
    /\ evidence' = Tail(evidence)
    /\ UNCHANGED <<kernel, pane, notice, latest, wrong, used>>

(***************************************************************************)
(* apply_agent_detection.                                                  *)
(***************************************************************************)
\* The watch replaces another process's; a process that is gone cannot be watched.
Watched(p, v) ==
    IF p.watch = v.pid THEN p
    ELSE [p EXCEPT !.watch = IF v.pid \in procs.alive \cup procs.zombies THEN v.pid ELSE 0]

Stale(p, v) == v.pid # fg \/ p.last = [auth |-> KernelExit, pid |-> v.pid]
Verified(v) == v.process = v.id
Replaces(p, v) == p.agent = NoAgent \/ (p.agent.id # v.id /\ Verified(v))
Mislabels(p, v) == p.agent # NoAgent /\ p.agent.id # v.id /\ ~Verified(v)
Bound(p, v) ==
    IF Replaces(p, v)
    THEN [p EXCEPT !.cand = NoCand,
                   !.agent = [id |-> v.id, status |-> "starting", auth |-> v.auth, from |-> v.from, pid |-> v.pid]]
    ELSE [p EXCEPT !.agent.pid = IF @ = 0 THEN v.pid ELSE @]
\* Slip: equal authority does not suffice.
OutrankedByEqual(agent, v) ==
    v.auth <= agent.auth /\ ~NeedsHuman(v.status) /\ agent.status # "starting"
       /\ ~stale_cooperative_fallback(agent.status, agent.auth, v.status)
Outranked(agent, v) ==
    v.auth < agent.auth /\ ~NeedsHuman(v.status) /\ agent.status # "starting"
       /\ ~stale_cooperative_fallback(agent.status, agent.auth, v.status)
SameAs(agent, v) == agent.status = v.status /\ agent.auth = v.auth /\ agent.from = v.from
Dwell(agent, v) ==
    IF stale_cooperative_fallback(agent.status, agent.auth, v.status) /\ v.auth < agent.auth
    THEN StaleDwell ELSE detection_dwell(v.status)
Adopted(p, v) ==
    [p EXCEPT !.agent.status = v.status, !.agent.auth = v.auth, !.agent.from = v.from, !.cand = NoCand]
Parked(p, v, dwell) ==
    IF p.cand.status = v.status /\ p.cand.auth = v.auth /\ p.cand.from = v.from /\ p.cand.dwell = dwell THEN p
    ELSE [p EXCEPT !.cand = [status |-> v.status, auth |-> v.auth, from |-> v.from, dwell |-> dwell, left |-> dwell]]
\* The status of a verdict that was let through: outranked and unchanged ones change nothing.
Smoothed(p, v, changed) ==
    IF Outranked(p.agent, v) \/ (SameAs(p.agent, v) /\ ~changed) THEN p
    ELSE IF Dwell(p.agent, v) = 0 THEN Adopted(p, v)
    ELSE Parked(p, v, Dwell(p.agent, v))
Detected(p, v) ==
    LET q == [p EXCEPT !.seen = v.pid] IN
    IF Mislabels(q, v) THEN q ELSE Smoothed(Bound(q, v), v, Replaces(q, v))
TakeVerdict ==
    /\ verdicts # <<>>
    /\ LET v == Head(verdicts)
           w == Watched(pane, v)
           p == IF Stale(pane, v) THEN w ELSE Detected(w, v)
       IN  /\ pane' = p
           /\ notice' = IF p.agent.status # pane.agent.status /\ p.agent.status # "starting"
                        THEN Transition(Previous(pane), p.agent.status) ELSE notice
           /\ latest' = IF Stale(pane, v) \/ Mislabels(pane, v) THEN latest ELSE v.status
           /\ wrong' = IF w = p THEN wrong
                       ELSE wrong \cup {c \in {"ghost"} : Replaces(pane, v) /\ v.process = None}
    /\ verdicts' = Tail(verdicts)
    /\ UNCHANGED <<kernel, cache, evidence, used>>

\* on_process_exit: whatever agent is bound leaves.
ProcessExit ==
    /\ pane.watch # 0 /\ pane.watch \notin procs.alive
    /\ pane' = IF pane.agent = NoAgent THEN [pane EXCEPT !.watch = 0]
               ELSE [pane EXCEPT !.watch = 0, !.agent = NoAgent, !.cand = NoCand,
                                 !.last = [auth |-> KernelExit, pid |-> pane.watch]]
    /\ latest' = None
    /\ UNCHANGED <<kernel, cache, evidence, verdicts, notice, wrong, used>>

(***************************************************************************)
(* flush_detection_due, and time.                                          *)
(***************************************************************************)
Due == pane.cand # NoCand /\ pane.cand.left = 0
Applied(p) ==
    IF p.agent # NoAgent /\ detection_candidate_can_apply(p.agent, p.cand)
    THEN Adopted(p, p.cand) ELSE [p EXCEPT !.cand = NoCand]
FlushDue == Due \/ (notice # NoNotice /\ notice.left = 0)
FlushDetectionDue ==
    /\ FlushDue
    /\ LET p == IF Due THEN Applied(pane) ELSE pane
           n == IF p.agent.status = pane.agent.status THEN notice
                ELSE Noticed(pane.agent.status, p.agent.status)
           tells == n # NoNotice /\ n.left = 0
       IN  /\ pane' = p
           /\ notice' = IF tells THEN NoNotice ELSE n
           /\ wrong' = wrong \cup {c \in {"flicker"} : Due /\ p.agent # pane.agent /\ p.agent.status # latest}
    /\ UNCHANGED <<kernel, cache, evidence, verdicts, latest, used>>
Sooner(x) == IF x = 0 THEN 0 ELSE x - 1
TimePasses ==
    /\ ~FlushDue /\ (pane.cand # NoCand \/ notice # NoNotice)
    /\ pane' = [pane EXCEPT !.cand.left = Sooner(@)]
    /\ notice' = [notice EXCEPT !.left = Sooner(@)]
    /\ UNCHANGED <<kernel, cache, evidence, verdicts, latest, wrong, used>>

Next ==
    \/ \E p \in Agents \cup {"launcher"} : Spawn(p)
    \/ \E a \in Agents : Exec(a)
    \/ \E s \in Screens : Draw(s)
    \/ \E s \in Envelopes : WriteEnvelope(s)
    \/ Exit \/ Reclaim \/ ReadPty \/ Judge \/ TakeVerdict \/ ProcessExit
    \/ FlushDetectionDue \/ TimePasses
Spec == Init /\ [][Next]_vars

(***************************************************************************)
(* Properties.                                                             *)
(***************************************************************************)
Quiet == ~tty.unread /\ evidence = <<>> /\ verdicts = <<>> /\ pane.cand = NoCand

\* Once all is read, judged and taken, an agent that rests on the screen is the program that
\* owns the terminal, and its status the one the provider's rules give the screen now: hashing,
\* caching, launchers that exec, late verdicts and dwell strand no older one, unless a
\* contradicted candidate fired or an exited agent came back (on_pty, PaneEvidence,
\* apply_agent_detection, flush_detection_due).
ScreenStatusSettles ==
    Quiet /\ wrong = {} /\ pane.agent.auth = GridEvidence /\ pane.agent.pid = fg =>
        /\ pane.agent.status = Rule(tty.screen)
        /\ procs.program[fg] \in Agents => pane.agent.id = procs.program[fg]

\* Dwell smooths flicker: a parked status that a later verdict has contradicted never
\* takes effect, so it never notifies (apply_agent_detection, flush_detection_due).
DwellHolds == "flicker" \notin wrong

\* An agent that exited stays gone: no process, no agent in the fleet.
ExitedStaysGone == "ghost" \notin wrong
=============================================================================
