------------------------------ MODULE ClientOutput ------------------------------
(***************************************************************************)
(* What the server owes each connected client, and how it is paid through  *)
(* a socket that may be slow: server.rs (Client, the drain before exit),   *)
(* server/io.rs (on_accept, on_client, the end of on_pty) and              *)
(* server/chrome.rs (the full, chrome, damage and direct repaints, the     *)
(* Pane attachments and the shared geometry).                              *)
(*                                                                         *)
(* Bytes are counted in units: a complete picture takes two, every other   *)
(* frame one.  The kernel holds Cap units for a client until it reads.     *)
(* The content of the visible Pane is a version number, and so are the     *)
(* rails around it; a damage frame takes a screen from one version of the  *)
(* Pane to the next.                                                       *)
(***************************************************************************)
EXTENDS Integers, Sequences, FiniteSets, SequencesExt, FiniteSetsExt

CONSTANTS Clients,     \* connections that may be made
          Sizes,       \* terminal widths a client may report
          Modes,       \* which kinds of attachment clients ask for
          Surfaces,    \* what else happens: "overlay", "picker", "chrome", "note"
          Cap,         \* units the kernel buffers for one client
          MaxPending,  \* MAX_PENDING_CLIENT, in units
          MaxBody,     \* bound: versions of the Pane's content
          MaxCloses    \* bound: Panes whose process exits

VARIABLES client,      \* the server's record of each client, and its socket
          scene,       \* versions of the Pane and of the rails, whether the overview
                       \* covers them, and how many Panes have closed
          width,       \* the shared geometry
          phase        \* "running", "draining" or "gone"

vars == <<client, scene, width, phase>>

None == [kind |-> "none", body |-> 0, chrome |-> 0]
Note == [kind |-> "note", body |-> 0, chrome |-> 0]
Exited == [kind |-> "exited", body |-> 0, chrome |-> 0]

Fresh == [mode |-> "none", overlay |-> FALSE, size |-> 0, role |-> "none", pane |-> 0,
          outbuf |-> <<>>, sent |-> 0, repaint |-> FALSE, final |-> None, dead |-> FALSE,
          write |-> FALSE, edge |-> FALSE, notified |-> FALSE,
          used |-> 0, wire |-> <<>>, shown |-> None, seen |-> {}, words |-> {}]

IsRender(f) == f.kind \in {"full", "damage", "chrome"}

Units(s) == Len(s) + Cardinality({i \in 1..Len(s) : s[i].kind = "full"})

Pending(k) == Units(k.outbuf) - k.sent

(***************************************************************************)
(* One client's queue.                                                     *)
(***************************************************************************)
wants_write(k) == ~k.dead /\ Pending(k) > 0

Discarded(k) == [k EXCEPT !.outbuf = <<>>, !.sent = 0, !.dead = TRUE]

\* The hard bound: a client this far behind is cut off.
queue(k, f) ==
    IF k.dead THEN k
    ELSE IF Pending(k) + Units(<<f>>) > MaxPending THEN Discarded(k)
    ELSE [k EXCEPT !.outbuf = Append(@, f)]

\* A render that is still queued is not followed by another one: the later
\* ones become one repaint, owed once the queue has drained.
RenderQueued(k) == \E i \in 1..Len(k.outbuf) : IsRender(k.outbuf[i])

\* Slip: the later damage is dropped and nothing is owed for it.
queue_renderDropping(k, f) == IF RenderQueued(k) THEN k ELSE queue(k, f)

queue_render(k, f) ==
    IF k.dead THEN k
    ELSE IF RenderQueued(k) THEN [k EXCEPT !.repaint = TRUE]
    ELSE queue(k, f)

\* The kernel takes n units; the frames they complete can be read.
Written(k, n) ==
    LET done == Max({i \in 0..Len(k.outbuf) : Units(SubSeq(k.outbuf, 1, i)) <= k.sent + n})
    IN [k EXCEPT !.wire = @ \o SubSeq(k.outbuf, 1, done),
                 !.used = @ + n,
                 !.sent = @ + n - Units(SubSeq(k.outbuf, 1, done)),
                 !.outbuf = SubSeq(@, done + 1, Len(@))]

flush_ready(k) == IF wants_write(k) THEN Written(k, Min({Cap - k.used, Pending(k)})) ELSE k

\* While a repaint is owed only a writable event drains the queue, so that
\* the event sees it become empty.
flush(k) == IF k.repaint THEN k ELSE flush_ready(k)

\* Registering for writability reports a socket that already has room.
set_interest(k) ==
    IF wants_write(k) = k.write THEN k
    ELSE [k EXCEPT !.write = ~@, !.edge = ~k.write /\ k.used < Cap]

Sent(k, f) == set_interest(flush(queue(k, f)))
Painted(k, f) == set_interest(flush(queue_render(k, f)))

(***************************************************************************)
(* Pictures.                                                               *)
(***************************************************************************)
\* The overview is a picture of its own.
build_full_frame(s) == [kind |-> "full", body |-> IF s.picker THEN 0 ELSE s.body,
                        chrome |-> IF s.picker THEN 0 ELSE s.chrome]

\* A direct attachment shows one Pane, for as long as it is open.
Streams(k, s) == k.mode = "direct" /\ k.pane = s.closed

full_repaint_direct_client(k, s) ==
    IF Streams(k, s) THEN Painted(k, [kind |-> "full", body |-> s.body, chrome |-> 0]) ELSE k

\* A whole picture goes with a title and a note on nested input, which are
\* ordinary messages.
full_repaint_client(k, s) ==
    IF k.mode = "direct" THEN full_repaint_direct_client(k, s)
    ELSE set_interest(flush(queue(queue_render(queue(k, Note), build_full_frame(s)), Note)))

full_repaint_all(k, s) ==
    CASE k.mode = "attached" /\ k.overlay -> Sent(k, Note)
      [] k.mode = "attached" /\ ~k.overlay -> full_repaint_client(k, s)
      [] k.mode = "direct" -> full_repaint_direct_client(k, s)
      [] OTHER -> k

repaint_chrome_all(k, s) ==
    IF k.mode = "attached" /\ ~k.overlay /\ ~s.picker
    THEN Painted(k, [kind |-> "chrome", body |-> 0, chrome |-> s.chrome]) ELSE k

broadcast_direct_pane_damage(k, s) ==
    IF Streams(k, s) THEN Painted(k, [kind |-> "damage", body |-> s.body, chrome |-> 0]) ELSE k

broadcast_pane_damage(k, s) ==
    IF k.mode = "attached" /\ ~k.overlay /\ ~s.picker
    THEN Painted(k, [kind |-> "damage", body |-> s.body, chrome |-> 0])
    ELSE broadcast_direct_pane_damage(k, s)

(***************************************************************************)
(* Who is attached, and how wide the Workspace is.                         *)
(***************************************************************************)
Shown(f) == {c \in Clients : f[c].mode = "attached" /\ ~f[c].dead}

\* The narrowest attached terminal; with none attached the last one stays.
recompute_client_geometry(f) ==
    IF Shown(f) = {} THEN width ELSE Min({f[c].size : c \in Shown(f)})

\* The attachments became f by something c did: a change of width repaints
\* everyone, and otherwise only c is brought up to date.
Reshaped(f, c) ==
    /\ width' = recompute_client_geometry(f)
    /\ client' = IF recompute_client_geometry(f) # width
                 THEN [d \in Clients |-> full_repaint_all(f[d], scene)]
                 ELSE IF f[c].mode = "none" THEN f
                 ELSE [f EXCEPT ![c] = full_repaint_client(@, scene)]

on_accept(c) ==
    /\ phase = "running" /\ client[c].mode = "none"
    /\ client' = [client EXCEPT ![c] = [Fresh EXCEPT !.mode = "accepted"]]
    /\ UNCHANGED <<scene, width, phase>>

\* ClientMessage::Attach, from a connection that never asked for one Pane.
Attach(c) ==
    /\ phase = "running" /\ "attached" \in Modes /\ client[c].mode = "accepted"
    /\ \E w \in Sizes : Reshaped([client EXCEPT ![c].mode = "attached", ![c].size = w], c)
    /\ UNCHANGED <<scene, phase>>

\* ClientMessage::Resize; a direct client only asks for its picture again.
Resize(c) ==
    /\ phase = "running"
    /\ \/ /\ client[c].mode = "direct"
          /\ client' = [client EXCEPT ![c] = full_repaint_direct_client(@, scene)]
          /\ UNCHANGED width
       \/ /\ client[c].mode = "attached"
          /\ \E w \in Sizes \ {client[c].size} : Reshaped([client EXCEPT ![c].size = w], c)
    /\ UNCHANGED <<scene, phase>>

can_control(role) == role \in {"controller", "takeover"}

Controllers(f, pane) == {c \in Clients : f[c].mode = "direct" /\ f[c].pane = pane /\ can_control(f[c].role)}

MayAttach(c, role) == role = "controller" => Controllers(client, scene.closed) \ {c} = {}

\* The controllers that a takeover reduces to observers are told.
Revoked(k) == Sent([k EXCEPT !.role = "observer"], Note)

\* ClientMessage::PaneAttach: from then on the connection is a direct one,
\* even when the claim is refused.
attach_direct_client(c) ==
    /\ phase = "running" /\ client[c].mode = "accepted"
    /\ \E role \in Modes \ {"attached"} :
         IF MayAttach(c, role)
         THEN LET lost == IF role = "takeover" THEN Controllers(client, scene.closed) ELSE {}
                  k == [client[c] EXCEPT !.mode = "direct", !.role = role, !.pane = scene.closed]
              IN client' = [d \in Clients |->
                             IF d = c THEN full_repaint_direct_client(Sent(k, Note), scene)
                             ELSE IF d \in lost THEN Revoked(client[d]) ELSE client[d]]
         ELSE client' = [client EXCEPT ![c] = Sent([@ EXCEPT !.mode = "direct", !.pane = -1], Note)]
    /\ UNCHANGED <<scene, width, phase>>

\* The client has hung up, or was cut off: it is forgotten, and the others
\* may get wider.
remove_client(c) ==
    /\ phase = "running" /\ client[c].mode # "none"
    /\ Reshaped([client EXCEPT ![c] = Fresh], c)
    /\ UNCHANGED <<scene, phase>>

\* ClientMessage::OverlayVisible: while the client draws over the canvas no
\* picture is sent; one is when it stops.
OverlayVisible(c) ==
    /\ phase = "running" /\ "overlay" \in Surfaces /\ client[c].mode = "attached"
    /\ client' = [client EXCEPT ![c] = IF @.overlay
                                       THEN full_repaint_client([@ EXCEPT !.overlay = FALSE], scene)
                                       ELSE [@ EXCEPT !.overlay = TRUE]]
    /\ UNCHANGED <<scene, width, phase>>

\* An answer to something the client asked.
Reply(c) ==
    /\ phase = "running" /\ "note" \in Surfaces /\ client[c].mode # "none"
    /\ client' = [client EXCEPT ![c] = Sent(@, Note)]
    /\ UNCHANGED <<scene, width, phase>>

(***************************************************************************)
(* What changes the picture.                                               *)
(***************************************************************************)
\* The Pane's program writes; while the overview is open nothing is painted.
PaneOutput ==
    /\ phase = "running" /\ scene.body < MaxBody
    /\ scene' = [scene EXCEPT !.body = @ + 1]
    /\ client' = [c \in Clients |-> broadcast_pane_damage(client[c], scene')]
    /\ UNCHANGED <<width, phase>>

ChromeChanges ==
    /\ phase = "running" /\ "chrome" \in Surfaces /\ scene.chrome < MaxBody
    /\ scene' = [scene EXCEPT !.chrome = @ + 1]
    /\ client' = [c \in Clients |-> repaint_chrome_all(client[c], scene')]
    /\ UNCHANGED <<width, phase>>

\* Command::Overview opens the picker, or closes it.
Overview ==
    /\ phase = "running" /\ "picker" \in Surfaces
    /\ scene' = [scene EXCEPT !.picker = ~@]
    /\ client' = [c \in Clients |-> full_repaint_all(client[c], scene')]
    /\ UNCHANGED <<width, phase>>

\* A client that owes its picture to a later repaint keeps this one, which
\* still shows the closing Pane.
stash_final_frames(k, s) ==
    IF k.mode = "attached" /\ ~k.dead /\ k.repaint THEN [k EXCEPT !.final = build_full_frame(s)] ELSE k

\* The client was looking when the Pane said its last.
Heard(k, s) == IF k.mode = "attached" /\ ~k.overlay /\ ~s.picker THEN [k EXCEPT !.words = @ \cup {s.body}] ELSE k

\* A direct attachment to the closing Pane ends with it.
Ended(k, s) == IF Streams(k, s) THEN Sent(k, Exited) ELSE k

\* A Pane's program ends with some last output.  The Workspace goes on with
\* another Pane, or stops when there is none.
PaneEnds(stops) ==
    /\ phase = "running" /\ scene.closed < MaxCloses /\ scene.body + 2 <= MaxBody
    /\ LET said == [scene EXCEPT !.body = @ + 1]
           gone == [scene EXCEPT !.body = @ + 2, !.closed = @ + 1]
           f == [c \in Clients |->
                  Ended(stash_final_frames(broadcast_pane_damage(Heard(client[c], said), said), said), said)]
       IN /\ IF stops
             THEN scene' = said /\ phase' = "draining" /\ client' = f
             ELSE /\ scene' = gone /\ phase' = phase
                  /\ client' = [c \in Clients |-> full_repaint_all(f[c], gone)]
    /\ UNCHANGED width

\* ClientMessage::KillServer.
KillServer ==
    /\ phase = "running" /\ phase' = "draining"
    /\ UNCHANGED <<client, scene, width>>

(***************************************************************************)
(* The sockets.                                                            *)
(***************************************************************************)
\* What the writable half of on_client does once the queue is empty.
Drained(k) ==
    IF k.dead \/ wants_write(k) THEN k
    ELSE IF k.final # None
    THEN set_interest(flush_ready(queue_render([k EXCEPT !.final = None], k.final)))
    ELSE IF k.repaint THEN full_repaint_client([k EXCEPT !.repaint = FALSE], scene)
    ELSE k

on_client_writable(c) ==
    /\ phase = "running" /\ client[c].edge
    /\ client' = [client EXCEPT ![c] = Drained(set_interest(flush_ready([@ EXCEPT !.edge = FALSE])))]
    /\ UNCHANGED <<scene, width, phase>>

\* A frame on the client's screen; damage needs the version before it.
Applied(s, f) ==
    CASE f.kind = "full" -> f
      [] f.kind = "chrome" -> [s EXCEPT !.chrome = f.chrome]
      [] f.kind = "damage" -> [s EXCEPT !.body = IF @ \in {f.body - 1, f.body} THEN f.body ELSE -1]
      [] f.kind = "exited" -> [s EXCEPT !.kind = "exited"]
      [] OTHER -> s

Looked(k, f) == [k EXCEPT !.shown = Applied(k.shown, f),
                          !.seen = IF f.body = 0 THEN @ ELSE @ \cup {Applied(k.shown, f).body}]

\* The client reads what the kernel holds, which makes room.
ClientReads(c) ==
    /\ client[c].mode # "none" /\ client[c].used > 0
    /\ client' = [client EXCEPT ![c] =
         [FoldLeft(Looked, @, @.wire) EXCEPT !.wire = <<>>, !.used = 0, !.edge = client[c].write]]
    /\ UNCHANGED <<scene, width, phase>>

\* One client's turn in the drain: its queue, then the last picture of a
\* closed Pane, or the repaint, and then the notice.
DrainStep(k) ==
    LET d == flush_ready(k)
    IN IF d.dead \/ wants_write(d) THEN d
       ELSE IF d.final # None
       THEN flush_ready(queue_render([d EXCEPT !.final = None, !.repaint = FALSE], d.final))
       ELSE IF d.repaint THEN full_repaint_client([d EXCEPT !.repaint = FALSE], scene)
       ELSE IF ~d.notified THEN flush_ready(queue([d EXCEPT !.notified = TRUE], Exited))
       ELSE d

Owed(k) == k.mode # "none" /\ ~k.dead /\ (wants_write(k) \/ ~k.notified)

\* The server leaves once nobody is owed anything, or after CLIENT_DRAIN_BOUND.
drain_clients_before_exit ==
    /\ phase = "draining"
    /\ \/ /\ \E c \in Clients : Owed(client[c])
          /\ client' = [c \in Clients |-> IF client[c].mode = "none" THEN client[c]
                                          ELSE set_interest(DrainStep(client[c]))]
          /\ phase' = phase
       \/ phase' = "gone" /\ client' = client
    /\ UNCHANGED <<scene, width>>

Init ==
    /\ client = [c \in Clients |-> Fresh]
    /\ scene = [body |-> 1, chrome |-> 1, picker |-> FALSE, closed |-> 0]
    /\ phase = "running"
    /\ width = Max(Sizes)

Next ==
    \/ \E c \in Clients : \/ on_accept(c) \/ Attach(c) \/ Resize(c) \/ attach_direct_client(c)
                          \/ remove_client(c) \/ OverlayVisible(c) \/ Reply(c)
                          \/ on_client_writable(c) \/ ClientReads(c)
    \/ PaneOutput \/ ChromeChanges \/ Overview \/ KillServer
    \/ \E stops \in BOOLEAN : PaneEnds(stops)
    \/ drain_clients_before_exit

Spec == Init /\ [][Next]_vars

(***************************************************************************)
(* Properties.                                                             *)
(***************************************************************************)
\* Nothing is on its way to the client and no event will bring anything.
Settled(k) == ~k.dead /\ k.outbuf = <<>> /\ k.used = 0 /\ ~k.edge

\* Once nothing is on its way, an attached client shows the Workspace as it
\* is, and a direct one shows its Pane: a repaint that was put off while the
\* socket was slow is never forgotten, and damage is never painted on a
\* picture it does not continue (Client::queue_render, on_client).
PicturesCatchUp ==
    phase = "running" => \A c \in Clients : LET k == client[c] IN
        Settled(k) =>
            /\ k.mode = "attached" /\ ~k.overlay =>
                 k.shown.body = build_full_frame(scene).body /\ k.shown.chrome = build_full_frame(scene).chrome
            /\ Streams(k, scene) => k.shown.body = scene.body

\* A client that has been told the Workspace stopped has already shown the
\* last output of the Panes that closed (drain_clients_before_exit,
\* stash_final_frames).
LastWordsFirst ==
    \A c \in Clients : LET k == client[c] IN
        k.mode = "attached" /\ k.shown.kind = "exited" => k.words \subseteq k.seen

\* At most one direct client may type into a Pane, and the Workspace is never
\* wider than an attached terminal nor narrower than all of them
\* (attach_direct_client, recompute_client_geometry).
SharedFairly ==
    /\ Cardinality(Controllers(client, scene.closed)) <= 1
    /\ phase = "running" /\ (\A c \in Clients : ~client[c].dead) => width = recompute_client_geometry(client)

\* Repainting alone never cuts a client off (docs/14-ssh-remote-sessions.md).
NeverCutOff == \A c \in Clients : ~client[c].dead

=============================================================================
