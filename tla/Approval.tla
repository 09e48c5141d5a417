------------------------------ MODULE Approval ------------------------------
(***************************************************************************)
(* Permission automation (crates/uniterm-core/src/approval.rs, and          *)
(* approve_permission in server/waiting.rs) for one Pane: an agent that     *)
(* shows permission dialogs, the PTY in both directions, and a server that  *)
(* recognises a dialog on the screen it has read so far and types one key.  *)
(*                                                                         *)
(* A dialog is its number and the keys it got (ghosts), its fingerprint and *)
(* the selected row; row 0 is the affirmative choice and an arrow moves by  *)
(* one row.  Two dialogs may have one fingerprint.  The agent repaints      *)
(* whole dialogs, may close one by itself, and may follow one directly with *)
(* the next.  The human's own keys are left out.                            *)
(***************************************************************************)
EXTENDS Integers, Sequences, TLAPS

CONSTANTS Prompts,
          MaxDialogs, MaxInvocations, \* bounds: dialogs shown, bindings of the Pane
          Lag                         \* bound: repaints and keys on their way

VARIABLES
  dialog,     \* what the agent shows
  shown,      \* number of dialogs so far
  output,     \* repaints the server has not read
  keys,       \* keys the agent has not read, each with the dialog and invocation it is for
  screen,     \* what the server has read
  enabled,    \* AutoApproval: the mode
  delivered,  \* AutoApproval: the last delivery, or {}
  status,     \* the agent's smoothed status
  invocation, \* the Pane's timeline invocation
  owner,      \* the kernel confirms the agent's group owns the PTY
  manual,     \* ghost: what the human approved, by invocation and fingerprint
  enters,     \* ghost: submissions sent, by dialog number and invocation
  wrong       \* ghost: what went wrong, if anything

vars == <<dialog, shown, output, keys, screen, enabled, delivered, status, invocation,
          owner, manual, enters, wrong>>

Nothing == [n |-> 0]
Statuses == {"Working", "Permission"}

Init ==
  /\ dialog = Nothing /\ shown = 0 /\ output = <<>> /\ keys = <<>> /\ screen = Nothing
  /\ enabled = FALSE /\ delivered = {} /\ status = "Working" /\ invocation = 1
  /\ owner = TRUE /\ manual = {} /\ enters = {} /\ wrong = {}

-----------------------------------------------------------------------------
(* The agent.                                                              *)

Server == <<screen, enabled, delivered, status, invocation, owner, manual, enters>>

Show(d) ==
  /\ Len(output) < Lag
  /\ dialog' = d /\ output' = Append(output, d)
  /\ shown' = IF d # Nothing /\ d.n > shown THEN d.n ELSE shown

\* What may come after the dialog shown: nothing, or a new dialog.
Successors == {Nothing} \cup
  {[n |-> n, prompt |-> p, row |-> r, by |-> {}] :
     n \in {shown + 1} \cap 1 .. MaxDialogs, p \in Prompts, r \in {0, 2}}

Moved(row, key) == IF key = "Up" /\ row > -1 THEN row - 1
                   ELSE IF key = "Down" /\ row < 2 THEN row + 1 ELSE row

\* A dialog opens, closes by itself, or is followed by another.
AgentMoves ==
  /\ \E d \in Successors : d # dialog /\ Show(d)
  /\ UNCHANGED <<keys, wrong>> /\ UNCHANGED Server

AgentRepaints ==
  /\ Show(dialog)
  /\ UNCHANGED <<keys, wrong>> /\ UNCHANGED Server

\* The agent reads a key: an arrow moves the selection, Enter takes the row.
AgentReadsKey ==
  LET key == Head(keys) IN
  /\ keys # <<>> /\ keys' = Tail(keys)
  /\ \/ dialog = Nothing /\ UNCHANGED <<dialog, shown, output, wrong>>
     \/ /\ dialog # Nothing /\ key.key \in {"Up", "Down"}
        /\ Show([dialog EXCEPT !.row = Moved(@, key.key), !.by = @ \cup {key.for}])
        /\ UNCHANGED wrong
     \/ /\ dialog # Nothing /\ key.key = "Enter"
        /\ wrong' = IF dialog.by \cup {key.for} = {<<dialog.n, key.for[2]>>} /\ dialog.row # 0 THEN wrong \cup {"denied"} ELSE wrong
        /\ \E d \in Successors : Show(d)
  /\ UNCHANGED Server

-----------------------------------------------------------------------------
(* AutoApproval, as operators on the last delivery.                        *)

SameDialog(d, inv, prompt) == d.inv = inv /\ d.prompt = prompt

\* Slip: a repaint repeats the arrow.
NewWhileNavigating(del, inv, scr) ==
  \A d \in del : SameDialog(d, inv, scr.prompt) => d.nav # 0
\* is_new; navigation is the selected row, 0 for a submission.
IsNew(del, inv, scr) ==
  \A d \in del : SameDialog(d, inv, scr.prompt) => d.nav # 0 /\ d.nav # scr.row

\* pending_manual.
PendingManual(del) == \E d \in del : ~d.automatic /\ d.nav # 0

\* can_continue_manual.
CanContinueManual(del, inv, scr) ==
  \E d \in del : ~d.automatic /\ d.nav # 0 /\ SameDialog(d, inv, scr.prompt)

\* notify_agent_transition and observe: a visible dialog keeps its delivery.
Forget(del, s, scr) == IF s # "Permission" /\ scr = Nothing THEN {} ELSE del

-----------------------------------------------------------------------------
(* The server.                                                             *)

\* permission_approval: the key for the dialog on the screen.
Choice(scr) == IF scr.row = 0 THEN "Enter" ELSE IF scr.row > 0 THEN "Up" ELSE "Down"

\* approve_permission up to the delivery.
Approves(automatic, continuation, scr, del, s, inv) ==
  /\ automatic \/ s = "Permission"
  /\ owner /\ scr # Nothing
  /\ continuation => CanContinueManual(del, inv, scr)
  /\ IsNew(del, inv, scr)

\* The rest of approve_permission when the Pane's input queue accepts the key.
Deliver(automatic, scr, inv, asked) ==
  LET submits == scr.row = 0
      id      == <<scr.n, inv>>
      mine    == <<inv, scr.prompt>>
  IN  /\ Len(keys) < Lag
      /\ keys' = Append(keys, [key |-> Choice(scr), for |-> id])
      /\ delivered' = {[inv |-> inv, prompt |-> scr.prompt, nav |-> scr.row, automatic |-> automatic]}
      /\ enters' = IF submits THEN enters \cup {id} ELSE enters
      /\ manual' = IF submits THEN asked \ {mine} ELSE asked
      /\ wrong' = wrong \cup (IF submits /\ id \in enters THEN {"twice"} ELSE {})
                        \cup (IF ~automatic /\ mine \notin asked THEN {"unasked"} ELSE {})

Refused(del) == delivered' = del /\ UNCHANGED <<keys, enters, manual, wrong>>

\* maybe_auto_approve, with the mode, screen, deliveries, status and invocation
\* as they are at that point of the handler.
MaybeAutoApprove(mode, scr, del, s, inv, accepted) ==
  LET tries == (mode \/ PendingManual(del)) /\ Approves(mode, ~mode, scr, del, s, inv)
  IN  IF tries /\ accepted THEN Deliver(mode, scr, inv, manual) ELSE Refused(del)

\* Output of the Pane is read.
ReadOutput(accepted) ==
  /\ output # <<>> /\ output' = Tail(output) /\ screen' = Head(output)
  /\ MaybeAutoApprove(enabled, screen', delivered, status, invocation, accepted)
  /\ UNCHANGED <<dialog, shown, enabled, status, invocation, owner>>

\* A smoothed status transition, at any time after what it describes.
StatusMoves(s, accepted) ==
  /\ s # status /\ status' = s
  /\ MaybeAutoApprove(enabled, screen, Forget(delivered, s, screen), s, invocation, accepted)
  /\ UNCHANGED <<dialog, shown, output, screen, enabled, invocation, owner>>

\* A new identity is bound: a new timeline invocation, Starting.
Rebound(accepted) ==
  /\ invocation < MaxInvocations /\ invocation' = invocation + 1
  /\ status' = "Working" /\ owner' = TRUE
  /\ MaybeAutoApprove(enabled, screen, delivered, "Working", invocation', accepted)
  /\ UNCHANGED <<dialog, shown, output, screen, enabled>>

\* set_auto_approve; enabling inspects the Pane at once.
SetAutoApprove(accepted) ==
  /\ enabled' = ~enabled
  /\ IF enabled' THEN MaybeAutoApprove(TRUE, screen, delivered, status, invocation, accepted)
     ELSE Refused(delivered)
  /\ UNCHANGED <<dialog, shown, output, screen, status, invocation, owner>>

\* WaitingAction::Approve on a permission item.
ApproveItem ==
  /\ Approves(FALSE, FALSE, screen, delivered, status, invocation)
  /\ Deliver(FALSE, screen, invocation, manual \cup {<<invocation, screen.prompt>>})
  /\ UNCHANGED <<dialog, shown, output, screen, enabled, status, invocation, owner>>

\* The kernel's foreground group changes under the server.
OwnerMoves ==
  /\ owner' = ~owner
  /\ UNCHANGED <<dialog, shown, output, keys, screen, enabled, delivered, status, invocation,
                 manual, enters, wrong>>

Next ==
  \/ AgentMoves \/ AgentRepaints \/ AgentReadsKey
  \/ \E accepted \in BOOLEAN :
       \/ ReadOutput(accepted) \/ Rebound(accepted) \/ SetAutoApprove(accepted)
       \/ \E s \in Statuses : StatusMoves(s, accepted)
  \/ ApproveItem \/ OwnerMoves

Spec == Init /\ [][Next]_vars

-----------------------------------------------------------------------------
(* Properties.                                                             *)

\* "A repaint or toggle cannot resend a choice" (approval.rs): one dialog gets at
\* most one submission from one invocation, whatever is repainted, toggled or
\* reported late.
OneSubmission == "twice" \notin wrong

\* "It sends one arrow and waits for the changed screen": a dialog that got
\* only keys meant for it by one invocation is submitted on its affirmative row.
\* (A key still on its way when the agent closes its dialog reaches the next one:
\* the terminal gives the server no way to take it back.)
SubmitsTheAffirmative == "denied" \notin wrong

\* "A manual approval authorizes navigation of only its original dialog and
\* invocation": with the mode off every key belongs to an approval the human gave
\* and that no submission has used up.
ManualStaysOnItsDialog == "unasked" \notin wrong

-----------------------------------------------------------------------------
(* The invariant: the keys, the repaints on their way and the last delivery   *)
(* tell one story of the dialog.                                              *)

Ids     == Nat \X Nat
Screens == {Nothing} \cup
  [n : Nat \ {0}, prompt : Prompts, row : -1 .. 2, by : SUBSET Ids]
Keys       == [key : {"Up", "Down", "Enter"}, for : Ids]
Deliveries == [inv : Nat, prompt : Prompts, nav : -1 .. 2, automatic : BOOLEAN]

\* The screen and the repaints on their way.
Line(scr, out) == [k \in 0 .. Len(out) |-> IF k = 0 THEN scr ELSE out[k]]

Typed(scr, out, d, top, ks, del, inv, ent) ==
  /\ scr \in Screens /\ out \in Seq(Screens) /\ d \in Screens /\ top \in Nat
  /\ ks \in Seq(Keys) /\ inv \in Nat /\ ent \subseteq Ids
  /\ del \subseteq Deliveries /\ \A x, y \in del : x = y

\* A dialog stands in one stretch of the line, with one fingerprint; the last place
\* is what the agent shows.
Lined(v, n, d, top) ==
  /\ v[n] = d
  /\ \A k \in 0 .. n : v[k].n <= top
  /\ \A j, k, l \in 0 .. n : j < k /\ k < l /\ v[j].n = v[l].n /\ v[j].n # 0 => v[k].n = v[j].n
  /\ \A j, k \in 0 .. n : v[j].n = v[k].n /\ v[j].n # 0 => v[j].prompt = v[k].prompt

\* Keys and submissions name dialogs shown and invocations bound before.
Known(ids, top, inv) == \A x \in ids : x[1] <= top /\ x[2] <= inv
Fors(ks) == {ks[q].for : q \in DOMAIN ks}

\* A dialog that got no key has not moved.
Untouched(v, n, d) ==
  d.n # 0 /\ d.by = {} => \A k \in 0 .. n : v[k].n = d.n => v[k].row = d.row

\* The last delivery was for this dialog, on this row (0 for a submission).
Waits(del, inv, prompt, row) == \E y \in del : y.inv = inv /\ y.prompt = prompt /\ y.nav = row

\* What a submission leaves: it is remembered for as long as its dialog is on the
\* screen, and the dialog does not come back.
Submitted(v, n, del, inv, ent) ==
  \A x \in ent :
    /\ x[1] # 0
    /\ x[2] = inv => \/ v[0].n = x[1] /\ Waits(del, inv, v[0].prompt, 0)
                     \/ \A k \in 0 .. n : v[k].n # x[1]

\* A submission on its way to a dialog that got only keys of one invocation is the
\* only key on its way, and the affirmative row is selected.
EnterLast(d, ks) ==
  \A p \in DOMAIN ks, i \in Nat :
    /\ d.n # 0 /\ ks[p].key = "Enter"
    /\ d.by \cup {ks[q].for : q \in 1 .. p} = {<<d.n, i>>}
    => p = 1 /\ d.row = 0

\* Between arrows: the screen will show the row, or one arrow is on its way, or its
\* effect is.
Settled(v, n, d, ks) ==
  ks = <<>> /\ \A k \in 0 .. n : v[k].n = d.n => v[k].row = d.row
Asked(v, n, d, ks, del, inv) ==
  /\ Len(ks) = 1 /\ ks[1].key = (IF d.row > 0 THEN "Up" ELSE "Down") /\ d.row # 0
  /\ Waits(del, inv, d.prompt, d.row)
  /\ \A k \in 0 .. n : v[k].n = d.n /\ v[k].row = d.row
Moving(v, n, d, ks, del, inv) ==
  /\ ks = <<>>
  /\ \E r \in -1 .. 2 :
       /\ r # d.row /\ r # 0 /\ Waits(del, inv, d.prompt, r)
       /\ \A k \in 0 .. n : v[k].n = d.n /\ v[k].row \in {r, d.row}
       /\ \A j, k \in 0 .. n : j < k /\ v[j].row = d.row => v[k].row = d.row

Paced(v, n, d, ks, del, inv, ent) ==
  /\ d.n # 0 /\ d.by \cup Fors(ks) \subseteq {<<d.n, inv>>} /\ <<d.n, inv>> \notin ent
  => \/ Settled(v, n, d, ks) \/ Asked(v, n, d, ks, del, inv) \/ Moving(v, n, d, ks, del, inv)

Right(scr, out, d, top, ks, del, inv, ent) ==
  LET v == Line(scr, out)
      n == Len(out)
  IN  /\ Typed(scr, out, d, top, ks, del, inv, ent) /\ Lined(v, n, d, top)
      /\ Known(Fors(ks) \cup ent, top, inv) /\ (d.n # 0 => Known(d.by, top, inv))
      /\ Untouched(v, n, d) /\ Submitted(v, n, del, inv, ent)
      /\ EnterLast(d, ks) /\ Paced(v, n, d, ks, del, inv, ent)

\* With the mode off, a navigation under way was approved by the human.
Authorised(del, man) ==
  \A y \in del : ~y.automatic /\ y.nav # 0 => <<y.inv, y.prompt>> \in man

IInv ==
  /\ Right(screen, output, dialog, shown, keys, delivered, invocation, enters)
  /\ Authorised(delivered, manual) /\ enabled \in BOOLEAN /\ wrong = {}

\* A screen without a dialog is the one numbered 0.
LEMMA ScreenFacts ==
  ASSUME NEW s \in Screens
  PROVE  /\ s.n \in Nat /\ (s = Nothing <=> s.n = 0)
         /\ s.n # 0 => /\ s.prompt \in Prompts /\ s.row \in -1 .. 2 /\ s.by \subseteq Ids
                       /\ s = [n |-> s.n, prompt |-> s.prompt, row |-> s.row, by |-> s.by]
BY DEF Screens, Nothing

\* The line and its places.
LEMMA LineFacts ==
  ASSUME NEW scr \in Screens, NEW out \in Seq(Screens)
  PROVE  /\ Len(out) \in Nat /\ Line(scr, out)[0] = scr
         /\ \A k \in 0 .. Len(out) : Line(scr, out)[k] \in Screens
<1>1. Len(out) \in Nat /\ \A k \in 1 .. Len(out) : out[k] \in Screens
  OBVIOUS
<1>2. \A k \in 0 .. Len(out) : k = 0 \/ k \in 1 .. Len(out)
  BY <1>1
<1> QED
  BY <1>1, <1>2 DEF Line

\* The agent paints d: one more place.
Painted(v, n, w, d) ==
  w[n + 1] = d /\ \A k \in 0 .. n : w[k] = v[k]

LEMMA LinePainted ==
  ASSUME NEW scr \in Screens, NEW out \in Seq(Screens), NEW d \in Screens
  PROVE  /\ Append(out, d) \in Seq(Screens) /\ Len(Append(out, d)) = Len(out) + 1
         /\ Painted(Line(scr, out), Len(out), Line(scr, Append(out, d)), d)
<1> DEFINE n == Len(out)
           o == Append(out, d)
<1>1. /\ n \in Nat /\ o \in Seq(Screens) /\ Len(o) = n + 1 /\ o[n + 1] = d
      /\ \A k \in 1 .. n : o[k] = out[k]
  OBVIOUS
<1> HIDE DEF o
<1>2. \A k \in 0 .. n : k \in 0 .. n + 1 /\ (k = 0 \/ k \in 1 .. n)
  BY <1>1
<1>3. n + 1 \in 0 .. n + 1 /\ n + 1 # 0
  BY <1>1
<1> QED
  BY <1>1, <1>2, <1>3 DEF Line, Painted, o

\* The server reads: one place fewer, in front.
Shifted(v, n, w) == \A k \in 0 .. n - 1 : k + 1 \in 0 .. n /\ w[k] = v[k + 1]

LEMMA LineShifted ==
  ASSUME NEW scr \in Screens, NEW out \in Seq(Screens), out # <<>>
  PROVE  /\ Head(out) \in Screens /\ Tail(out) \in Seq(Screens)
         /\ Len(out) \in Nat \ {0} /\ Len(Tail(out)) = Len(out) - 1
         /\ Shifted(Line(scr, out), Len(out), Line(Head(out), Tail(out)))
<1> DEFINE n == Len(out)
           o == Tail(out)
<1>1. /\ n \in Nat \ {0} /\ o \in Seq(Screens) /\ Len(o) = n - 1 /\ Head(out) = out[1]
      /\ out[1] \in Screens /\ \A k \in 1 .. n - 1 : o[k] = out[k + 1]
  OBVIOUS
<1> HIDE DEF o, n
<1>2. \A k \in 0 .. n - 1 : k + 1 \in 0 .. n /\ k + 1 # 0 /\ (k = 0 \/ k \in 1 .. n - 1)
  BY <1>1
<1>3. \A k \in 0 .. n - 1 : Line(Head(out), o)[k] = IF k = 0 THEN out[1] ELSE o[k]
  BY <1>1 DEF Line
<1>4. \A k \in 0 .. n : Line(scr, out)[k] = IF k = 0 THEN scr ELSE out[k]
  BY DEF Line, n
<1>5. \A k \in 0 .. n - 1 : Line(Head(out), o)[k] = out[k + 1]
  BY <1>1, <1>2, <1>3
<1>6. \A k \in 0 .. n - 1 : Line(scr, out)[k + 1] = out[k + 1]
  BY <1>2, <1>4
<1>7. Shifted(Line(scr, out), n, Line(Head(out), o))
  BY <1>2, <1>5, <1>6 DEF Shifted
<1> QED
  BY <1>1, <1>7 DEF o, n

\* Whom the keys on their way are for; the first key leaves the others.
LEMMA ForsFacts ==
  ASSUME NEW ks \in Seq(Keys)
  PROVE  /\ Fors(ks) \subseteq Ids /\ \A x \in Fors(ks) : x[1] \in Nat /\ x[2] \in Nat
         /\ ks # <<>> => /\ Tail(ks) \in Seq(Keys) /\ Head(ks) \in Keys /\ Head(ks) = ks[1]
                         /\ Head(ks).for \in Fors(ks) /\ Fors(Tail(ks)) \subseteq Fors(ks)
<1>1. Fors(ks) \subseteq Ids
  <2>1. \A q \in DOMAIN ks : ks[q] \in Keys
    OBVIOUS
  <2>2. \A k \in Keys : k.for \in Ids
    BY DEF Keys
  <2> QED
    BY <2>1, <2>2 DEF Fors
<1>2. ASSUME ks # <<>>
      PROVE  /\ Tail(ks) \in Seq(Keys) /\ Head(ks) \in Keys /\ Head(ks) = ks[1]
             /\ Head(ks).for \in Fors(ks) /\ Fors(Tail(ks)) \subseteq Fors(ks)
  <2>1. /\ Tail(ks) \in Seq(Keys) /\ Head(ks) \in Keys /\ Head(ks) = ks[1] /\ 1 \in DOMAIN ks
        /\ \A q \in DOMAIN Tail(ks) : q + 1 \in DOMAIN ks /\ Tail(ks)[q] = ks[q + 1]
    BY <1>2
  <2> QED
    BY <2>1 DEF Fors
<1> QED
  BY <1>1, <1>2 DEF Ids

-----------------------------------------------------------------------------
(* The agent.                                                              *)

\* The next dialog, or none: it has got no key, and none on its way is for it.
LEMMA NextDialogKeeps ==
  ASSUME NEW scr, NEW out, NEW d, NEW top, NEW ks, NEW del, NEW inv, NEW ent,
         Right(scr, out, d, top, ks, del, inv, ent),
         NEW d2 \in Screens, d2.n = 0 \/ d2.n = top + 1, d2.n # 0 => d2.by = {},
         NEW ks2 \in Seq(Keys), Fors(ks2) \subseteq Fors(ks),
         NEW top2, top2 = IF d2.n # 0 THEN d2.n ELSE top
  PROVE  Right(scr, Append(out, d2), d2, top2, ks2, del, inv, ent)
<1> DEFINE v == Line(scr, out)
           n == Len(out)
           o == Append(out, d2)
           w == Line(scr, o)
<1>0. /\ Typed(scr, out, d, top, ks, del, inv, ent) /\ Lined(v, n, d, top)
      /\ Known(Fors(ks) \cup ent, top, inv) /\ Submitted(v, n, del, inv, ent)
  BY DEF Right
<1>1. /\ scr \in Screens /\ out \in Seq(Screens) /\ top \in Nat /\ inv \in Nat /\ ent \subseteq Ids
      /\ ks \in Seq(Keys)
  BY <1>0 DEF Typed
<1>2. o \in Seq(Screens) /\ Len(o) = n + 1 /\ Painted(v, n, w, d2)
  BY <1>1, LinePainted
<1>3. n \in Nat /\ v[0] = scr /\ \A k \in 0 .. n : v[k] \in Screens
  BY <1>1, LineFacts
<1>4. \A k \in 0 .. n : v[k].n \in Nat /\ v[k].n <= top
  BY <1>0, <1>3, ScreenFacts DEF Lined
<1> HIDE DEF v, n, w, o
<1>5. w[n + 1] = d2 /\ (\A k \in 0 .. n : w[k] = v[k]) /\ \A k \in 0 .. n + 1 : k \in 0 .. n \/ k = n + 1
  BY <1>2, <1>3 DEF Painted
<1>6. d2.n \in Nat /\ top2 \in Nat /\ top <= top2 /\ d2.n <= top2
  BY <1>1, ScreenFacts
<1>7. \A k \in 0 .. n : d2.n # 0 => w[k].n # d2.n
  BY <1>1, <1>4, <1>5
<1>8. Lined(w, n + 1, d2, top2)
  <2>1. \A k \in 0 .. n + 1 : w[k].n <= top2
    BY <1>1, <1>4, <1>5, <1>6
  <2>2. ASSUME NEW j \in 0 .. n + 1, NEW k \in 0 .. n + 1, NEW l \in 0 .. n + 1, j < k, k < l,
               w[j].n = w[l].n, w[j].n # 0
        PROVE  w[k].n = w[j].n
    <3>1. j \in 0 .. n /\ k \in 0 .. n
      BY <1>3, <2>2
    <3>2. l \in 0 .. n
      BY <1>5, <1>7, <2>2, <3>1
    <3> QED
      BY <1>0, <1>5, <2>2, <3>1, <3>2 DEF Lined
  <2>3. ASSUME NEW j \in 0 .. n + 1, NEW k \in 0 .. n + 1, w[j].n = w[k].n, w[j].n # 0
        PROVE  w[j].prompt = w[k].prompt
    <3>1. CASE j = n + 1 \/ k = n + 1
      BY <1>5, <1>7, <2>3, <3>1
    <3>2. CASE j \in 0 .. n /\ k \in 0 .. n
      BY <1>0, <1>5, <2>3, <3>2 DEF Lined
    <3> QED
      BY <1>5, <3>1, <3>2
  <2> QED
    BY <1>5, <2>1, <2>2, <2>3 DEF Lined
<1>9. Known(Fors(ks2) \cup ent, top2, inv)
  <2>1. \A x \in Fors(ks) \cup ent : x[1] \in Nat
    BY <1>1, ForsFacts DEF Ids
  <2> QED
    BY <1>0, <1>1, <1>6, <2>1 DEF Known
<1>10. d2.n # 0 => Known(d2.by, top2, inv)
  BY DEF Known
<1>11. Untouched(w, n + 1, d2)
  BY <1>5, <1>7 DEF Untouched
<1>12. \A x \in Fors(ks) \cup ent : d2.n # 0 => x[1] # d2.n
  <2>1. \A x \in Fors(ks) \cup ent : x[1] \in Nat
    BY <1>1, ForsFacts DEF Ids
  <2> QED
    BY <1>0, <1>1, <2>1 DEF Known
<1>13. Submitted(w, n + 1, del, inv, ent)
  <2> SUFFICES ASSUME NEW x \in ent
               PROVE  /\ x[1] # 0
                      /\ x[2] = inv => \/ w[0].n = x[1] /\ Waits(del, inv, w[0].prompt, 0)
                                       \/ \A k \in 0 .. n + 1 : w[k].n # x[1]
    BY DEF Submitted
  <2>1. /\ x[1] # 0
        /\ x[2] = inv => \/ v[0].n = x[1] /\ Waits(del, inv, v[0].prompt, 0)
                         \/ \A k \in 0 .. n : v[k].n # x[1]
    BY <1>0 DEF Submitted
  <2>2. d2.n # x[1]
    BY <1>12, <2>1
  <2>3. w[0] = v[0]
    BY <1>3, <1>5
  <2> QED
    BY <1>5, <2>1, <2>2, <2>3
<1>14. EnterLast(d2, ks2)
  <2> SUFFICES ASSUME NEW p \in DOMAIN ks2, NEW i \in Nat, d2.n # 0,
                      d2.by \cup {ks2[q].for : q \in 1 .. p} = {<<d2.n, i>>}
               PROVE  FALSE
    BY DEF EnterLast
  <2>1. p \in 1 .. p
    OBVIOUS
  <2>2. ks2[p].for = <<d2.n, i>>
    BY <2>1
  <2>3. ks2[p].for \in Fors(ks)
    BY Zenon DEF Fors
  <2> QED
    BY <1>12, <2>2, <2>3
<1>15. Paced(w, n + 1, d2, ks2, del, inv, ent)
  <2> SUFFICES ASSUME d2.n # 0, d2.by \cup Fors(ks2) \subseteq {<<d2.n, inv>>}
               PROVE  Settled(w, n + 1, d2, ks2)
    BY DEF Paced
  <2>1. ks2 = <<>>
    <3> SUFFICES ASSUME ks2 # <<>> PROVE FALSE
      OBVIOUS
    <3>1. 1 \in DOMAIN ks2
      OBVIOUS
    <3>2. ks2[1].for \in Fors(ks2)
      BY <3>1 DEF Fors
    <3>3. ks2[1].for = <<d2.n, inv>> /\ ks2[1].for \in Fors(ks)
      BY <3>2
    <3> QED
      BY <1>12, <3>3
  <2> QED
    BY <1>5, <1>7, <2>1 DEF Settled
<1>16. Typed(scr, o, d2, top2, ks2, del, inv, ent)
  BY <1>0, <1>2, <1>6 DEF Typed
<1> QED
  BY <1>2, <1>8, <1>9, <1>10, <1>11, <1>13, <1>14, <1>15, <1>16 DEF Right, w, o

\* The dialog shown is painted again, as it is or on another row: it stays one
\* stretch of the line.
LEMMA SameDialogLined ==
  ASSUME NEW v, NEW w, NEW n \in Nat, NEW d, NEW top \in Nat, NEW d2,
         Lined(v, n, d, top), Painted(v, n, w, d2),
         d2.n = d.n, d.n # 0 => d2.prompt = d.prompt
  PROVE  Lined(w, n + 1, d2, top)
<1>1. /\ v[n] = d /\ n \in 0 .. n /\ n + 1 \in 0 .. n + 1 /\ w[n + 1] = d2
      /\ \A k \in 0 .. n : w[k] = v[k]
  BY DEF Lined, Painted
<1>2. \A k \in 0 .. n + 1 : k \in 0 .. n \/ k = n + 1
  OBVIOUS
<1>3. \A k \in 0 .. n + 1 : w[k].n <= top
  BY <1>1, <1>2 DEF Lined
<1>4. ASSUME NEW j \in 0 .. n + 1, NEW k \in 0 .. n + 1, NEW l \in 0 .. n + 1, j < k, k < l,
             w[j].n = w[l].n, w[j].n # 0
      PROVE  w[k].n = w[j].n
  <2>1. j \in 0 .. n /\ k \in 0 .. n
    BY <1>4
  <2>2. CASE l \in 0 .. n
    BY <1>1, <1>4, <2>1, <2>2 DEF Lined
  <2>3. CASE l = n + 1 /\ k = n
    BY <1>1, <1>4, <2>1, <2>3
  <2>4. CASE l = n + 1 /\ k < n
    <3>1. v[j].n = v[n].n /\ v[j].n # 0
      BY <1>1, <1>4, <2>1, <2>4
    <3> QED
      BY <1>1, <1>4, <2>1, <2>4, <3>1 DEF Lined
  <2> QED
    BY <1>2, <2>1, <2>2, <2>3, <2>4
<1>5. ASSUME NEW j \in 0 .. n + 1, NEW k \in 0 .. n + 1, w[j].n = w[k].n, w[j].n # 0
      PROVE  w[j].prompt = w[k].prompt
  <2>1. \A i \in 0 .. n : v[i].n = d.n /\ d.n # 0 => v[i].prompt = d2.prompt
    BY <1>1 DEF Lined
  <2>2. CASE j \in 0 .. n /\ k \in 0 .. n
    BY <1>1, <1>5, <2>2 DEF Lined
  <2> QED
    BY <1>1, <1>2, <1>5, <2>1, <2>2
<1> QED
  BY <1>1, <1>3, <1>4, <1>5 DEF Lined

\* A dialog that was followed does not come back by being painted again.
LEMMA SameDialogSubmitted ==
  ASSUME NEW v, NEW w, NEW n \in Nat, NEW d, NEW top, NEW d2, NEW del, NEW inv, NEW ent,
         Lined(v, n, d, top), Painted(v, n, w, d2), d2.n = d.n, Submitted(v, n, del, inv, ent)
  PROVE  Submitted(w, n + 1, del, inv, ent)
<1>1. /\ v[n] = d /\ n \in 0 .. n /\ 0 \in 0 .. n /\ w[n + 1] = d2
      /\ \A k \in 0 .. n : w[k] = v[k]
  BY DEF Lined, Painted
<1>2. \A k \in 0 .. n + 1 : k \in 0 .. n \/ k = n + 1
  OBVIOUS
<1>3. w[0] = v[0]
  BY <1>1
<1>4. \A x \in ent : (\A k \in 0 .. n : v[k].n # x[1]) => \A k \in 0 .. n + 1 : w[k].n # x[1]
  BY <1>1, <1>2
<1> QED
  BY <1>3, <1>4 DEF Submitted

\* AgentRepaints.
LEMMA RepaintKeeps ==
  ASSUME NEW scr, NEW out, NEW d, NEW top, NEW ks, NEW del, NEW inv, NEW ent,
         Right(scr, out, d, top, ks, del, inv, ent)
  PROVE  Right(scr, Append(out, d), d, top, ks, del, inv, ent)
<1> DEFINE v == Line(scr, out)
           n == Len(out)
           o == Append(out, d)
           w == Line(scr, o)
<1>0. /\ Typed(scr, out, d, top, ks, del, inv, ent) /\ Lined(v, n, d, top)
      /\ Known(Fors(ks) \cup ent, top, inv) /\ (d.n # 0 => Known(d.by, top, inv))
      /\ Untouched(v, n, d) /\ Submitted(v, n, del, inv, ent)
      /\ EnterLast(d, ks) /\ Paced(v, n, d, ks, del, inv, ent)
  BY DEF Right
<1>1. scr \in Screens /\ out \in Seq(Screens) /\ d \in Screens /\ top \in Nat /\ n \in Nat
  BY <1>0 DEF Typed
<1>2. o \in Seq(Screens) /\ Len(o) = n + 1 /\ Painted(v, n, w, d)
  BY <1>1, LinePainted
<1> HIDE DEF v, n, w, o
<1>3. Lined(w, n + 1, d, top)
  BY <1>0, <1>1, <1>2, SameDialogLined
<1>4. Submitted(w, n + 1, del, inv, ent)
  BY <1>0, <1>1, <1>2, SameDialogSubmitted
<1>5. /\ w[n + 1] = d /\ (\A k \in 0 .. n : w[k] = v[k])
      /\ \A k \in 0 .. n + 1 : k \in 0 .. n \/ k = n + 1
  BY <1>1, <1>2 DEF Painted
<1>6. Untouched(w, n + 1, d)
  BY <1>0, <1>5 DEF Untouched
<1>7. Settled(v, n, d, ks) => Settled(w, n + 1, d, ks)
  BY <1>5 DEF Settled
<1>8. Asked(v, n, d, ks, del, inv) => Asked(w, n + 1, d, ks, del, inv)
  BY <1>5 DEF Asked
<1>9. ASSUME Moving(v, n, d, ks, del, inv)
      PROVE  Moving(w, n + 1, d, ks, del, inv)
  <2>1. PICK r \in -1 .. 2 :
          /\ r # d.row /\ r # 0 /\ Waits(del, inv, d.prompt, r)
          /\ \A k \in 0 .. n : v[k].n = d.n /\ v[k].row \in {r, d.row}
          /\ \A j, k \in 0 .. n : j < k /\ v[j].row = d.row => v[k].row = d.row
    BY <1>9 DEF Moving
  <2>2. \A k \in 0 .. n + 1 : w[k].n = d.n /\ w[k].row \in {r, d.row}
    BY <1>5, <2>1
  <2>3. ASSUME NEW j \in 0 .. n + 1, NEW k \in 0 .. n + 1, j < k, w[j].row = d.row
        PROVE  w[k].row = d.row
    <3>1. j \in 0 .. n
      BY <1>1, <2>3
    <3> QED
      BY <1>5, <2>1, <2>3, <3>1
  <2>4. ks = <<>>
    BY Zenon, <1>9 DEF Moving
  <2> QED
    BY <2>1, <2>2, <2>3, <2>4 DEF Moving
<1>10. Paced(w, n + 1, d, ks, del, inv, ent)
  BY Zenon, <1>0, <1>7, <1>8, <1>9 DEF Paced
<1>11. Typed(scr, o, d, top, ks, del, inv, ent)
  BY Zenon, <1>0, <1>2 DEF Typed
<1> QED
  BY Zenon, <1>0, <1>2, <1>3, <1>4, <1>6, <1>10, <1>11 DEF Right, w, o

\* A key read by no dialog is gone.
LEMMA KeyLostKeeps ==
  ASSUME NEW scr, NEW out, NEW d, NEW top, NEW ks, NEW del, NEW inv, NEW ent,
         Right(scr, out, d, top, ks, del, inv, ent), d.n = 0, ks # <<>>
  PROVE  Right(scr, out, d, top, Tail(ks), del, inv, ent)
<1>1. ks \in Seq(Keys)
  BY DEF Right, Typed
<1>2. Tail(ks) \in Seq(Keys) /\ Fors(Tail(ks)) \subseteq Fors(ks)
  BY <1>1, ForsFacts
<1>3. Typed(scr, out, d, top, Tail(ks), del, inv, ent)
  BY <1>2 DEF Right, Typed
<1>4. Known(Fors(Tail(ks)) \cup ent, top, inv)
  BY <1>2 DEF Right, Known
<1>5. EnterLast(d, Tail(ks)) /\ Paced(Line(scr, out), Len(out), d, Tail(ks), del, inv, ent)
  BY DEF EnterLast, Paced
<1> QED
  BY <1>3, <1>4, <1>5 DEF Right

\* An arrow moves the row it was sent for.
LEMMA ArrowMoves ==
  ASSUME NEW row \in -1 .. 2
  PROVE  /\ \A key : Moved(row, key) \in -1 .. 2
         /\ row # 0 => Moved(row, IF row > 0 THEN "Up" ELSE "Down") # row
BY DEF Moved

\* An arrow is read: whoever asked for it waits for the new row.
LEMMA ArrowKeeps ==
  ASSUME NEW scr, NEW out, NEW d, NEW top, NEW ks, NEW del, NEW inv, NEW ent,
         Right(scr, out, d, top, ks, del, inv, ent), d.n # 0, ks # <<>>, NEW d2,
         d2 = [n |-> d.n, prompt |-> d.prompt, row |-> Moved(d.row, Head(ks).key),
               by |-> d.by \cup {Head(ks).for}]
  PROVE  Right(scr, Append(out, d2), d2, top, Tail(ks), del, inv, ent)
<1> DEFINE v == Line(scr, out)
           n == Len(out)
           o == Append(out, d2)
           w == Line(scr, o)
           ks2 == Tail(ks)
           f == Head(ks).for
<1>0. /\ Typed(scr, out, d, top, ks, del, inv, ent) /\ Lined(v, n, d, top)
      /\ Known(Fors(ks) \cup ent, top, inv) /\ Known(d.by, top, inv)
      /\ Submitted(v, n, del, inv, ent)
      /\ EnterLast(d, ks) /\ Paced(v, n, d, ks, del, inv, ent)
  BY Zenon DEF Right
<1>1. /\ scr \in Screens /\ out \in Seq(Screens) /\ d \in Screens /\ top \in Nat /\ n \in Nat
      /\ ks \in Seq(Keys)
  <2>1. /\ scr \in Screens /\ out \in Seq(Screens) /\ d \in Screens /\ top \in Nat
        /\ ks \in Seq(Keys)
    BY Zenon, <1>0 DEF Typed
  <2>2. n \in Nat
    BY <2>1
  <2> QED
    BY Zenon, <2>1, <2>2
<1>2. /\ ks2 \in Seq(Keys) /\ f \in Fors(ks) /\ f \in Ids /\ Fors(ks2) \subseteq Fors(ks)
      /\ Head(ks) = ks[1]
  BY <1>1, ForsFacts
<1>3. /\ d.n \in Nat /\ d.prompt \in Prompts /\ d.row \in -1 .. 2 /\ d.by \subseteq Ids
      /\ Moved(d.row, Head(ks).key) \in -1 .. 2
  BY <1>1, ScreenFacts, ArrowMoves
<1>4. /\ d2.n = d.n /\ d2.prompt = d.prompt /\ d2.row = Moved(d.row, Head(ks).key)
      /\ d2.by = d.by \cup {f}
  OBVIOUS
<1>5. d2 \in Screens
  BY <1>2, <1>3 DEF Screens
<1>6. o \in Seq(Screens) /\ Len(o) = n + 1 /\ Painted(v, n, w, d2)
  BY <1>1, <1>5, LinePainted
<1>7. \A q \in DOMAIN ks2 : q \in Nat \ {0} /\ q + 1 \in DOMAIN ks /\ ks2[q] = ks[q + 1]
  BY <1>1
<1> HIDE DEF v, n, w, o, ks2, f
<1>8. Lined(w, n + 1, d2, top)
  BY Zenon, <1>0, <1>1, <1>4, <1>6, SameDialogLined
<1>9. Submitted(w, n + 1, del, inv, ent)
  BY <1>0, <1>1, <1>4, <1>6, SameDialogSubmitted
<1>10. Known(Fors(ks2) \cup ent, top, inv) /\ Known(d2.by, top, inv)
  BY <1>0, <1>2, <1>4 DEF Known
<1>11. Untouched(w, n + 1, d2)
  BY <1>4 DEF Untouched
<1>12. EnterLast(d2, ks2)
  <2> SUFFICES ASSUME NEW p \in DOMAIN ks2, NEW i \in Nat, ks2[p].key = "Enter",
                      d2.by \cup {ks2[q].for : q \in 1 .. p} = {<<d2.n, i>>}
               PROVE  FALSE
    BY DEF EnterLast
  <2>1. p \in Nat \ {0} /\ p + 1 \in DOMAIN ks /\ ks[p + 1].key = "Enter"
    BY <1>7
  <2>2. p \in DOMAIN ks2 /\ \A q \in 1 .. p : q \in DOMAIN ks2
    BY <1>2
  <2>3. \A q \in 1 .. p : ks2[q].for = <<d.n, i>>
    BY <1>4
  <2>4. f = <<d.n, i>> /\ \A x \in d.by : x = <<d.n, i>>
    BY <1>4
  <2>5. \A q \in 1 .. p + 1 : q = 1 \/ (q - 1 \in 1 .. p /\ q = (q - 1) + 1)
    BY <2>1
  <2>6. \A q \in 1 .. p + 1 : ks[q].for = <<d.n, i>>
    BY <1>2, <1>7, <2>2, <2>3, <2>4, <2>5 DEF f
  <2>7. 1 \in 1 .. p + 1
    BY <2>1
  <2>8. d.by \cup {ks[q].for : q \in 1 .. p + 1} = {<<d.n, i>>}
    BY Zenon, <2>4, <2>6, <2>7
  <2>9. p + 1 = 1
    BY Zenon, <1>0, <2>1, <2>8 DEF EnterLast
  <2> QED
    BY <2>1, <2>9
<1>13. Paced(w, n + 1, d2, ks2, del, inv, ent)
  <2> SUFFICES ASSUME d2.by \cup Fors(ks2) \subseteq {<<d2.n, inv>>}, <<d2.n, inv>> \notin ent
               PROVE  Moving(w, n + 1, d2, ks2, del, inv)
    BY Zenon DEF Paced
  <2>1. d.by \cup Fors(ks) \subseteq {<<d.n, inv>>}
    <3>1. \A q \in DOMAIN ks : q = 1 \/ q - 1 \in DOMAIN ks2
      BY <1>1 DEF ks2
    <3>2. \A q \in DOMAIN ks : ks[q].for = f \/ ks[q].for \in Fors(ks2)
      <4> SUFFICES ASSUME NEW q \in DOMAIN ks, q # 1 PROVE ks[q].for \in Fors(ks2)
        BY <1>2 DEF f
      <4>1. q - 1 \in DOMAIN ks2 /\ (q - 1) + 1 = q
        BY <1>1, <3>1
      <4>2. ks2[q - 1] = ks[q]
        BY <1>7, <4>1
      <4> QED
        BY <4>1, <4>2 DEF Fors
    <3> QED
      BY <1>4, <3>2 DEF Fors
  <2>2. Asked(v, n, d, ks, del, inv)
    <3>1. \/ Settled(v, n, d, ks) \/ Asked(v, n, d, ks, del, inv) \/ Moving(v, n, d, ks, del, inv)
      BY Zenon, <1>0, <1>4, <2>1 DEF Paced
    <3> QED
      BY Zenon, <3>1 DEF Settled, Moving
  <2>3. /\ Len(ks) = 1 /\ Head(ks).key = (IF d.row > 0 THEN "Up" ELSE "Down") /\ d.row # 0
        /\ Waits(del, inv, d.prompt, d.row)
        /\ \A k \in 0 .. n : v[k].n = d.n /\ v[k].row = d.row
    BY <1>2, <2>2 DEF Asked
  <2>4. ks2 = <<>>
    <3>1. ks2 \in Seq(Keys) /\ Len(ks2) = Len(ks) - 1
      BY <1>1, <1>2 DEF ks2
    <3>2. Len(ks2) = 0
      BY <2>3, <3>1
    <3> QED
      BY <3>1, <3>2
  <2>5. d2.row # d.row
    BY <1>3, <1>4, <2>3, ArrowMoves
  <2>6. /\ w[n + 1] = d2 /\ (\A k \in 0 .. n : w[k] = v[k])
        /\ \A k \in 0 .. n + 1 : k \in 0 .. n \/ k = n + 1
    BY <1>1, <1>6 DEF Painted
  <2>7. \A k \in 0 .. n + 1 : w[k].n = d2.n /\ w[k].row \in {d.row, d2.row}
    BY <1>4, <2>3, <2>6
  <2>8. \A j, k \in 0 .. n + 1 : j < k => w[j].row = d.row
    <3>1. \A j, k \in 0 .. n + 1 : j < k => j \in 0 .. n
      BY <1>1
    <3> QED
      BY <2>3, <2>6, <3>1
  <2>9. /\ d.row \in -1 .. 2 /\ d.row # d2.row /\ d.row # 0
        /\ Waits(del, inv, d2.prompt, d.row)
        /\ \A j, k \in 0 .. n + 1 : j < k /\ w[j].row = d2.row => w[k].row = d2.row
    BY <1>3, <1>4, <2>3, <2>5, <2>8
  <2> QED
    BY Zenon, <2>4, <2>7, <2>9 DEF Moving
<1>14. Typed(scr, o, d2, top, ks2, del, inv, ent)
  BY Zenon, <1>0, <1>2, <1>5, <1>6 DEF Typed
<1> QED
  BY Zenon, <1>6, <1>8, <1>9, <1>10, <1>11, <1>12, <1>13, <1>14 DEF Right, w, o, ks2

-----------------------------------------------------------------------------
(* The server.                                                             *)

\* Output is read: a submission is remembered until its dialog has left the line.
LEMMA ReadKeeps ==
  ASSUME NEW scr, NEW out, NEW d, NEW top, NEW ks, NEW del, NEW inv, NEW ent,
         Right(scr, out, d, top, ks, del, inv, ent), out # <<>>
  PROVE  Right(Head(out), Tail(out), d, top, ks, del, inv, ent)
<1> DEFINE v == Line(scr, out)
           n == Len(out)
           o == Tail(out)
           w == Line(Head(out), o)
           m == n - 1
<1>0. /\ Typed(scr, out, d, top, ks, del, inv, ent) /\ Lined(v, n, d, top)
      /\ Known(Fors(ks) \cup ent, top, inv) /\ (d.n # 0 => Known(d.by, top, inv))
      /\ Untouched(v, n, d) /\ Submitted(v, n, del, inv, ent)
      /\ EnterLast(d, ks) /\ Paced(v, n, d, ks, del, inv, ent)
  BY Zenon DEF Right
<1>1. scr \in Screens /\ out \in Seq(Screens) /\ top \in Nat
  BY <1>0 DEF Typed
<1>2. /\ Head(out) \in Screens /\ o \in Seq(Screens) /\ n \in Nat \ {0} /\ Len(o) = m
      /\ Shifted(v, n, w)
  BY <1>1, LineShifted
<1>3. m \in Nat /\ \A k \in 0 .. m : k + 1 \in 0 .. n /\ k \in Int /\ w[k] = v[k + 1]
  BY <1>2 DEF Shifted
<1>4. m \in 0 .. m /\ m + 1 = n /\ 0 \in 0 .. m /\ 0 \in 0 .. n /\ 1 \in 0 .. n /\ w[0] = v[1]
  BY <1>2, <1>3
<1> HIDE DEF v, n, o, w, m
<1>5. Lined(w, m, d, top)
  <2>1. w[m] = d
    BY <1>0, <1>3, <1>4 DEF Lined
  <2>2. \A k \in 0 .. m : w[k].n <= top
    BY <1>0, <1>3 DEF Lined
  <2>3. ASSUME NEW j \in 0 .. m, NEW k \in 0 .. m, NEW l \in 0 .. m, j < k, k < l,
               w[j].n = w[l].n, w[j].n # 0
        PROVE  w[k].n = w[j].n
    <3>1. j + 1 < k + 1 /\ k + 1 < l + 1
      BY <1>3, <2>3
    <3>2. /\ j + 1 \in 0 .. n /\ k + 1 \in 0 .. n /\ l + 1 \in 0 .. n
          /\ w[j] = v[j + 1] /\ w[k] = v[k + 1] /\ w[l] = v[l + 1]
      BY <1>3
    <3>3. \A a, b, c \in 0 .. n : a < b /\ b < c /\ v[a].n = v[c].n /\ v[a].n # 0 => v[b].n = v[a].n
      BY <1>0 DEF Lined
    <3>4. v[j + 1].n = v[l + 1].n /\ v[j + 1].n # 0
      BY <2>3, <3>2
    <3>5. v[k + 1].n = v[j + 1].n
      BY <3>1, <3>2, <3>3, <3>4
    <3> QED
      BY <3>2, <3>5
  <2>4. \A j, k \in 0 .. m : w[j].n = w[k].n /\ w[j].n # 0 => w[j].prompt = w[k].prompt
    BY <1>0, <1>3 DEF Lined
  <2> QED
    BY <2>1, <2>2, <2>3, <2>4 DEF Lined
<1>6. Untouched(w, m, d)
  BY <1>0, <1>3 DEF Untouched
<1>7. Submitted(w, m, del, inv, ent)
  <2> SUFFICES ASSUME NEW x \in ent
               PROVE  /\ x[1] # 0
                      /\ x[2] = inv => \/ w[0].n = x[1] /\ Waits(del, inv, w[0].prompt, 0)
                                       \/ \A k \in 0 .. m : w[k].n # x[1]
    BY Zenon DEF Submitted
  <2>1. /\ x[1] # 0
        /\ x[2] = inv => \/ v[0].n = x[1] /\ Waits(del, inv, v[0].prompt, 0)
                         \/ \A k \in 0 .. n : v[k].n # x[1]
    BY <1>0 DEF Submitted
  <2>2. CASE \A k \in 0 .. n : v[k].n # x[1]
    BY <1>3, <2>1, <2>2
  <2>3. CASE v[0].n = x[1] /\ v[1].n = x[1] /\ Waits(del, inv, v[0].prompt, 0)
    <3>1. v[1].prompt = v[0].prompt
      BY <1>0, <1>4, <2>1, <2>3 DEF Lined
    <3> QED
      BY Zenon, <1>4, <2>1, <2>3, <3>1
  <2>4. CASE v[0].n = x[1] /\ v[1].n # x[1]
    <3>1. ASSUME NEW k \in 0 .. m, w[k].n = x[1]
          PROVE  FALSE
      <4>1. v[k + 1].n = v[0].n /\ v[0].n # 0 /\ k + 1 \in 0 .. n /\ k + 1 # 1
        BY <1>3, <2>1, <2>4, <3>1
      <4>2. 0 < 1 /\ 1 < k + 1
        BY <1>3, <4>1
      <4>3. v[1].n = v[0].n
        BY <1>0, <1>4, <4>1, <4>2 DEF Lined
      <4> QED
        BY <2>4, <4>3
    <3> QED
      BY <2>1, <3>1
  <2> QED
    BY <2>1, <2>2, <2>3, <2>4
<1>8. Settled(v, n, d, ks) => Settled(w, m, d, ks)
  BY <1>3 DEF Settled
<1>9. Asked(v, n, d, ks, del, inv) => Asked(w, m, d, ks, del, inv)
  BY <1>3 DEF Asked
<1>10. ASSUME Moving(v, n, d, ks, del, inv)
       PROVE  Moving(w, m, d, ks, del, inv)
  <2>1. PICK r \in -1 .. 2 :
          /\ r # d.row /\ r # 0 /\ Waits(del, inv, d.prompt, r)
          /\ \A k \in 0 .. n : v[k].n = d.n /\ v[k].row \in {r, d.row}
          /\ \A j, k \in 0 .. n : j < k /\ v[j].row = d.row => v[k].row = d.row
    BY <1>10 DEF Moving
  <2>2. \A k \in 0 .. m : w[k].n = d.n /\ w[k].row \in {r, d.row}
    BY <1>3, <2>1
  <2>3. ASSUME NEW j \in 0 .. m, NEW k \in 0 .. m, j < k, w[j].row = d.row
        PROVE  w[k].row = d.row
    <3>1. j + 1 < k + 1
      BY <1>3, <2>3
    <3> QED
      BY <1>3, <2>1, <2>3, <3>1
  <2>4. ks = <<>>
    BY <1>10 DEF Moving
  <2> QED
    BY <2>1, <2>2, <2>3, <2>4 DEF Moving
<1>11. Paced(w, m, d, ks, del, inv, ent)
  BY Zenon, <1>0, <1>8, <1>9, <1>10 DEF Paced
<1>12. Typed(Head(out), o, d, top, ks, del, inv, ent)
  BY Zenon, <1>0, <1>2 DEF Typed
<1> QED
  BY Zenon, <1>0, <1>2, <1>5, <1>6, <1>7, <1>11, <1>12 DEF Right, w, o

\* With no dialog on the screen there is nothing to remember.
LEMMA ForgetKeeps ==
  ASSUME NEW scr, NEW out, NEW d, NEW top, NEW ks, NEW del, NEW inv, NEW ent,
         Right(scr, out, d, top, ks, del, inv, ent), scr = Nothing
  PROVE  Right(scr, out, d, top, ks, {}, inv, ent)
<1> DEFINE v == Line(scr, out)
           n == Len(out)
<1>0. /\ Typed(scr, out, d, top, ks, del, inv, ent) /\ Submitted(v, n, del, inv, ent)
      /\ Paced(v, n, d, ks, del, inv, ent)
  BY Zenon DEF Right
<1>1. v[0].n = 0 /\ 0 \in 0 .. n
  <2>1. scr \in Screens /\ out \in Seq(Screens)
    BY <1>0 DEF Typed
  <2>2. v[0] = scr /\ n \in Nat
    BY <2>1, LineFacts
  <2> QED
    BY <2>2 DEF Nothing
<1> HIDE DEF v, n
<1>2. Submitted(v, n, {}, inv, ent)
  BY <1>0, <1>1 DEF Submitted
<1>3. Paced(v, n, d, ks, {}, inv, ent)
  BY Zenon, <1>0, <1>1 DEF Paced, Asked, Moving
<1>4. Typed(scr, out, d, top, ks, {}, inv, ent)
  BY <1>0 DEF Typed
<1> QED
  BY Zenon, <1>2, <1>3, <1>4 DEF Right, v, n

\* A new invocation has sent nothing.
LEMMA ReboundKeeps ==
  ASSUME NEW scr, NEW out, NEW d, NEW top, NEW ks, NEW del, NEW inv, NEW ent,
         Right(scr, out, d, top, ks, del, inv, ent)
  PROVE  Right(scr, out, d, top, ks, del, inv + 1, ent)
<1> DEFINE v == Line(scr, out)
           n == Len(out)
<1>0. /\ Typed(scr, out, d, top, ks, del, inv, ent)
      /\ Known(Fors(ks) \cup ent, top, inv) /\ (d.n # 0 => Known(d.by, top, inv))
      /\ Untouched(v, n, d) /\ Submitted(v, n, del, inv, ent)
  BY Zenon DEF Right
<1>1. inv \in Nat /\ ks \in Seq(Keys) /\ ent \subseteq Ids /\ d \in Screens
  BY <1>0 DEF Typed
<1>2. \A x \in Fors(ks) \cup ent : x[2] \in Nat
  BY <1>1, ForsFacts DEF Ids
<1>3. d.n # 0 => \A x \in d.by : x[2] \in Nat
  BY <1>1, ScreenFacts DEF Ids
<1>4. /\ \A x \in Fors(ks) \cup ent : x[2] # inv + 1
      /\ d.n # 0 => \A x \in d.by : x[2] # inv + 1
  BY <1>0, <1>1, <1>2, <1>3 DEF Known
<1> HIDE DEF v, n
<1>5. Known(Fors(ks) \cup ent, top, inv + 1) /\ (d.n # 0 => Known(d.by, top, inv + 1))
  BY <1>0, <1>1, <1>2, <1>3 DEF Known
<1>6. Submitted(v, n, del, inv + 1, ent)
  BY Zenon, <1>0, <1>4 DEF Submitted
<1>7. Paced(v, n, d, ks, del, inv + 1, ent)
  <2> SUFFICES ASSUME d.n # 0, d.by \cup Fors(ks) \subseteq {<<d.n, inv + 1>>}
               PROVE  Settled(v, n, d, ks)
    BY DEF Paced
  <2>1. \A x \in d.by \cup Fors(ks) : x[2] = inv + 1
    OBVIOUS
  <2>2. d.by = {} /\ Fors(ks) = {}
    BY <1>4, <2>1
  <2>3. ks = <<>>
    BY <1>1, <2>2, ForsFacts
  <2> QED
    BY Zenon, <1>0, <2>2, <2>3 DEF Untouched, Settled
<1>8. Typed(scr, out, d, top, ks, del, inv + 1, ent)
  BY <1>0 DEF Typed
<1> QED
  BY Zenon, <1>5, <1>6, <1>7, <1>8 DEF Right, v, n

\* The delivery of a key, on what Deliver changes.
Delivered(scr, inv, auto) ==
  {[inv |-> inv, prompt |-> scr.prompt, nav |-> scr.row, automatic |-> auto]}

\* A key is sent for the dialog on the screen: never a second submission, and an arrow
\* only for a row the dialog still has.
LEMMA DeliverKeeps ==
  ASSUME NEW scr, NEW out, NEW d, NEW top, NEW ks, NEW del, NEW inv, NEW ent,
         Right(scr, out, d, top, ks, del, inv, ent),
         scr # Nothing, IsNew(del, inv, scr), NEW auto \in BOOLEAN,
         NEW ent2, ent2 = IF scr.row = 0 THEN ent \cup {<<scr.n, inv>>} ELSE ent
  PROVE  /\ <<scr.n, inv>> \notin ent
         /\ Right(scr, out, d, top, Append(ks, [key |-> Choice(scr), for |-> <<scr.n, inv>>]),
                  Delivered(scr, inv, auto), inv, ent2)
<1> DEFINE v == Line(scr, out)
           n == Len(out)
           id == <<scr.n, inv>>
           new == [key |-> Choice(scr), for |-> id]
           ks2 == Append(ks, new)
           del2 == Delivered(scr, inv, auto)
           N == Len(ks)
<1>0. /\ Typed(scr, out, d, top, ks, del, inv, ent) /\ Lined(v, n, d, top)
      /\ Known(Fors(ks) \cup ent, top, inv) /\ (d.n # 0 => Known(d.by, top, inv))
      /\ Untouched(v, n, d) /\ Submitted(v, n, del, inv, ent)
      /\ EnterLast(d, ks) /\ Paced(v, n, d, ks, del, inv, ent)
  BY Zenon DEF Right
<1>1. /\ scr \in Screens /\ out \in Seq(Screens) /\ d \in Screens /\ top \in Nat
      /\ ks \in Seq(Keys) /\ inv \in Nat /\ ent \subseteq Ids
  BY Zenon, <1>0 DEF Typed
<1>2. /\ scr.n \in Nat /\ scr.n # 0 /\ scr.prompt \in Prompts /\ scr.row \in -1 .. 2
  BY <1>1, ScreenFacts
<1>3. n \in Nat /\ v[0] = scr /\ 0 \in 0 .. n /\ n \in 0 .. n
  BY <1>1, LineFacts
<1>4. v[n] = d /\ scr.n <= top
  BY Zenon, <1>0, <1>3 DEF Lined
<1>5. id \in Ids /\ id[1] = scr.n /\ id[2] = inv
  BY <1>1, <1>2 DEF Ids
<1> HIDE DEF id
<1>6. new \in Keys /\ new.key = Choice(scr) /\ new.for = id
  BY <1>5 DEF Keys, Choice
<1> HIDE DEF new
<1>7. /\ ks2 \in Seq(Keys) /\ N \in Nat /\ N + 1 \in DOMAIN ks2 /\ ks2[N + 1] = new /\ Len(ks2) = N + 1
      /\ DOMAIN ks = 1 .. N
      /\ \A q \in DOMAIN ks2 : q = N + 1 \/ q \in DOMAIN ks
      /\ \A q \in DOMAIN ks : q \in DOMAIN ks2 /\ ks2[q] = ks[q]
  BY <1>1, <1>6
<1>8. /\ del2 \subseteq Deliveries /\ \A x, y \in del2 : x = y
  BY <1>1, <1>2 DEF Delivered, Deliveries
<1>9. Waits(del2, inv, scr.prompt, scr.row)
  BY DEF Waits, Delivered
<1>10. \A row : Waits(del, inv, scr.prompt, row) => row # 0 /\ row # scr.row
  BY Zenon DEF Waits, IsNew, SameDialog
<1> HIDE DEF v, n, ks2, del2, N
<1>11. \A x \in ent : x[1] # 0 /\ (x[2] = inv => \A k \in 0 .. n : v[k].n # x[1])
  BY Zenon, <1>0, <1>3, <1>10 DEF Submitted
<1>12. id \notin ent
  BY Zenon, <1>3, <1>5, <1>11
<1>13. Submitted(v, n, del2, inv, ent2)
  <2>1. scr.row = 0 => Waits(del2, inv, v[0].prompt, 0)
    BY <1>3, <1>9
  <2>2. \A x \in ent2 : x \in ent \/ (x = id /\ scr.row = 0)
    BY DEF id
  <2> QED
    BY Zenon, <1>2, <1>3, <1>5, <1>11, <2>1, <2>2 DEF Submitted
<1>14. Fors(ks2) = Fors(ks) \cup {id}
  <2>1. id \in Fors(ks2)
    BY <1>6, <1>7 DEF Fors
  <2>2. Fors(ks) \subseteq Fors(ks2)
    BY <1>7 DEF Fors
  <2>3. \A q \in DOMAIN ks2 : ks2[q].for = id \/ ks2[q].for \in Fors(ks)
    BY <1>6, <1>7 DEF Fors
  <2> QED
    BY <2>1, <2>2, <2>3 DEF Fors
<1>15. Known(Fors(ks2) \cup ent2, top, inv)
  <2>1. \A x \in Fors(ks2) \cup ent2 : x \in Fors(ks) \cup ent \/ x = id
    BY <1>14 DEF id
  <2>2. id[1] <= top /\ id[2] <= inv
    BY <1>1, <1>4, <1>5
  <2> QED
    BY <1>0, <2>1, <2>2 DEF Known
\* What is known of the dialog when the key is for it and all before were.
<1>16. ASSUME d.n # 0, scr.n = d.n, d.by \cup Fors(ks) \subseteq {<<d.n, inv>>}
       PROVE  /\ ks = <<>> /\ scr.prompt = d.prompt
              /\ (scr.row = 0 => d.row = 0)
              /\ \A k \in 0 .. n : v[k].n = d.n
              /\ scr.row = d.row /\ \A k \in 0 .. n : v[k].row = d.row
  <2>1. scr.prompt = d.prompt
    BY <1>0, <1>3, <1>4, <1>16 DEF Lined
  <2>2. \A k \in 0 .. n : k = 0 \/ k = n \/ (0 < k /\ k < n)
    BY <1>3
  <2>3. \A k \in 0 .. n : v[k].n = d.n
    BY <1>0, <1>3, <1>4, <1>16, <2>2 DEF Lined
  <2>4. id = <<d.n, inv>>
    BY <1>16 DEF id
  <2>5. \/ Settled(v, n, d, ks) \/ Asked(v, n, d, ks, del, inv) \/ Moving(v, n, d, ks, del, inv)
    BY Zenon, <1>0, <1>12, <1>16, <2>4 DEF Paced
  <2>6. CASE Settled(v, n, d, ks)
    BY <1>3, <2>1, <2>3, <2>6 DEF Settled
  <2>7. CASE Asked(v, n, d, ks, del, inv)
    BY <1>3, <1>10, <2>1, <2>7 DEF Asked
  <2>8. CASE Moving(v, n, d, ks, del, inv)
    <3>1. PICK r \in -1 .. 2 :
            /\ Waits(del, inv, d.prompt, r)
            /\ \A k \in 0 .. n : v[k].row \in {r, d.row}
            /\ \A j, k \in 0 .. n : j < k /\ v[j].row = d.row => v[k].row = d.row
      BY Zenon, <2>8 DEF Moving
    <3>2. v[0].row = d.row
      BY <1>3, <1>10, <2>1, <3>1
    <3>3. \A k \in 0 .. n : k = 0 \/ 0 < k
      BY <1>3
    <3>4. \A k \in 0 .. n : v[k].row = d.row
      BY <1>3, <3>1, <3>2, <3>3
    <3>5. ks = <<>>
      BY <2>8 DEF Moving
    <3> QED
      BY <1>3, <2>1, <2>3, <3>2, <3>4, <3>5
  <2> QED
    BY Zenon, <2>5, <2>6, <2>7, <2>8
<1>17. EnterLast(d, ks2)
  <2> SUFFICES ASSUME NEW p \in DOMAIN ks2, NEW i \in Nat, d.n # 0, ks2[p].key = "Enter",
                      d.by \cup {ks2[q].for : q \in 1 .. p} = {<<d.n, i>>}
               PROVE  p = 1 /\ d.row = 0
    BY DEF EnterLast
  <2>1. CASE p \in DOMAIN ks
    <3>1. \A q \in 1 .. p : q \in DOMAIN ks
      BY <1>7, <2>1
    <3>2. {ks2[q].for : q \in 1 .. p} = {ks[q].for : q \in 1 .. p}
      BY <1>7, <3>1
    <3>3. ks[p].key = "Enter" /\ d.by \cup {ks[q].for : q \in 1 .. p} = {<<d.n, i>>}
      BY Zenon, <1>7, <2>1, <3>2
    <3> QED
      BY Zenon, <1>0, <2>1, <3>3 DEF EnterLast
  <2>2. CASE p = N + 1
    <3>1. \A q \in 1 .. p : ks2[q].for = <<d.n, i>>
      BY Zenon
    <3>2. p \in 1 .. p /\ \A q \in DOMAIN ks : q \in 1 .. p
      BY <1>7, <2>2
    <3>3. id = <<d.n, i>>
      BY <1>6, <1>7, <2>2, <3>1, <3>2
    <3>4. scr.n = d.n /\ i = inv
      BY Zenon, <3>3 DEF id
    <3>5. \A q \in DOMAIN ks : ks[q].for = <<d.n, i>>
      BY <1>7, <3>1, <3>2
    <3>6. d.by \cup Fors(ks) \subseteq {<<d.n, inv>>}
      BY Zenon, <3>4, <3>5 DEF Fors
    <3>7. scr.row = 0
      BY <1>6, <1>7, <2>2 DEF Choice
    <3>8. ks = <<>> /\ d.row = 0
      BY <1>16, <3>4, <3>6, <3>7
    <3> QED
      BY <2>2, <3>8 DEF N
  <2> QED
    BY <1>7, <2>1, <2>2
<1>18. Paced(v, n, d, ks2, del2, inv, ent2)
  <2> SUFFICES ASSUME d.n # 0, d.by \cup Fors(ks2) \subseteq {<<d.n, inv>>}, <<d.n, inv>> \notin ent2
               PROVE  Asked(v, n, d, ks2, del2, inv)
    BY Zenon DEF Paced
  <2>1. id = <<d.n, inv>>
    BY <1>14
  <2>2. scr.n = d.n
    BY Zenon, <2>1 DEF id
  <2>3. scr.row # 0
    BY Zenon, <2>1 DEF id
  <2>4. /\ ks = <<>> /\ scr.prompt = d.prompt /\ scr.row = d.row
        /\ \A k \in 0 .. n : v[k].n = d.n /\ v[k].row = d.row
    BY Zenon, <1>14, <1>16, <2>2
  <2>5. N = 0
    BY <2>4 DEF N
  <2>6. Len(ks2) = 1 /\ ks2[1] = new
    BY <1>7, <2>5
  <2>7. new.key = IF d.row > 0 THEN "Up" ELSE "Down"
    BY <1>6, <2>3, <2>4 DEF Choice
  <2> QED
    BY <1>9, <2>3, <2>4, <2>6, <2>7 DEF Asked
<1>19. Typed(scr, out, d, top, ks2, del2, inv, ent2)
  <2>1. ent2 \subseteq Ids
    BY <1>1, <1>5 DEF id
  <2> QED
    BY Zenon, <1>0, <1>7, <1>8, <2>1 DEF Typed
<1>20. Right(scr, out, d, top, ks2, del2, inv, ent2)
  BY Zenon, <1>0, <1>13, <1>15, <1>17, <1>18, <1>19 DEF Right, v, n
<1> QED
  BY <1>12, <1>20 DEF ks2, del2, new, id

\* Deliver: nothing goes wrong, and the rest of the state is right again.
LEMMA DeliverStep ==
  ASSUME NEW scr, NEW out, NEW d, NEW top, NEW del, NEW inv, NEW auto \in BOOLEAN, NEW asked,
         Right(scr, out, d, top, keys, del, inv, enters), wrong = {},
         scr # Nothing, IsNew(del, inv, scr), ~auto => <<inv, scr.prompt>> \in asked,
         Deliver(auto, scr, inv, asked)
  PROVE  /\ Right(scr, out, d, top, keys', delivered', inv, enters')
         /\ Authorised(delivered', manual') /\ wrong' = {}
<1>1. /\ keys' = Append(keys, [key |-> Choice(scr), for |-> <<scr.n, inv>>])
      /\ delivered' = Delivered(scr, inv, auto)
      /\ enters' = IF scr.row = 0 THEN enters \cup {<<scr.n, inv>>} ELSE enters
      /\ manual' = IF scr.row = 0 THEN asked \ {<<inv, scr.prompt>>} ELSE asked
      /\ wrong' = wrong \cup (IF scr.row = 0 /\ <<scr.n, inv>> \in enters THEN {"twice"} ELSE {})
                        \cup (IF ~auto /\ <<inv, scr.prompt>> \notin asked THEN {"unasked"} ELSE {})
  BY Zenon DEF Deliver, Delivered
<1>2. /\ <<scr.n, inv>> \notin enters
      /\ Right(scr, out, d, top, Append(keys, [key |-> Choice(scr), for |-> <<scr.n, inv>>]),
               Delivered(scr, inv, auto), inv, enters')
  BY <1>1, DeliverKeeps
<1>3. wrong' = {}
  BY <1>1, <1>2
<1>4. Authorised(delivered', manual')
  BY <1>1 DEF Authorised, Delivered
<1> QED
  BY <1>1, <1>2, <1>3, <1>4

\* maybe_auto_approve: with the mode off, it goes on only with what the human approved.
LEMMA MaybeStep ==
  ASSUME NEW scr, NEW out, NEW d, NEW top, NEW del, NEW inv, NEW mode \in BOOLEAN, NEW s,
         NEW accepted, Right(scr, out, d, top, keys, del, inv, enters),
         Authorised(del, manual), wrong = {}, MaybeAutoApprove(mode, scr, del, s, inv, accepted)
  PROVE  /\ Right(scr, out, d, top, keys', delivered', inv, enters')
         /\ Authorised(delivered', manual') /\ wrong' = {}
<1>1. CASE Refused(del)
  BY <1>1 DEF Refused
<1>2. CASE Approves(mode, ~mode, scr, del, s, inv) /\ Deliver(mode, scr, inv, manual)
  <2>1. scr # Nothing /\ IsNew(del, inv, scr) /\ (~mode => CanContinueManual(del, inv, scr))
    BY <1>2 DEF Approves
  <2>2. ~mode => <<inv, scr.prompt>> \in manual
    BY <2>1 DEF CanContinueManual, SameDialog, Authorised
  <2> QED
    BY <1>2, <2>1, <2>2, DeliverStep
<1> QED
  BY <1>1, <1>2 DEF MaybeAutoApprove

-----------------------------------------------------------------------------
(* The steps.                                                              *)

\* The pipeline is empty at first.
LEMMA InitRight == Init => IInv
<1> SUFFICES ASSUME Init PROVE IInv
  OBVIOUS
<1> DEFINE v == Line(screen, output)
<1>1. /\ screen = Nothing /\ output = <<>> /\ dialog = Nothing /\ shown = 0 /\ keys = <<>>
      /\ delivered = {} /\ invocation = 1 /\ enters = {} /\ manual = {} /\ wrong = {} /\ enabled = FALSE
  BY DEF Init
<1>2. Nothing \in Screens /\ Nothing.n = 0
  BY DEF Screens, Nothing
<1>3. Typed(screen, output, dialog, shown, keys, delivered, invocation, enters)
  BY <1>1, <1>2 DEF Typed
<1>4. Len(output) = 0 /\ v[0] = Nothing /\ \A k \in 0 .. 0 : k = 0
  <2>1. screen \in Screens /\ output \in Seq(Screens) /\ Len(output) = 0
    BY <1>1, <1>2
  <2>2. v[0] = screen
    BY Zenon, <2>1, LineFacts
  <2>3. \A k \in 0 .. 0 : k = 0
    OBVIOUS
  <2> QED
    BY <1>1, <2>1, <2>2, <2>3
<1> HIDE DEF v
<1>5. Lined(v, 0, dialog, shown)
  BY <1>1, <1>2, <1>4 DEF Lined
<1>6. Fors(keys) = {}
  BY <1>1 DEF Fors
<1>7. /\ Known(Fors(keys) \cup enters, shown, invocation) /\ dialog.n = 0
      /\ Submitted(v, 0, delivered, invocation, enters)
  BY <1>1, <1>2, <1>6 DEF Known, Submitted
<1>8. /\ Untouched(v, 0, dialog) /\ EnterLast(dialog, keys)
      /\ Paced(v, 0, dialog, keys, delivered, invocation, enters)
  BY <1>7 DEF Untouched, EnterLast, Paced
<1>9. Right(screen, output, dialog, shown, keys, delivered, invocation, enters)
  BY Zenon, <1>3, <1>4, <1>5, <1>7, <1>8 DEF Right, v
<1> QED
  BY Zenon, <1>1, <1>9 DEF IInv, Authorised

\* What the agent shows is never numbered past the last dialog.
LEMMA ShownLast ==
  ASSUME IInv
  PROVE  dialog \in Screens /\ shown \in Nat /\ dialog.n \in Nat /\ dialog.n <= shown
<1>1. /\ Typed(screen, output, dialog, shown, keys, delivered, invocation, enters)
      /\ Lined(Line(screen, output), Len(output), dialog, shown)
  BY Zenon DEF IInv, Right
<1>2. dialog \in Screens /\ shown \in Nat /\ Len(output) \in Nat
  BY <1>1 DEF Typed
<1>3. Len(output) \in 0 .. Len(output)
  BY <1>2
<1> QED
  BY <1>1, <1>2, <1>3, ScreenFacts DEF Lined

\* Show with the next dialog, or none.
LEMMA ShowNext ==
  ASSUME IInv, NEW d \in Successors, Show(d),
         keys' \in Seq(Keys), Fors(keys') \subseteq Fors(keys)
  PROVE  Right(screen, output', dialog', shown', keys', delivered, invocation, enters)
<1>1. shown \in Nat
  BY ShownLast
<1>2. /\ d \in Screens /\ (d.n = 0 \/ d.n = shown + 1) /\ (d.n # 0 => d.by = {})
      /\ (d = Nothing <=> d.n = 0)
  <2>1. CASE d = Nothing
    BY <2>1 DEF Screens, Nothing
  <2>2. ASSUME NEW p \in Prompts, NEW r \in {0, 2},
               d = [n |-> shown + 1, prompt |-> p, row |-> r, by |-> {}]
        PROVE  /\ d \in Screens /\ d.n = shown + 1 /\ d.by = {} /\ d # Nothing
    <3>1. d.n = shown + 1 /\ d.by = {}
      BY <2>2
    <3>2. d \in Screens
      BY <1>1, <2>2 DEF Screens
    <3>3. d # Nothing
      BY <1>1, <3>1 DEF Nothing
    <3> QED
      BY <3>1, <3>2, <3>3
  <2>3. \/ d = Nothing
        \/ \E p \in Prompts, r \in {0, 2} : d = [n |-> shown + 1, prompt |-> p, row |-> r, by |-> {}]
    BY DEF Successors
  <2>4. Nothing.n = 0 /\ (d = Nothing \/ d.n # 0)
    BY <1>1, <2>2, <2>3 DEF Nothing
  <2> QED
    BY Zenon, <1>1, <2>1, <2>2, <2>3, <2>4
<1>3. /\ dialog' = d /\ output' = Append(output, d)
      /\ shown' = IF d.n # 0 THEN d.n ELSE shown
  BY <1>1, <1>2 DEF Show
<1>4. Right(screen, output, dialog, shown, keys, delivered, invocation, enters)
  BY Zenon DEF IInv
<1>5. Right(screen, Append(output, d), d, shown', keys', delivered, invocation, enters)
  BY <1>2, <1>3, <1>4, NextDialogKeeps
<1> QED
  BY <1>3, <1>5

\* A dialog opens, closes by itself, or is followed by another.
LEMMA AgentMovesKeeps == IInv /\ AgentMoves => IInv'
<1> SUFFICES ASSUME IInv, AgentMoves PROVE IInv'
  OBVIOUS
<1>1. PICK d \in Successors : Show(d)
  BY DEF AgentMoves
<1>2. /\ keys' = keys /\ wrong' = wrong /\ screen' = screen /\ enabled' = enabled
      /\ delivered' = delivered /\ invocation' = invocation /\ manual' = manual /\ enters' = enters
  BY DEF AgentMoves, Server
<1>3. keys \in Seq(Keys)
  BY Zenon DEF IInv, Right, Typed
<1>4. Right(screen, output', dialog', shown', keys', delivered, invocation, enters)
  BY <1>1, <1>2, <1>3, ShowNext
<1> QED
  BY <1>2, <1>4 DEF IInv

\* The dialog shown is painted again.
LEMMA AgentRepaintsKeeps == IInv /\ AgentRepaints => IInv'
<1> SUFFICES ASSUME IInv, AgentRepaints PROVE IInv'
  OBVIOUS
<1>1. /\ keys' = keys /\ wrong' = wrong /\ screen' = screen /\ enabled' = enabled
      /\ delivered' = delivered /\ invocation' = invocation /\ manual' = manual /\ enters' = enters
  BY DEF AgentRepaints, Server
<1>2. dialog' = dialog /\ output' = Append(output, dialog) /\ shown' = shown
  BY ShownLast DEF AgentRepaints, Show
<1>3. Right(screen, Append(output, dialog), dialog, shown, keys, delivered, invocation, enters)
  BY RepaintKeeps DEF IInv
<1> QED
  BY <1>1, <1>2, <1>3 DEF IInv

\* What an arrow makes of a dialog.
LEMMA DialogMoved ==
  ASSUME NEW d, NEW key, NEW x, NEW e,
         d = [n |-> d.n, prompt |-> d.prompt, row |-> d.row, by |-> d.by],
         e = [d EXCEPT !.row = Moved(@, key), !.by = @ \cup {x}]
  PROVE  e = [n |-> d.n, prompt |-> d.prompt, row |-> Moved(d.row, key), by |-> d.by \cup {x}]
<1> DEFINE row == Moved(d.row, key)
           by  == d.by \cup {x}
<1>1. e = [[d EXCEPT !.row = row] EXCEPT !.by = by]
  OBVIOUS
<1> HIDE DEF row, by
<1>2. e = [f \in DOMAIN d |-> IF f = "by" THEN by ELSE IF f = "row" THEN row ELSE d[f]]
  BY Zenon, <1>1
<1>3. DOMAIN d = {"n", "prompt", "row", "by"}
  OBVIOUS
<1>4. e = [n |-> d.n, prompt |-> d.prompt, row |-> row, by |-> by]
  BY Zenon, <1>2, <1>3
<1> QED
  BY Zenon, <1>4 DEF row, by

\* An Enter of one invocation is read on the affirmative row.
LEMMA EnterIsRight ==
  ASSUME IInv, keys # <<>>, dialog.n # 0, Head(keys).key = "Enter",
         dialog.by \cup {Head(keys).for} = {<<dialog.n, Head(keys).for[2]>>}
  PROVE  dialog.row = 0
<1>1. keys \in Seq(Keys) /\ EnterLast(dialog, keys)
  BY DEF IInv, Right, Typed
<1>2. Head(keys) = keys[1] /\ Head(keys).for \in Ids /\ 1 \in DOMAIN keys
  BY <1>1, ForsFacts
<1>3. Head(keys).for[2] \in Nat
  BY <1>2 DEF Ids
<1>4. {keys[q].for : q \in 1 .. 1} = {Head(keys).for}
  <2>1. \A q \in 1 .. 1 : q = 1
    OBVIOUS
  <2>2. 1 \in 1 .. 1
    OBVIOUS
  <2> QED
    BY <1>2, <2>1, <2>2
<1> QED
  BY <1>1, <1>2, <1>3, <1>4 DEF EnterLast

\* The agent reads a key.
LEMMA AgentReadsKeyKeeps == IInv /\ AgentReadsKey => IInv'
<1> SUFFICES ASSUME IInv, AgentReadsKey PROVE IInv'
  OBVIOUS
<1>1. /\ keys # <<>> /\ keys' = Tail(keys) /\ screen' = screen /\ enabled' = enabled
      /\ delivered' = delivered /\ invocation' = invocation /\ manual' = manual /\ enters' = enters
  BY DEF AgentReadsKey, Server
<1>2. Right(screen, output, dialog, shown, keys, delivered, invocation, enters)
  BY Zenon DEF IInv
<1>3. keys \in Seq(Keys)
  BY <1>2 DEF Right, Typed
<1>4. keys' \in Seq(Keys) /\ Fors(keys') \subseteq Fors(keys)
  BY <1>1, <1>3, ForsFacts
<1>5. dialog \in Screens /\ shown \in Nat /\ dialog.n <= shown /\ (dialog = Nothing <=> dialog.n = 0)
  BY ShownLast, ScreenFacts
<1>6. /\ Right(screen, output', dialog', shown', keys', delivered, invocation, enters)
      /\ wrong' = wrong
  <2>1. CASE dialog = Nothing /\ UNCHANGED <<dialog, shown, output, wrong>>
    BY <1>1, <1>2, <1>5, <2>1, KeyLostKeeps
  <2>2. CASE /\ dialog # Nothing
             /\ Show([dialog EXCEPT !.row = Moved(@, Head(keys).key), !.by = @ \cup {Head(keys).for}])
             /\ UNCHANGED wrong
    <3> DEFINE e == [dialog EXCEPT !.row = Moved(@, Head(keys).key), !.by = @ \cup {Head(keys).for}]
    <3>1. /\ dialog.n \in Nat \ {0} /\ dialog.prompt \in Prompts /\ dialog.row \in -1 .. 2
          /\ dialog.by \subseteq Ids
          /\ dialog = [n |-> dialog.n, prompt |-> dialog.prompt, row |-> dialog.row, by |-> dialog.by]
      BY <1>5, <2>2, ScreenFacts
    <3>2. e = [n |-> dialog.n, prompt |-> dialog.prompt, row |-> Moved(dialog.row, Head(keys).key),
               by |-> dialog.by \cup {Head(keys).for}]
      BY Zenon, <3>1, DialogMoved
    <3> HIDE DEF e
    <3>3. e.n = dialog.n
      BY <3>2
    <3>4. Show(e)
      BY <2>2 DEF e
    <3>5. dialog' = e /\ output' = Append(output, e) /\ shown' = shown
      BY <1>5, <3>3, <3>4, ShownLast DEF Show
    <3>6. Right(screen, Append(output, e), e, shown, Tail(keys), delivered, invocation, enters)
      BY <1>1, <1>2, <1>5, <2>2, <3>2, ArrowKeeps
    <3> QED
      BY <1>1, <2>2, <3>5, <3>6
  <2>3. CASE /\ dialog # Nothing /\ Head(keys).key = "Enter"
             /\ wrong' = IF dialog.by \cup {Head(keys).for} = {<<dialog.n, Head(keys).for[2]>>} /\ dialog.row # 0
                         THEN wrong \cup {"denied"} ELSE wrong
             /\ \E d \in Successors : Show(d)
    <3>1. wrong' = wrong
      BY <1>1, <1>5, <2>3, EnterIsRight
    <3>2. PICK d \in Successors : Show(d)
      BY <2>3
    <3> QED
      BY <1>4, <3>1, <3>2, ShowNext
  <2> QED
    BY <2>1, <2>2, <2>3, Zenon DEF AgentReadsKey
<1> QED
  BY <1>1, <1>6 DEF IInv

\* Every step of the server.
LEMMA ServerKeeps ==
  ASSUME IInv, NEW accepted \in BOOLEAN,
         \/ ReadOutput(accepted) \/ Rebound(accepted) \/ SetAutoApprove(accepted)
         \/ \E s \in Statuses : StatusMoves(s, accepted)
  PROVE  IInv'
<1>1. /\ Right(screen, output, dialog, shown, keys, delivered, invocation, enters)
      /\ Authorised(delivered, manual) /\ enabled \in BOOLEAN /\ wrong = {}
  BY DEF IInv
<1>2. CASE ReadOutput(accepted)
  <2>1. /\ output # <<>> /\ output' = Tail(output) /\ screen' = Head(output)
        /\ MaybeAutoApprove(enabled, Head(output), delivered, status, invocation, accepted)
        /\ dialog' = dialog /\ shown' = shown /\ enabled' = enabled /\ invocation' = invocation
    BY <1>2 DEF ReadOutput
  <2>2. Right(Head(output), Tail(output), dialog, shown, keys, delivered, invocation, enters)
    BY <1>1, <2>1, ReadKeeps
  <2>3. /\ Right(Head(output), Tail(output), dialog, shown, keys', delivered', invocation, enters')
        /\ Authorised(delivered', manual') /\ wrong' = {}
    BY <1>1, <2>1, <2>2, MaybeStep
  <2> QED
    BY <1>1, <2>1, <2>3 DEF IInv
<1>3. CASE Rebound(accepted)
  <2>1. /\ invocation' = invocation + 1
        /\ MaybeAutoApprove(enabled, screen, delivered, "Working", invocation + 1, accepted)
        /\ dialog' = dialog /\ shown' = shown /\ output' = output /\ screen' = screen /\ enabled' = enabled
    BY <1>3 DEF Rebound
  <2>2. Right(screen, output, dialog, shown, keys, delivered, invocation + 1, enters)
    BY <1>1, ReboundKeeps
  <2>3. /\ Right(screen, output, dialog, shown, keys', delivered', invocation + 1, enters')
        /\ Authorised(delivered', manual') /\ wrong' = {}
    BY <1>1, <2>1, <2>2, MaybeStep
  <2> QED
    BY <1>1, <2>1, <2>3 DEF IInv
<1>4. CASE SetAutoApprove(accepted)
  <2>1. /\ enabled' = ~enabled
        /\ \/ MaybeAutoApprove(TRUE, screen, delivered, status, invocation, accepted)
           \/ Refused(delivered)
        /\ dialog' = dialog /\ shown' = shown /\ output' = output /\ screen' = screen
        /\ invocation' = invocation
    BY Zenon, <1>4 DEF SetAutoApprove
  <2>2. /\ Right(screen, output, dialog, shown, keys', delivered', invocation, enters')
        /\ Authorised(delivered', manual') /\ wrong' = {}
    <3>1. CASE Refused(delivered)
      BY <1>1, <3>1 DEF Refused
    <3>2. CASE MaybeAutoApprove(TRUE, screen, delivered, status, invocation, accepted)
      BY Zenon, <1>1, <3>2, MaybeStep
    <3> QED
      BY Zenon, <2>1, <3>1, <3>2
  <2> QED
    BY <1>1, <2>1, <2>2 DEF IInv
<1>5. ASSUME NEW s \in Statuses, StatusMoves(s, accepted) PROVE IInv'
  <2> DEFINE del == Forget(delivered, s, screen)
  <2>1. /\ MaybeAutoApprove(enabled, screen, del, s, invocation, accepted)
        /\ dialog' = dialog /\ shown' = shown /\ output' = output /\ screen' = screen
        /\ enabled' = enabled /\ invocation' = invocation
    BY <1>5 DEF StatusMoves
  <2>2. del = delivered \/ (del = {} /\ screen = Nothing)
    BY DEF Forget
  <2> HIDE DEF del
  <2>3. Right(screen, output, dialog, shown, keys, del, invocation, enters) /\ Authorised(del, manual)
    <3>1. CASE del = delivered
      BY <1>1, <3>1
    <3>2. CASE del = {} /\ screen = Nothing
      BY <1>1, <3>2, ForgetKeeps DEF Authorised
    <3> QED
      BY <2>2, <3>1, <3>2
  <2>4. /\ Right(screen, output, dialog, shown, keys', delivered', invocation, enters')
        /\ Authorised(delivered', manual') /\ wrong' = {}
    BY <1>1, <2>1, <2>3, MaybeStep
  <2> QED
    BY <1>1, <2>1, <2>4 DEF IInv
<1> QED
  BY <1>2, <1>3, <1>4, <1>5

\* The human approves the item.
LEMMA ApproveItemKeeps == IInv /\ ApproveItem => IInv'
<1> SUFFICES ASSUME IInv, ApproveItem PROVE IInv'
  OBVIOUS
<1> DEFINE asked == manual \cup {<<invocation, screen.prompt>>}
<1>1. /\ Approves(FALSE, FALSE, screen, delivered, status, invocation)
      /\ Deliver(FALSE, screen, invocation, asked)
      /\ dialog' = dialog /\ shown' = shown /\ output' = output /\ screen' = screen
      /\ enabled' = enabled /\ invocation' = invocation
  BY Zenon DEF ApproveItem
<1>2. screen # Nothing /\ IsNew(delivered, invocation, screen)
  BY <1>1 DEF Approves
<1>3. /\ Right(screen, output, dialog, shown, keys, delivered, invocation, enters)
      /\ enabled \in BOOLEAN /\ wrong = {}
  BY DEF IInv
<1>4. <<invocation, screen.prompt>> \in asked
  OBVIOUS
<1> HIDE DEF asked
<1>5. /\ Right(screen, output, dialog, shown, keys', delivered', invocation, enters')
      /\ Authorised(delivered', manual') /\ wrong' = {}
  BY Zenon, <1>1, <1>2, <1>3, <1>4, DeliverStep
<1> QED
  BY <1>1, <1>3, <1>5 DEF IInv

\* Permission automation keeps the whole invariant, whatever the bounds.
THEOREM Invariance == Spec => []IInv
<1>1. Init => IInv
  BY InitRight
<1>2. IInv /\ [Next]_vars => IInv'
  <2> SUFFICES ASSUME IInv, [Next]_vars PROVE IInv'
    OBVIOUS
  <2>1. CASE AgentMoves
    BY <2>1, AgentMovesKeeps
  <2>2. CASE AgentRepaints
    BY <2>2, AgentRepaintsKeeps
  <2>3. CASE AgentReadsKey
    BY <2>3, AgentReadsKeyKeeps
  <2>4. ASSUME NEW accepted \in BOOLEAN,
               \/ ReadOutput(accepted) \/ Rebound(accepted) \/ SetAutoApprove(accepted)
               \/ \E s \in Statuses : StatusMoves(s, accepted)
        PROVE  IInv'
    BY <2>4, ServerKeeps
  <2>5. CASE ApproveItem
    BY <2>5, ApproveItemKeeps
  <2>6. CASE OwnerMoves
    BY <2>6 DEF OwnerMoves, IInv
  <2>7. CASE UNCHANGED vars
    BY <2>7 DEF vars, IInv
  <2> QED
    BY <2>1, <2>2, <2>3, <2>4, <2>5, <2>6, <2>7 DEF Next
<1> QED
  BY <1>1, <1>2, PTL DEF Spec

\* No dialog is submitted twice by one invocation, for any number of dialogs,
\* invocations and repaints and keys on their way.
THEOREM SubmittedOnce == Spec => []OneSubmission
<1>1. IInv => OneSubmission
  BY DEF IInv, OneSubmission
<1> QED
  BY <1>1, Invariance, PTL

\* What one invocation submits is the affirmative row.
THEOREM AffirmativeSubmitted == Spec => []SubmitsTheAffirmative
<1>1. IInv => SubmitsTheAffirmative
  BY DEF IInv, SubmitsTheAffirmative
<1> QED
  BY <1>1, Invariance, PTL

\* A manual approval moves only the dialog and invocation it was given for.
THEOREM ManualStays == Spec => []ManualStaysOnItsDialog
<1>1. IInv => ManualStaysOnItsDialog
  BY DEF IInv, ManualStaysOnItsDialog
<1> QED
  BY <1>1, Invariance, PTL
=============================================================================
