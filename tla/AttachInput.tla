---------------------------- MODULE AttachInput ----------------------------
(***************************************************************************)
(* The keyboard path of the attach client: uniterm-client/src/input.rs,    *)
(* core/keyboard.rs, the key-capture half of palette.rs and the stdin loop *)
(* of attach_once, from the bytes of the terminal to Input and Command.    *)
(*                                                                         *)
(* A byte is a letter of a small alphabet: "e" is Escape, "d" the digits   *)
(* of a CSI sequence, "s" and "t" the finals of the paste markers, "u" the *)
(* final of a CSI-u key that encodes the prefix, "p" the prefix itself,    *)
(* "c" a key bound to a command and "x" one bound to nothing.              *)
(***************************************************************************)
EXTENDS Naturals, Sequences

CONSTANTS Keys,      \* what the user may press, a subset of DOMAIN BytesOf
          MaxTyped   \* bound: keys pressed

VARIABLES wire,      \* bytes the terminal wrote and the client has not read
          late,      \* the bytes of the last key that have not arrived yet
          leftover,  \* mouse_leftover
          st,        \* key_pending, PrefixState, the picker and what was sent
          pointer,   \* mouse reports recognised
          typed,     \* the keys pressed
          want,      \* what they mean, decided as they are pressed
          split,     \* the fd ran dry inside a key that begins with Escape
          mixed      \* a read joined two held-back pieces

vars == <<wire, late, leftover, st, pointer, typed, want, split, mixed>>

BytesOf ==
    [x     |-> <<"x">>,
     c     |-> <<"c">>,
     p     |-> <<"p">>,
     esc   |-> <<"e">>,
     up    |-> <<"e", "[", "A">>,
     csip  |-> <<"e", "[", "d", "u">>,
     mouse |-> <<"e", "[", "<", "d", "M">>,
     focus |-> <<"e", "[", "I">>,
     paste |-> <<"e", "[", "d", "s", "p", "c", "e", "[", "d", "t">>]

Finals == {"M", "A", "u", "s", "t", "I", "c", "x"}   \* 0x40 ..= 0x7e

From(bytes, i) == SubSeq(bytes, i, Len(bytes))
StartsAt(bytes, i, what) ==
    /\ i + Len(what) - 1 <= Len(bytes)
    /\ SubSeq(bytes, i, i + Len(what) - 1) = what

Init ==
    /\ wire = <<>> /\ late = <<>> /\ leftover = <<>>
    /\ \E nested \in BOOLEAN :
          st = [nested |-> nested, pending |-> FALSE, outer |-> FALSE,
                paste |-> [pasting |-> FALSE, at |-> 0],
                board |-> [pasting |-> FALSE, at |-> 0],
                menu |-> "none", held |-> <<>>, sent |-> <<>>]
    /\ pointer = 0 /\ typed = <<>>
    /\ want = [sent |-> <<>>, mode |-> "idle", pointer |-> 0, odd |-> FALSE]
    /\ split = FALSE /\ mixed = FALSE

(***************************************************************************)
(* KeyboardInput.                                                          *)
(***************************************************************************)
Marker(pasting) == IF pasting THEN <<"e", "[", "d", "t">> ELSE <<"e", "[", "d", "s">>

\* observe_byte: the state after a byte.
Observed(k, b) ==
    IF b = Marker(k.pasting)[k.at + 1]
    THEN IF k.at + 1 = 4 THEN [pasting |-> ~k.pasting, at |-> 0] ELSE [k EXCEPT !.at = @ + 1]
    ELSE [k EXCEPT !.at = IF b = "e" THEN 1 ELSE 0]

\* observe_byte's answer: the byte belongs to a paste or to its markers.
Literal(before, after) == before.pasting \/ after.pasting \/ after.at # 0

RECURSIVE LegacyKeys(_, _, _, _)
\* legacy_keys with prefix_only: a CSI-u key that is the prefix becomes the
\* prefix, everything else stays as it is.
LegacyKeys(k, bytes, i, done) ==
    IF i > Len(bytes) THEN [board |-> k, keys |-> done]
    ELSE IF ~k.pasting /\ StartsAt(bytes, i, BytesOf.csip)
         THEN LegacyKeys([k EXCEPT !.at = 0], bytes, i + 4, Append(done, "p"))
         ELSE LegacyKeys(Observed(k, bytes[i]), bytes, i + 1, Append(done, bytes[i]))

(***************************************************************************)
(* One read: mouse reports, partial escapes, focus reports.                *)
(***************************************************************************)
FirstFinal(buf, i) ==
    LET ends == {j \in i .. Len(buf) : buf[j] = "M"}
    IN IF ends = {} THEN 0 ELSE CHOOSE j \in ends : \A other \in ends : j <= other

RECURSIVE ScanMouse(_, _, _, _)
\* scan_mouse; a report whose body does not parse is consumed and yields no
\* event.
ScanMouse(buf, i, pass, events) ==
    IF i > Len(buf) THEN [pass |-> pass, events |-> events, leftover |-> <<>>]
    ELSE IF StartsAt(buf, i, <<"e", "[">>) /\ i + 1 = Len(buf)
         THEN [pass |-> pass, events |-> events, leftover |-> From(buf, i)]
    ELSE IF StartsAt(buf, i, <<"e", "[", "<">>)
         THEN IF FirstFinal(buf, i + 3) = 0
              THEN [pass |-> pass, events |-> events, leftover |-> From(buf, i)]
              ELSE ScanMouse(buf, FirstFinal(buf, i + 3) + 1, pass,
                             IF SubSeq(buf, i + 3, FirstFinal(buf, i + 3) - 1) = <<"d">>
                             THEN events + 1 ELSE events)
    ELSE ScanMouse(buf, i + 1, Append(pass, buf[i]), events)

LastEscape(bytes) ==
    LET at == {i \in 1 .. Len(bytes) : bytes[i] = "e"}
    IN IF at = {} THEN 0 ELSE CHOOSE i \in at : \A other \in at : other <= i

\* Slip: only a lone final Escape is held back.
PartialAtLoneEscape(bytes) == IF LastEscape(bytes) = Len(bytes) /\ bytes # <<>> THEN Len(bytes) ELSE 0

\* split_partial_escape: where the unfinished escape begins, 0 for none.
PartialAt(bytes) ==
    LET esc == LastEscape(bytes)
    IN IF /\ esc # 0
          /\ \/ esc = Len(bytes)
             \/ bytes[esc + 1] = "[" /\ \A i \in esc + 2 .. Len(bytes) : bytes[i] \notin Finals
       THEN esc ELSE 0

\* incomplete_csi_key: CSI with digits only, which no lone Escape can be.
IncompleteCsi(bytes) ==
    StartsAt(bytes, 1, <<"e", "[">>) /\ Len(bytes) > 2 /\ \A i \in 3 .. Len(bytes) : bytes[i] = "d"

RECURSIVE StripFocus(_, _, _)
\* strip_focus_events.
StripFocus(bytes, i, done) ==
    IF i > Len(bytes) THEN done
    ELSE IF StartsAt(bytes, i, BytesOf.focus) THEN StripFocus(bytes, i + 3, done)
         ELSE StripFocus(bytes, i + 1, Append(done, bytes[i]))

(***************************************************************************)
(* The prefix and the picker it opens.                                     *)
(***************************************************************************)
RECURSIVE PrefixAt(_, _, _, _)
\* The first prefix outside a paste that begin_quick_actions acts on.
PrefixAt(k, bytes, i, nested) ==
    IF i > Len(bytes) THEN 0
    ELSE IF /\ bytes[i] = "p" /\ ~Literal(k, Observed(k, bytes[i]))
            /\ nested => i < Len(bytes) /\ bytes[i + 1] = "p"
         THEN i
         ELSE PrefixAt(Observed(k, bytes[i]), bytes, i + 1, nested)

RECURSIVE ObserveAll(_, _, _)
ObserveAll(k, bytes, i) == IF i > Len(bytes) THEN k ELSE ObserveAll(Observed(k, bytes[i]), bytes, i + 1)

\* The picker opens at byte `at`; what was typed before it goes to the Pane.
OpenedAt(s, bytes, at, used) ==
    [s EXCEPT !.menu = "pick", !.pending = FALSE, !.outer = FALSE,
              !.paste = ObserveAll(@, SubSeq(bytes, 1, at + used - 1), 1),
              !.sent = @ \o (IF s.nested /\ s.pending /\ at > 1 THEN <<"p">> ELSE <<>>)
                         \o SubSeq(bytes, 1, at - 1)]

\* begin_quick_actions: [s, rest].
QuickActions(s, bytes) ==
    IF s.nested /\ s.pending /\ bytes # <<>> /\ bytes[1] = "p"
    THEN [s |-> OpenedAt(s, bytes, 1, 1), rest |-> From(bytes, 2)]
    ELSE IF (s.pending /\ ~s.nested) \/ PrefixAt(s.paste, bytes, 1, s.nested) = 0
         THEN [s |-> s, rest |-> bytes]
         ELSE LET at == PrefixAt(s.paste, bytes, 1, s.nested)
                  used == IF s.nested THEN 2 ELSE 1
              IN [s |-> OpenedAt(s, bytes, at, used), rest |-> From(bytes, at + used)]

\* The keys on which the picker starts its search instead of running a
\* binding (prepare_keys): here an arrow and Escape.
StartsSearch(bytes) == bytes = <<"e">> \/ StartsAt(bytes, 1, BytesOf.up)

Rearmed(s) == [s EXCEPT !.menu = "none", !.pending = TRUE, !.outer = s.nested]

\* The picker before the keys reach it: a literal prefix or a bound key closes
\* it and arms the prefix again.
Prepared(s, bytes) ==
    IF s.menu # "pick" \/ bytes = <<>> THEN s
    ELSE IF StartsSearch(bytes) THEN [s EXCEPT !.menu = "search"]
    ELSE Rearmed(s)

\* Palette::handle and handle_menu_keys: Escape closes the picker and drops
\* what follows it, every other key edits the query.
PickerKeys(s, bytes) ==
    IF bytes # <<>> /\ LastEscape(bytes) = Len(bytes) THEN [s EXCEPT !.menu = "none"] ELSE s

\* A key with the prefix armed: its command, a literal prefix, or the prefix
\* and the key.
ArmedKey(s, b) ==
    [s EXCEPT !.pending = FALSE, !.outer = FALSE,
              !.sent = IF b = "c" THEN Append(@, "command")
                       ELSE IF b = "p" THEN Append(@, "p") ELSE @ \o <<"p", b>>]

\* One byte while a nested client owns single prefixes.
NestedByte(s, b) ==
    IF s.pending
    THEN IF b = "p" THEN [s EXCEPT !.pending = FALSE, !.outer = TRUE]
         ELSE [s EXCEPT !.pending = FALSE, !.sent = @ \o <<"p", b>>]
    ELSE IF b = "p" THEN [s EXCEPT !.pending = TRUE]
         ELSE [s EXCEPT !.sent = Append(@, b)]

\* One byte of process_input_with_bindings.
ProcessByte(s, b) ==
    LET now == [s EXCEPT !.paste = Observed(@, b)]
    IN IF Literal(s.paste, now.paste) THEN [now EXCEPT !.sent = Append(@, b)]
       ELSE IF s.nested /\ ~s.outer THEN NestedByte(now, b)
       ELSE IF s.nested \/ s.pending THEN ArmedKey(now, b)
       ELSE IF b = "p" THEN [now EXCEPT !.pending = TRUE]
       ELSE [now EXCEPT !.sent = Append(@, b)]

RECURSIVE ProcessInput(_, _, _)
ProcessInput(s, bytes, i) ==
    IF i > Len(bytes) THEN s ELSE ProcessInput(ProcessByte(s, bytes[i]), bytes, i + 1)

\* One armed key at a time; its tail waits in key_pending.
Commanded(s, bytes) ==
    IF (s.pending \/ s.outer) /\ bytes # <<>>
    THEN ProcessInput([s EXCEPT !.held = Tail(bytes) \o @], <<Head(bytes)>>, 1)
    ELSE ProcessInput(s, bytes, 1)

WithPicker(s, bytes) == IF s.menu # "none" THEN PickerKeys(s, bytes) ELSE Commanded(s, bytes)
Opened(q) == WithPicker(Prepared(q.s, q.rest), q.rest)
Decoded(s, l) ==
    Opened(IF s.menu = "none" THEN QuickActions([s EXCEPT !.board = l.board], l.keys)
           ELSE [s |-> [s EXCEPT !.board = l.board], rest |-> l.keys])

\* The body of the stdin loop for the keys of one read.
KeyChunk(s, bytes) == IF bytes = <<>> THEN s ELSE Decoded(s, LegacyKeys(s.board, bytes, 1, <<>>))

(***************************************************************************)
(* What a key means, whatever the reads look like.                         *)
(***************************************************************************)
Arms(key) == key \in {"p", "csip"}
Says(w, bytes, mode) == [w EXCEPT !.sent = @ \o bytes, !.mode = mode]

\* An escape key after a nested client's prefix, and a paste onto an armed
\* prefix, are marked odd.
Meant(w, key, nested) ==
    IF key = "mouse" THEN [w EXCEPT !.pointer = @ + 1]
    ELSE IF key = "focus" THEN w
    ELSE CASE w.mode = "idle" ->
                IF Arms(key) THEN [w EXCEPT !.mode = IF nested THEN "half" ELSE "pick"]
                ELSE Says(w, BytesOf[key], "idle")
           [] w.mode = "half" ->
                IF Arms(key) THEN [w EXCEPT !.mode = "pick"]
                ELSE [Says(w, <<"p">> \o BytesOf[key], "idle") EXCEPT
                        !.odd = @ \/ key \in {"esc", "up", "paste"}]
           [] w.mode = "pick" ->
                IF key = "esc" THEN [w EXCEPT !.mode = "idle"]
                ELSE IF key = "up" THEN [w EXCEPT !.mode = "search"]
                ELSE IF key = "c" THEN Says(w, <<"command">>, "idle")
                ELSE IF Arms(key) THEN Says(w, <<"p">>, "idle")
                ELSE [Says(w, <<"p">> \o BytesOf[key], "idle") EXCEPT !.odd = @ \/ key = "paste"]
           [] w.mode = "search" -> IF key = "esc" THEN [w EXCEPT !.mode = "idle"] ELSE w

(***************************************************************************)
(* The terminal and the client.                                            *)
(***************************************************************************)
Quiet == wire = <<>> /\ late = <<>> /\ leftover = <<>> /\ st.held = <<>>

\* Escape followed at once by another key is an Alt chord to every terminal
\* program, so a press after Escape waits until the client has read it; mouse
\* reports do not wait.
MayFollow(key) == (typed # <<>> /\ typed[Len(typed)] = "esc") => (key = "mouse" \/ Quiet)

\* A key is pressed; its bytes arrive together or in two pieces.
Type(key) ==
    /\ Len(typed) < MaxTyped /\ late = <<>> /\ MayFollow(key)
    /\ \E n \in 1 .. Len(BytesOf[key]) :
          /\ wire' = wire \o SubSeq(BytesOf[key], 1, n)
          /\ late' = From(BytesOf[key], n + 1)
    /\ typed' = Append(typed, key)
    /\ want' = Meant(want, key, st.nested)
    /\ UNCHANGED <<leftover, st, pointer, split, mixed>>

Arrive ==
    /\ late # <<>>
    /\ wire' = wire \o late /\ late' = <<>>
    /\ UNCHANGED <<leftover, st, pointer, typed, want, split, mixed>>

\* scan_stdin_chunk and the loop body, on what a read returned.
Scanned(raw, scan) ==
    LET cut == PartialAt(scan.pass)
        pass == IF cut = 0 THEN scan.pass ELSE SubSeq(scan.pass, 1, cut - 1)
        held == IF cut = 0 THEN <<>> ELSE From(scan.pass, cut)
    IN /\ leftover' = scan.leftover
       /\ pointer' = pointer + scan.events
       /\ st' = KeyChunk([st EXCEPT !.held = held], StripFocus(pass, 1, <<>>))

Read(n) ==
    /\ n \in 1 .. Len(wire)
    /\ wire' = From(wire, n + 1)
    /\ \E raw \in {leftover \o st.held \o SubSeq(wire, 1, n)} :
          \E scan \in {ScanMouse(raw, 1, <<>>, 0)} : Scanned(raw, scan)
    /\ mixed' = (mixed \/ (leftover # <<>> /\ st.held # <<>>))
    /\ UNCHANGED <<late, typed, want, split>>

\* The fd runs dry: a held-back piece that may be a lone Escape goes through.
Flush ==
    /\ wire = <<>> /\ st.held # <<>> /\ ~IncompleteCsi(st.held)
    /\ st' = KeyChunk([st EXCEPT !.held = <<>>], StripFocus(st.held, 1, <<>>))
    /\ split' = (split \/ late # <<>>)
    /\ UNCHANGED <<wire, late, leftover, pointer, typed, want, mixed>>

Next ==
    \/ \E key \in Keys : Type(key)
    \/ Arrive
    \/ \E n \in 1 .. 14 : Read(n)
    \/ Flush

Spec == Init /\ [][Next]_vars

(***************************************************************************)
(* Properties.                                                             *)
(***************************************************************************)
Understood == st.sent = want.sent /\ pointer = want.pointer /\ (st.menu = "none") = (want.mode \in {"idle", "half"})

\* Wherever the reads cut the stream, what reaches the Pane and the commands
\* that run are those of the keys pressed, in their order; a paste runs no
\* command.  Left out: a dry fd inside an Escape key, a read that joins two
\* held-back pieces, and the keys marked odd.
KeysMeanWhatTheySay ==
    Quiet /\ ~split /\ ~mixed /\ ~want.odd => Understood

\* A chunk joined from two held-back pieces keeps the order of its bytes.
ReadEdges == Quiet /\ ~split /\ ~want.odd => Understood

\* docs/14-ssh-remote-sessions.md:45: one configured prefix goes to the inner
\* client.  Whatever key follows it, the inner client sees the prefix first.
OnePrefixToInner == Quiet /\ ~split /\ ~mixed /\ st.nested /\ want.mode = "idle" => Understood
=============================================================================
