------------------------------ MODULE CopyMode ------------------------------
(***************************************************************************)
(* Copy-mode and the mouse over one Pane: uniterm-server/src/copymode.rs   *)
(* and the selection and wheel handlers of server/mouse.rs, while the      *)
(* Pane's program keeps printing.                                          *)
(*                                                                         *)
(* A line is [id, text]: id is the grid's line id, text stands for what    *)
(* the line says.  Columns are left out, so a selection is a range of      *)
(* lines.  Line numbers count from 0 over history and screen.              *)
(***************************************************************************)
EXTENDS Integers, Sequences, SequencesExt

CONSTANTS Rows,      \* height of the Pane
          Limit,     \* lines of history kept
          Wheel,     \* lines per wheel notch (3 in the code)
          MaxText    \* bound: texts printed

VARIABLES hist, screen,   \* the grid's lines
          nextId,         \* the grid's next line id
          texts,          \* texts printed so far
          copy,           \* <<>> or <<copy-mode state>>
          sel,            \* "none", "armed", "deferred" or "selecting": the left button
          press,          \* the row of the press
          appMouse,       \* the program asked for mouse reports
          freezes,        \* freeze-on-select
          marked,         \* the text the selection was anchored on, 0 for none
          gap             \* the program did more than scroll the whole screen

vars == <<hist, screen, nextId, texts, copy, sel, press, appMouse, freezes, marked, gap>>
grid == <<hist, screen, nextId, texts, gap>>
mouse == <<sel, press>>

Less(a, b) == IF a > b THEN a - b ELSE 0
Smaller(a, b) == IF a < b THEN a ELSE b
NoLine == -1

Lines == hist \o screen
FirstLineId == Lines[1].id

Init ==
    /\ hist = <<>> /\ screen = [i \in 1 .. Rows |-> [id |-> i, text |-> 0]]
    /\ nextId = Rows + 1 /\ texts = 0
    /\ copy = <<>> /\ sel = "none" /\ press = 0
    /\ appMouse \in BOOLEAN /\ freezes \in BOOLEAN
    /\ marked = 0 /\ gap = FALSE

(***************************************************************************)
(* The viewport.                                                           *)
(***************************************************************************)
\* With a freeze the buffer ends at the frozen rows.
TotalOf(c, lines) == IF c.frozen = <<>> THEN Len(lines) ELSE c.start + Rows
TotalLines(c) == TotalOf(c, Lines)
MaxTop(c) == Less(TotalLines(c), Rows)
CursorLine(c) == c.top + c.cy
\* The text of a line: from the frozen copy while one is held.
TextAt(c, line) ==
    IF c.frozen # <<>> /\ line >= c.start THEN c.frozen[line - c.start + 1].text
    ELSE IF line < Len(Lines) THEN Lines[line + 1].text ELSE 0

\* CopyState::new: at the bottom, showing the live screen.
Opened(freeze) ==
    [top |-> Less(Len(Lines), Rows), cy |-> Rows - 1, anchor |-> NoLine, first |-> FirstLineId,
     freeze |-> freeze, frozen |-> <<>>, start |-> 0, finished |-> FALSE]

Frozen(c) ==
    IF c.freeze /\ c.frozen = <<>> THEN [c EXCEPT !.frozen = screen, !.start = Len(hist)] ELSE c

\* A line inside the freeze keeps its distance to the freeze's start.
Shifted(c, line, n) ==
    IF c.frozen # <<>> /\ line >= c.start THEN Less(c.start, n) + (line - c.start)
    ELSE IF line >= n THEN line - n ELSE NoLine

\* Slip: the anchor is not moved with the evicted history.
EvictTopOnly(c, n) ==
    [c EXCEPT !.top = IF Shifted(c, @, n) = NoLine THEN 0 ELSE Shifted(c, @, n),
              !.start = Less(@, n)]

Evict(c, n) ==
    [c EXCEPT !.top = IF Shifted(c, @, n) = NoLine THEN 0 ELSE Shifted(c, @, n),
              !.anchor = IF @ = NoLine THEN NoLine ELSE Shifted(c, @, n),
              !.start = Less(@, n)]

\* sync_history: the ids of the oldest lines tell how many were evicted.
SyncHistory(c, lines) ==
    LET moved == Evict(c, Less(lines[1].id, c.first))
    IN [moved EXCEPT !.first = lines[1].id,
                     !.top = Smaller(@, Less(TotalOf(moved, lines), Rows))]
Synced(c) == SyncHistory(c, Lines)

(***************************************************************************)
(* The Pane's program.  Every read is followed by sync_history.            *)
(***************************************************************************)
Follows == copy' = IF copy = <<>> THEN <<>> ELSE <<SyncHistory(copy[1], Lines')>>

Kept(lines) == SubSeq(lines, Less(Len(lines), Limit) + 1, Len(lines))

\* A line feed at the bottom of the whole screen.
Scroll ==
    /\ texts < MaxText /\ texts' = texts + 1
    /\ hist' = Kept(Append(hist, screen[1]))
    /\ screen' = Append(Tail(screen), [id |-> nextId, text |-> texts + 1])
    /\ nextId' = nextId + 1
    /\ UNCHANGED gap

\* A scroll region that ends above the last row, or deleted and inserted lines:
\* a line leaves from the middle and a new id appears there.
ScrollPart(keep) ==
    /\ texts < MaxText /\ texts' = texts + 1
    /\ hist' = IF keep THEN Kept(Append(hist, screen[1])) ELSE hist
    /\ screen' = InsertAt(Tail(screen), Rows - 1, [id |-> nextId, text |-> texts + 1])
    /\ nextId' = nextId + 1
    /\ gap' = TRUE

\* A row is rewritten in place; its id stays.
Repaint(y) ==
    /\ texts < MaxText /\ texts' = texts + 1
    /\ screen' = [screen EXCEPT ![y].text = texts + 1]
    /\ UNCHANGED <<hist, nextId, gap>>

\* The text that was marked is overwritten on the live screen.
Overwritten(y) == copy # <<>> /\ copy[1].frozen = <<>> /\ copy[1].anchor = Len(hist) + y - 1

Output ==
    /\ \/ Scroll /\ UNCHANGED marked
       \/ \E keep \in BOOLEAN : ScrollPart(keep) /\ UNCHANGED marked
       \/ \E y \in 1 .. Rows : Repaint(y) /\ marked' = IF Overwritten(y) THEN 0 ELSE marked
    /\ Follows
    /\ UNCHANGED <<mouse, appMouse, freezes>>

ChangeMode ==
    /\ appMouse' = ~appMouse
    /\ UNCHANGED <<grid, copy, mouse, freezes, marked>>

\* Relayout: the rows may be renumbered, so the selection is dropped and a freeze
\* is taken again; a viewer at the bottom stays there.
Relayout ==
    /\ copy # <<>>
    /\ LET c == copy[1]
           held == IF c.frozen = <<>> THEN c ELSE [c EXCEPT !.frozen = screen, !.start = Len(hist)]
       IN copy' = <<[held EXCEPT !.top = IF c.top = MaxTop(c) THEN MaxTop(held)
                                         ELSE Smaller(@, MaxTop(held)),
                                 !.anchor = NoLine, !.first = FirstLineId]>>
    /\ marked' = 0
    /\ UNCHANGED <<grid, mouse, appMouse, freezes>>

(***************************************************************************)
(* Keys in copy-mode.                                                      *)
(***************************************************************************)
Enter ==
    /\ copy = <<>>
    /\ copy' = <<Opened(freezes)>>
    /\ UNCHANGED <<grid, mouse, appMouse, freezes, marked>>

Up(c) == IF c.cy > 0 THEN [c EXCEPT !.cy = @ - 1] ELSE [c EXCEPT !.top = Less(@, 1)]
Down(c) ==
    IF CursorLine(c) >= Less(TotalLines(c), 1) THEN c
    ELSE IF c.cy < Rows - 1 THEN [c EXCEPT !.cy = @ + 1]
    ELSE [c EXCEPT !.top = Smaller(@ + 1, MaxTop(c))]
Half == IF Rows \div 2 > 1 THEN Rows \div 2 ELSE 1
Page(c, up) == [c EXCEPT !.top = IF up THEN Less(@, Half) ELSE Smaller(@ + Half, MaxTop(c))]
GoTop(c) == [c EXCEPT !.top = 0, !.cy = 0]
GoBottom(c) == [c EXCEPT !.top = MaxTop(c), !.cy = Rows - 1]
\* A search lands on a line and shows it, at the top of the viewport if it can.
Found(c, line) == [c EXCEPT !.top = Smaller(line, MaxTop(c)),
                            !.cy = line - Smaller(line, MaxTop(c))]

Moves(c) == {Up(c), Down(c), Page(c, TRUE), Page(c, FALSE), GoTop(c), GoBottom(c)}
            \union {Found(c, line) : line \in 0 .. TotalLines(c) - 1}
Move ==
    /\ copy # <<>>
    /\ \E c \in Moves(Synced(copy[1])) : copy' = <<c>>
    /\ UNCHANGED <<grid, mouse, appMouse, freezes, marked>>

\* v: anchors at the cursor's line, or drops the selection and the freeze.
Mark ==
    /\ copy # <<>>
    /\ LET c == Synced(copy[1])
           held == Frozen(c)
       IN IF c.anchor # NoLine
          THEN /\ copy' = <<[c EXCEPT !.anchor = NoLine, !.frozen = <<>>, !.start = 0]>>
               /\ marked' = 0
          ELSE /\ copy' = <<[held EXCEPT !.anchor = CursorLine(held)]>>
               /\ marked' = TextAt(held, CursorLine(held))
    /\ UNCHANGED <<grid, mouse, appMouse, freezes>>

\* y or Enter copies, Esc or q does not; both return to the live screen.
Leave ==
    /\ copy # <<>>
    /\ copy' = <<>> /\ marked' = 0
    /\ UNCHANGED <<grid, mouse, appMouse, freezes>>

(***************************************************************************)
(* The mouse.  A press the program gets at once is not armed.              *)
(***************************************************************************)
\* With freeze-on-select the press is withheld until the release says what it was.
Press(y) ==
    LET owns == copy = <<>> /\ appMouse
    IN /\ sel = "none"
       /\ press' = y
       /\ sel' = IF owns /\ ~freezes THEN "none" ELSE IF owns THEN "deferred" ELSE "armed"
       /\ UNCHANGED <<grid, copy, appMouse, freezes, marked>>

\* The first drag opens copy-mode if needed and anchors at the press.
Drag(y) ==
    LET c == IF copy = <<>> THEN Opened(FALSE) ELSE copy[1]
        held == [Frozen([c EXCEPT !.freeze = freezes]) EXCEPT !.cy = press, !.finished = FALSE]
    IN /\ sel # "none"
       /\ copy' = IF sel = "selecting" THEN <<[c EXCEPT !.cy = y]>>
                  ELSE <<[held EXCEPT !.anchor = CursorLine(held), !.cy = y]>>
       /\ marked' = IF sel = "selecting" THEN marked ELSE TextAt(held, CursorLine(held))
       /\ sel' = "selecting"
       /\ UNCHANGED <<grid, press, appMouse, freezes>>

\* A plain click goes to the program whole or dismisses a kept selection; a drag
\* is copied (copy-on-select) or kept on screen.
Release(copies) ==
    /\ sel # "none" /\ sel' = "none"
    /\ IF sel = "selecting"
       THEN /\ copy' = IF copies \/ copy = <<>> THEN <<>> ELSE <<[copy[1] EXCEPT !.finished = TRUE]>>
            /\ marked' = IF copy' = <<>> THEN 0 ELSE marked
       ELSE IF sel = "armed" /\ copy # <<>> /\ copy[1].finished
       THEN copy' = <<>> /\ marked' = 0
       ELSE UNCHANGED <<copy, marked>>
    /\ UNCHANGED <<grid, press, appMouse, freezes>>

\* The wheel scrolls copy-mode, opens it on a plain screen with history, and
\* leaves it at the live bottom.
WheelUp ==
    /\ copy # <<>> \/ (~appMouse /\ hist # <<>>)
    /\ LET c == IF copy = <<>> THEN Opened(freezes) ELSE copy[1]
       IN copy' = <<[c EXCEPT !.top = Less(@, Wheel)]>>
    /\ UNCHANGED <<grid, mouse, appMouse, freezes, marked>>
WheelDown ==
    /\ copy # <<>>
    /\ LET c == copy[1]
           top == Smaller(c.top + Wheel, MaxTop(c))
       IN IF top = MaxTop(c) THEN copy' = <<>> /\ marked' = 0
          ELSE copy' = <<[c EXCEPT !.top = top]>> /\ UNCHANGED marked
    /\ UNCHANGED <<grid, mouse, appMouse, freezes>>

Next ==
    \/ Output \/ ChangeMode \/ Relayout
    \/ Enter \/ Move \/ Mark \/ Leave
    \/ \E y \in 0 .. Rows - 1 : Press(y) \/ Drag(y)
    \/ \E copies \in BOOLEAN : Release(copies)
    \/ WheelUp \/ WheelDown

Spec == Init /\ [][Next]_vars

(***************************************************************************)
(* Properties.                                                             *)
(***************************************************************************)
\* The viewport and the cursor never leave the lines there are.
ViewportInBuffer ==
    copy # <<>> =>
       LET c == copy[1]
       IN /\ c.top <= MaxTop(c) /\ c.cy \in 0 .. Rows - 1
          /\ CursorLine(c) < TotalLines(c)
          /\ c.anchor < TotalLines(c)

\* "Holds still while output scrolls": the line a selection is anchored on still
\* says what it said when the selection began, however much history was evicted.
HoldsStill ==
    (copy # <<>> /\ copy[1].anchor # NoLine /\ marked # 0) =>
       TextAt(copy[1], copy[1].anchor) = marked
\* The same while the program only scrolls the whole screen and rewrites rows.
HoldsStillWhenScrolling == gap \/ HoldsStill
=============================================================================
