------------------------------ MODULE Terminal ------------------------------
(***************************************************************************)
(* The emulator of one Pane (uniterm-server/src/terminal.rs) over the grid *)
(* of uniterm-core/src/grid.rs, and what an attached client shows of it    *)
(* (renderer.rs).  The grid's operations come first.                       *)
(*                                                                         *)
(* One action is one control sequence or character the Pane's program      *)
(* sends, a resize, or a frame.  Sequences with the same effect on grid    *)
(* and cursor share an action.  Without Paint a frame follows every        *)
(* sequence at once.                                                       *)
(*                                                                         *)
(* A grid is [lines, sb, limit, dmg, scroll]: the visible rows, the        *)
(* history above them, how many rows history may keep, the damaged columns *)
(* of each visible row, and how many whole-screen scrolls no client has    *)
(* been sent yet.  A row is [cells, wrapped].  A cell is "." (blank in the *)
(* default style), a one-column glyph, "W" the lead of a two-column glyph, *)
(* "_" its second column, or "w" a two-column glyph squeezed into a        *)
(* one-column grid.  Colours, attributes and link handles are left out:    *)
(* every cell has the default style.  Columns and rows count from 0.       *)
(***************************************************************************)
EXTENDS Integers, Sequences, FiniteSets, SequencesExt, FiniteSetsExt

Smaller(a, b) == IF a < b THEN a ELSE b
Larger(a, b) == IF a > b THEN a ELSE b
Less(a, b) == IF a > b THEN a - b ELSE 0

Blanks(n) == [i \in 1 .. n |-> "."]
BlankRow(w) == [cells |-> Blanks(w), wrapped |-> FALSE]
AllDamaged(w, h) == [y \in 1 .. h |-> 1 .. w]
NoDamage(h) == [y \in 1 .. h |-> {}]
\* A new grid, marked for a full repaint.
Fresh(w, h, limit) ==
    [lines |-> [i \in 1 .. h |-> BlankRow(w)], sb |-> <<>>, limit |-> limit,
     dmg |-> AllDamaged(w, h), scroll |-> 0]
Width(g) == Len(g.lines[1].cells)
Height(g) == Len(g.lines)

\* The cells up to the last one that is not blank.
Trimmed(cells) ==
    SubSeq(cells, 1, CHOOSE n \in 0 .. Len(cells) :
                        /\ n > 0 => cells[n] # "."
                        /\ \A i \in n + 1 .. Len(cells) : cells[i] = ".")
\* Only a row that ends in a hard newline gives up its blank tail.
TrimTail(row) == IF row.wrapped THEN row ELSE [row EXCEPT !.cells = Trimmed(@)]

(***************************************************************************)
(* Editing one row.  Whatever touches one half of a wide glyph takes the   *)
(* other half with it.                                                     *)
(***************************************************************************)
Erased(cells, from, to) ==
    LET hit(i) == i \in from + 1 .. to
    IN [i \in DOMAIN cells |->
          IF hit(i) \/ (cells[i] = "W" /\ hit(i + 1)) \/ (cells[i] = "_" /\ hit(i - 1))
          THEN "." ELSE cells[i]]

Repaired(cells) ==
    [i \in DOMAIN cells |->
       IF \/ cells[i] = "_" /\ (i = 1 \/ cells[i - 1] # "W")
          \/ cells[i] = "W" /\ (i = Len(cells) \/ cells[i + 1] # "_")
       THEN "." ELSE cells[i]]

\* Slip: the columns are moved and the glyph the boundary cut is left in half.
DeletedRaw(cells, from, n) ==
    [i \in DOMAIN cells |->
       IF i <= from THEN cells[i]
       ELSE IF i + n <= Len(cells) THEN cells[i + n] ELSE "."]

Deleted(cells, from, n) ==
    Repaired([i \in DOMAIN cells |->
                IF i <= from THEN cells[i]
                ELSE IF i + n <= Len(cells) THEN cells[i + n] ELSE "."])

Inserted(cells, from, n) ==
    Repaired([i \in DOMAIN cells |->
                IF i <= from THEN cells[i]
                ELSE IF i > from + n THEN cells[i - n] ELSE "."])

\* One complete glyph; a wide one that does not fit is not written at all.
PutGlyph(cells, x, glyph) ==
    IF glyph # "W" THEN [Erased(cells, x, x + 1) EXCEPT ![x + 1] = glyph]
    ELSE IF x + 1 >= Len(cells) THEN cells
    ELSE [Erased(cells, x, x + 2) EXCEPT ![x + 1] = "W", ![x + 2] = "_"]

\* Row y rewritten; damage is one column range per row, widened to what changed.
SetRow(g, y, cells) ==
    LET old == g.lines[y + 1].cells
        dirty == g.dmg[y + 1] \union {i \in DOMAIN old : old[i] # cells[i]}
    IN [g EXCEPT !.lines[y + 1].cells = cells,
                 !.dmg[y + 1] = IF dirty = {} THEN {} ELSE Min(dirty) .. Max(dirty)]

SetRowWrapped(g, y, flag) == [g EXCEPT !.lines[y + 1].wrapped = flag]
ClearDamage(g) == [g EXCEPT !.dmg = NoDamage(Height(g)), !.scroll = 0]

(***************************************************************************)
(* Scrolling.                                                              *)
(***************************************************************************)
PushScrollback(sb, row, limit) ==
    LET grown == Append(sb, row)
    IN SubSeq(grown, Less(Len(grown), limit) + 1, Len(grown))

Moved(lines, from, to, row) == InsertAt(RemoveAt(lines, from), to, row)

RowsDamaged(g, top, bot) ==
    [y \in DOMAIN g.dmg |-> IF y \in top + 1 .. bot + 1 THEN 1 .. Width(g) ELSE g.dmg[y]]

\* Slip: the bottom row is damaged and the other rows' damage stays in place.
DamageAfterScrollInPlace(dmg, w) == [dmg EXCEPT ![Len(dmg)] = 1 .. w]

DamageAfterScroll(dmg, w) == Append(Tail(dmg), 1 .. w)

\* The whole screen: damage moves with the rows and the scroll is left pending.
ScrollUp(g) ==
    [g EXCEPT !.lines = Moved(@, 1, Height(g), BlankRow(Width(g))),
              !.sb = PushScrollback(@, TrimTail(g.lines[1]), g.limit),
              !.dmg = DamageAfterScroll(@, Width(g)),
              !.scroll = Smaller(@ + 1, Height(g))]

\* keep is FALSE for the line-editing commands, which discard what they delete.
ScrollRegionUp(g, top, bot, keep) ==
    IF keep /\ top = 0 /\ bot = Height(g) - 1 THEN ScrollUp(g)
    ELSE [g EXCEPT !.lines = Moved(@, top + 1, bot + 1, BlankRow(Width(g))),
                   !.sb = IF keep /\ top = 0 THEN PushScrollback(@, g.lines[1], g.limit) ELSE @,
                   !.dmg = RowsDamaged(g, top, bot), !.scroll = 0]

ScrollRegionDown(g, top, bot) ==
    [g EXCEPT !.lines = Moved(@, bot + 1, top + 1, BlankRow(Width(g))),
              !.dmg = RowsDamaged(g, top, bot), !.scroll = 0]

(***************************************************************************)
(* Reflow: history and screen are joined into logical lines, each is cut   *)
(* again at the new width, and the viewport is placed on the result.       *)
(***************************************************************************)
IsLead(c) == c # "_"
\* What a row gives to its logical line.
RowLeads(row, w) ==
    LET leads == SelectSeq(row.cells, IsLead)
    IN IF row.wrapped THEN leads \o Blanks(Less(w, Len(row.cells))) ELSE Trimmed(leads)

StoredWidth(leads) == Len(leads) + Len(SelectSeq(leads, LAMBDA c : c = "W"))

\* One more glyph of a logical line: the open row is closed as a wrapped one
\* when the glyph does not fit.
CutStep(w, acc, lead) ==
    LET wide == lead \in {"W", "w"}
        size == IF wide THEN Smaller(2, w) ELSE 1
        full == acc.row # <<>> /\ Len(acc.row) + size > w
        cells == IF ~wide THEN <<lead>> ELSE IF size = 2 THEN <<"W", "_">> ELSE <<"w">>
    IN IF full
       THEN [rows |-> Append(acc.rows, [cells |-> acc.row \o Blanks(w - Len(acc.row)),
                                        wrapped |-> TRUE]),
             row |-> cells]
       ELSE [acc EXCEPT !.row = @ \o cells]

CloseLine(cut) == Append(cut.rows, [cells |-> Trimmed(cut.row), wrapped |-> FALSE])
EmitLogicalLine(leads, w) ==
    CloseLine(FoldLeft(LAMBDA acc, lead : CutStep(w, acc, lead),
                       [rows |-> <<>>, row |-> <<>>], leads))

\* A logical line is complete: its rows follow those already cut, and spans
\* records the first of them and their number.
AddLine(acc, rows) ==
    [acc EXCEPT !.leads = <<>>, !.rows = @ \o rows,
                !.spans = Append(@, [first |-> Len(acc.rows), count |-> Len(rows)])]

\* Where an old row starts: logical line and offset in it.
StartOf(acc) == [line |-> Len(acc.spans), offset |-> StoredWidth(acc.leads)]

\* Reading one old row, and noting where the cursor and the former top of the
\* screen fall.
ReadRow(g, cursor, acc, row) ==
    [acc EXCEPT !.index = @ + 1,
                !.leads = @ \o RowLeads(row, Width(g)),
                !.cursor = IF acc.index = Len(g.sb) + cursor.y
                           THEN [StartOf(acc) EXCEPT !.offset = @ + cursor.x] ELSE @,
                !.screen = IF acc.index = Len(g.sb) THEN StartOf(acc) ELSE @]

EndRow(w, read, row) ==
    IF row.wrapped THEN read ELSE AddLine(read, EmitLogicalLine(read.leads, w))

\* An unfinished logical line is emitted last.
EndRows(w, read) ==
    IF read.leads = <<>> /\ read.spans # <<>> THEN read
    ELSE AddLine(read, EmitLogicalLine(read.leads, w))

\* Every retained row read.
Reflowed(g, w, cursor) ==
    EndRows(w, FoldLeft(LAMBDA acc, row : EndRow(w, ReadRow(g, cursor, acc, row), row),
                        [index |-> 0, leads |-> <<>>, rows |-> <<>>, spans |-> <<>>,
                         cursor |-> [line |-> 0, offset |-> 0],
                         screen |-> [line |-> 0, offset |-> 0]],
                        g.sb \o g.lines))

\* The row a position of a logical line lands on; a line that was not emitted
\* falls back to the first row.
LandsOn(spans, line, row) ==
    IF line >= Len(spans) THEN 0
    ELSE spans[line + 1].first + Smaller(row, spans[line + 1].count - 1)

\* The last row with content, plus one.
ContentEnd(rows) ==
    CHOOSE n \in 0 .. Len(rows) :
       /\ n > 0 => rows[n].wrapped \/ rows[n].cells # <<>>
       /\ \A i \in n + 1 .. Len(rows) : ~rows[i].wrapped /\ rows[i].cells = <<>>

\* A taller viewport keeps its former top row unless the cursor or the content
\* would fall below it; otherwise the viewport is the last h rows.
PlaceScreen(rows, w, h, taller, screen, cursorRow) ==
    LET first == Larger(screen, Less(cursorRow + 1, h))
        needed == Larger(ContentEnd(rows), cursorRow + 1)
        start == IF Len(rows) > first + h THEN Larger(first, Less(needed, h)) ELSE first
        missing == Less(h, Len(rows))
    IN IF taller
       THEN [start |-> start, cursor |-> cursorRow,
             rows |-> SubSeq(rows, 1, Smaller(Len(rows), start + h))
                      \o [i \in 1 .. Less(start + h, Len(rows)) |-> BlankRow(w)]]
       ELSE [start |-> Less(Len(rows), h), cursor |-> cursorRow + missing,
             rows |-> [i \in 1 .. missing |-> BlankRow(w)] \o rows]

\* Slip: the oldest rows stay when history has no room for all.
HistoryAboveOldest(rows, start, limit) == SubSeq(rows, 1, Smaller(start, limit))

\* The rows above the viewport that history has room for.
HistoryAbove(rows, start, limit) == SubSeq(rows, Less(start, limit) + 1, start)

PadRow(row, w) == [row EXCEPT !.cells = @ \o Blanks(Less(w, Len(@)))]

\* The grid whose viewport is the h rows from placed.start on.
OnScreen(g, w, h, placed) ==
    [lines |-> [i \in 1 .. h |-> PadRow(placed.rows[placed.start + i], w)],
     sb |-> HistoryAbove(placed.rows, placed.start, g.limit),
     limit |-> g.limit, dmg |-> AllDamaged(w, h), scroll |-> 0]

\* A cursor waiting to wrap stays on the last column when its line ends there.
AtEdge(w, pend, offset) == pend /\ offset % w = 0 /\ offset # 0

ReflowResult(g, w, h, pend, offset, placed) ==
    [grid |-> OnScreen(g, w, h, placed),
     x |-> IF AtEdge(w, pend, offset) THEN w - 1 ELSE offset % w,
     y |-> Smaller(Less(placed.cursor, placed.start), h - 1),
     pend |-> AtEdge(w, pend, offset)]

PlaceFlow(g, w, h, pend, flow) ==
    LET at == flow.cursor
        row == IF AtEdge(w, pend, at.offset) THEN at.offset \div w - 1 ELSE at.offset \div w
    IN ReflowResult(g, w, h, pend, at.offset,
                    PlaceScreen(flow.rows, w, h, h > Height(g),
                                LandsOn(flow.spans, flow.screen.line, flow.screen.offset \div w),
                                LandsOn(flow.spans, at.line, row)))

ReflowWidth(g, w, h, cursor) ==
    PlaceFlow(g, w, h, cursor.pend, Reflowed(g, w, cursor))

\* cursor is [x, y, pend], x one past the last column while a wrap is pending.
ResizeReflow(g, w, h, cursor) ==
    LET gone == Less(Height(g), h)
        x == Smaller(IF cursor.pend THEN cursor.x - 1 ELSE cursor.x, w - 1)
        leave(sb, row) == PushScrollback(sb, TrimTail(row), g.limit)
    IN IF w # Width(g) THEN ReflowWidth(g, w, h, cursor)
       ELSE [grid |-> [g EXCEPT
                         !.lines = SubSeq(@, gone + 1, Len(@))
                                   \o [i \in 1 .. Less(h, Height(g)) |-> BlankRow(w)],
                         !.sb = FoldLeft(leave, @, SubSeq(g.lines, 1, gone)),
                         !.dmg = AllDamaged(w, h), !.scroll = 0],
             x |-> x, y |-> Less(cursor.y, gone), pend |-> cursor.pend]

\* Every glyph of a grid in reading order.
Glyphs(g) ==
    LET visible(c) == c \notin {".", "_"}
        glyph(c) == IF c = "w" THEN "W" ELSE c
        ofRow(row) == LET s == SelectSeq(row.cells, visible) IN [i \in DOMAIN s |-> glyph(s[i])]
    IN FlattenSeq([i \in DOMAIN (g.sb \o g.lines) |-> ofRow((g.sb \o g.lines)[i])])

\* Every row has the grid's width (history rows may be shorter) and no half of a
\* wide glyph stands alone.
RowsAreWhole(g, w) ==
    /\ \A i \in DOMAIN g.lines : Len(g.lines[i].cells) = w
    /\ Len(g.sb) <= g.limit
    /\ \A i \in DOMAIN (g.sb \o g.lines) :
          LET cells == (g.sb \o g.lines)[i].cells IN Repaired(cells) = cells

-----------------------------------------------------------------------------
(* The emulator *)


CONSTANTS Sizes,     \* the <<width, height>> pairs a Pane is given
          Limit,     \* the configured history limit
          Chars,     \* what the program prints: "a" (one column), "W" (two)
          Counts,    \* the parameters of the editing sequences
          Features,  \* which optional sequences the program uses
          Paint,     \* whether frames are separate steps
          MaxSeq     \* bound: sequences sent

VARIABLES g,         \* the active grid
          cur,       \* [x, y, pend]: the cursor and the deferred wrap
          region,    \* [top, bot] of DECSTBM
          mode,      \* the set modes among "autowrap", "origin", "insert"
          saved,     \* <<>> or <<cursor>>: DECSC
          alt,       \* <<>> or <<[g, cur]>>: the stashed primary screen
          shown,     \* what a client shows
          mixed,     \* a region scrolled while a whole-screen scroll was pending
          count

vars == <<g, cur, region, mode, saved, alt, shown, mixed, count>>

W == Width(g)
H == Height(g)
FullRegion(h) == [top |-> 0, bot |-> h - 1]
Origin == [x |-> 0, y |-> 0, pend |-> FALSE]
Screen(grid) == [y \in DOMAIN grid.lines |-> grid.lines[y].cells]

TypeOK ==
    /\ cur.x \in 0 .. W - 1 /\ cur.y \in 0 .. H - 1 /\ cur.pend \in BOOLEAN
    /\ region.top \in 0 .. region.bot /\ region.bot \in 0 .. H - 1
    /\ mode \subseteq {"autowrap", "origin", "insert"}
    /\ Len(alt) <= 1 /\ Len(saved) <= 1 /\ count \in 0 .. MaxSeq

Init ==
    /\ \E s \in Sizes : /\ g = ClearDamage(Fresh(s[1], s[2], Limit))
                        /\ region = FullRegion(s[2])
                        /\ shown = IF Paint THEN Screen(Fresh(s[1], s[2], 0)) ELSE <<>>
    /\ cur = Origin /\ mode = {"autowrap"} /\ saved = <<>> /\ alt = <<>>
    /\ mixed = FALSE /\ count = 0

\* The grid and the cursor a step leaves.
Leaves(grid, cursor) ==
    /\ g' = IF Paint THEN grid ELSE ClearDamage(grid)
    /\ cur' = cursor
    /\ LET meets == mixed \/ (g.scroll > 0 /\ grid.scroll = 0)
       IN mixed' = (Paint /\ meets /\ grid.dmg # AllDamaged(Width(grid), Height(grid)))

\* One sequence of the program's.
Sends(grid, cursor) == count < MaxSeq /\ count' = count + 1 /\ Leaves(grid, cursor)

Keeps == UNCHANGED <<region, mode, saved, alt, shown>>

(***************************************************************************)
(* Printing.  Helpers work on [g, x, y].                                   *)
(***************************************************************************)
\* linefeed: scrolls at the bottom of the region, stops at the last row.
LineFeed(at) ==
    IF at.y = region.bot THEN [at EXCEPT !.g = ScrollRegionUp(@, region.top, region.bot, TRUE)]
    ELSE [at EXCEPT !.y = Smaller(@ + 1, H - 1)]

\* The row is marked as soft-wrapped and printing goes on at the next one.
WrapLine(at) == LineFeed([at EXCEPT !.g = SetRowWrapped(@, at.y, TRUE), !.x = 0])

Put(at, glyph) == SetRow(at.g, at.y, PutGlyph(at.g.lines[at.y + 1].cells, at.x, glyph))

\* The cursor after a glyph of that width at at.
After(at, size) ==
    IF at.x + size >= W
    THEN [x |-> W - 1, y |-> at.y, pend |-> "autowrap" \in mode]
    ELSE [x |-> at.x + size, y |-> at.y, pend |-> FALSE]

PrintChar(char) ==
    LET auto == "autowrap" \in mode
        here == [g |-> g, x |-> cur.x, y |-> cur.y]
        begun == IF cur.pend /\ auto THEN WrapLine(here) ELSE here
        wide == char = "W" /\ W > 1
        tight == wide /\ begun.x + 1 >= W
        at == IF tight /\ auto THEN WrapLine(begun) ELSE begun
        glyph == IF wide /\ ~(tight /\ ~auto) THEN "W" ELSE "a"
        size == IF glyph = "W" THEN 2 ELSE 1
        opened == IF "insert" \in mode
                  THEN [at EXCEPT !.g = SetRow(@, at.y, Inserted(@.lines[at.y + 1].cells, at.x, size))]
                  ELSE at
    IN /\ Sends(Put(opened, glyph), After(at, size))
       /\ Keeps

\* A combining character that makes the glyph before the cursor two columns wide.
Widen ==
    LET x == IF cur.pend THEN cur.x ELSE cur.x - 1
        at == [g |-> g, x |-> x, y |-> cur.y]
        cleared == [at EXCEPT !.g = SetRow(@, cur.y, Erased(@.lines[cur.y + 1].cells, x, x + 1))]
        next == WrapLine(cleared)
    IN /\ "combine" \in Features /\ W > 1
       /\ cur.pend \/ cur.x > 0
       /\ g.lines[cur.y + 1].cells[x + 1] = "a"
       /\ IF x + 1 < W
          THEN Sends(Put(at, "W"),
                     IF x + 2 >= W THEN After(at, 2)
                     ELSE IF cur.pend THEN cur ELSE [cur EXCEPT !.x = x + 2])
          ELSE IF "autowrap" \in mode
          THEN Sends(Put(next, "W"), After(next, 2))
          ELSE Sends(Put(cleared, "a"), cur)
       /\ Keeps

\* LF, VT, FF, IND; and NEL, which also returns to the first column.
NewLine(home) ==
    LET to == LineFeed([g |-> SetRowWrapped(g, cur.y, FALSE),
                        x |-> IF home THEN 0 ELSE cur.x, y |-> cur.y])
    IN Sends(to.g, [x |-> to.x, y |-> to.y, pend |-> FALSE]) /\ Keeps

\* RI keeps a deferred wrap.
ReverseIndex ==
    /\ IF cur.y = region.top THEN Sends(ScrollRegionDown(g, region.top, region.bot), cur)
       ELSE Sends(g, [cur EXCEPT !.y = Less(@, 1)])
    /\ Keeps

(***************************************************************************)
(* Moving.                                                                 *)
(***************************************************************************)
\* CUP, HVP and VPA: rows count from the region's top in origin mode.
MoveTo(x, y) ==
    /\ Sends(g, [x |-> x, pend |-> FALSE,
                 y |-> IF "origin" \in mode THEN Smaller(region.top + y, region.bot) ELSE y])
    /\ Keeps

\* CUU, CUD, CNL, CPL: n rows down (negative: up), optionally to column 0.
MoveRows(n, home) ==
    LET first == IF "origin" \in mode THEN region.top ELSE 0
        last == IF "origin" \in mode THEN region.bot ELSE H - 1
        y == IF n < 0 THEN Larger(Less(cur.y, -n), first) ELSE Smaller(cur.y + n, last)
    IN Sends(g, [x |-> IF home THEN 0 ELSE cur.x, y |-> y, pend |-> FALSE]) /\ Keeps

(***************************************************************************)
(* Editing.                                                                *)
(***************************************************************************)
Unwrapped == [cur EXCEPT !.pend = FALSE]
EditRow(cells, sever) ==
    LET edited == SetRow(g, cur.y, cells)
    IN Sends(IF sever THEN SetRowWrapped(edited, cur.y, FALSE) ELSE edited, Unwrapped) /\ Keeps

Row == g.lines[cur.y + 1].cells
DeleteChars(n) == EditRow(Deleted(Row, cur.x, n), TRUE)
InsertChars(n) == EditRow(Inserted(Row, cur.x, n), FALSE)
EraseChars(n) == EditRow(Erased(Row, cur.x, Smaller(cur.x + n, W)), TRUE)

\* EL 0 severs the row from its continuation; EL 1 and EL 2 do not.
LineErased(kind) ==
    CASE kind = 0 -> SetRowWrapped(SetRow(g, cur.y, Erased(Row, cur.x, W)), cur.y, FALSE)
      [] kind = 1 -> SetRow(g, cur.y, Erased(Row, 0, cur.x + 1))
      [] kind = 2 -> SetRow(g, cur.y, Blanks(W))
EraseInLine(kind) == Sends(LineErased(kind), Unwrapped) /\ Keeps

\* ED 0, 1, 2 and, for 3, the history.
EraseInDisplay(kind) ==
    LET rows == CASE kind = 0 -> cur.y + 1 .. H - 1
                  [] kind = 1 -> 0 .. cur.y - 1
                  [] kind = 2 -> 0 .. H - 1
                  [] kind = 3 -> {}
        base == IF kind \in {0, 1} THEN LineErased(kind) ELSE g
        blanked == FoldSet(LAMBDA y, acc : SetRow(acc, y, Blanks(W)), base, rows)
    IN /\ IF kind = 3 THEN Sends([g EXCEPT !.sb = <<>>], cur) ELSE Sends(blanked, Unwrapped)
       /\ Keeps

Repeated(Op(_), n, grid) == FoldLeft(LAMBDA acc, i : Op(acc), grid, [i \in 1 .. n |-> i])
InRegion == cur.y \in region.top .. region.bot
InsertLines(n) ==
    /\ Sends(IF InRegion
             THEN Repeated(LAMBDA a : ScrollRegionDown(a, cur.y, region.bot), n, g) ELSE g, Unwrapped)
    /\ Keeps
DeleteLines(n) ==
    /\ Sends(IF InRegion
             THEN Repeated(LAMBDA a : ScrollRegionUp(a, cur.y, region.bot, FALSE), n, g) ELSE g,
             Unwrapped)
    /\ Keeps

\* SU and SD move the region and leave the cursor.
ScrollLines(n, up) ==
    /\ Sends(IF up THEN Repeated(LAMBDA a : ScrollRegionUp(a, region.top, region.bot, TRUE), n, g)
             ELSE Repeated(LAMBDA a : ScrollRegionDown(a, region.top, region.bot), n, g), cur)
    /\ Keeps

(***************************************************************************)
(* Modes, saved state and the alternate screen.                            *)
(***************************************************************************)
Home(r, m) == [x |-> 0, y |-> IF "origin" \in m THEN r.top ELSE 0, pend |-> FALSE]

\* DECSTBM: an empty or oversized region is ignored.
SetRegion(top, bot) ==
    /\ "region" \in Features
    /\ top < bot /\ bot < H
    /\ region' = [top |-> top, bot |-> bot]
    /\ Sends(g, Home(region', mode))
    /\ UNCHANGED <<mode, saved, alt, shown>>

SetMode(m, on) ==
    /\ m \in Features
    /\ mode' = IF on THEN mode \union {m} ELSE mode \ {m}
    /\ Sends(g, CASE m = "origin" -> Home(region, mode')
                  [] m = "autowrap" -> Unwrapped
                  [] OTHER -> cur)
    /\ UNCHANGED <<region, saved, alt, shown>>

SaveCursor ==
    /\ "save" \in Features
    /\ saved' = <<cur>> /\ Sends(g, cur)
    /\ UNCHANGED <<region, mode, alt, shown>>
Clamped(c) == [c EXCEPT !.x = Smaller(@, W - 1), !.y = Smaller(@, H - 1)]
RestoreCursor ==
    /\ saved # <<>>
    /\ Sends(g, Clamped(saved[1]))
    /\ Keeps

EnterAlt ==
    /\ "alt" \in Features /\ alt = <<>>
    /\ alt' = <<[g |-> g, cur |-> cur]>>
    /\ Sends(Fresh(W, H, 0), Origin)
    /\ region' = FullRegion(H) /\ mode' = mode \ {"origin"}
    /\ UNCHANGED <<saved, shown>>

Primary == [alt[1].g EXCEPT !.dmg = AllDamaged(W, H), !.scroll = 0]
\* ?1049l; with recovered set, the shell recovery after an agent's exit event, a
\* prompt mark or the kernel's report that the program is gone.
ExitAlt(recovered) ==
    /\ alt # <<>>
    /\ alt' = <<>>
    /\ Sends(Primary, IF recovered THEN [Clamped(alt[1].cur) EXCEPT !.pend = FALSE]
                      ELSE Clamped(alt[1].cur))
    /\ region' = FullRegion(H) /\ mode' = mode \ {"origin"}
    /\ UNCHANGED <<saved, shown>>

\* RIS drops both screens and the history.
Reset ==
    /\ "alt" \in Features
    /\ Sends(Fresh(W, H, Limit), Origin)
    /\ region' = FullRegion(H) /\ mode' = {"autowrap"}
    /\ saved' = <<>> /\ alt' = <<>>
    /\ UNCHANGED shown

Follow(to, w) ==
    [g |-> to.grid, cur |-> [x |-> Smaller(to.x, w - 1), y |-> to.y, pend |-> to.pend]]
Resized(grid, c, w, h) ==
    Follow(ResizeReflow(grid, w, h, [c EXCEPT !.x = IF c.pend THEN @ + 1 ELSE @]), w)

\* Both buffers are reflowed and both cursors follow.
LeavesAs(active) == Leaves(active.g, active.cur)
Resize(w, h) ==
    /\ <<w, h>> # <<W, H>>
    /\ LeavesAs(Resized(g, cur, w, h))
    /\ alt' = IF alt = <<>> THEN <<>>
              ELSE <<Resized([alt[1].g EXCEPT !.limit = Limit], alt[1].cur, w, h)>>
    /\ region' = FullRegion(h)
    /\ shown' = IF Paint THEN Screen(Fresh(w, h, 0)) ELSE <<>>
    /\ UNCHANGED <<mode, saved, count>>

(***************************************************************************)
(* Frames.                                                                 *)
(***************************************************************************)
\* The damaged columns of a row, widened over either half of a wide glyph.
Expanded(grid, y) ==
    LET d == grid.dmg[y]
        cells == grid.lines[y].cells
    IN d \union {i - 1 : i \in {i \in d : cells[i] = "_" /\ i > 1}}
         \union {i + 1 : i \in {i \in d : cells[i] = "W" /\ i < Len(cells)}}

\* What a client of the whole width shows after a frame: its rows moved by the
\* pending scroll, then the damaged cells.
AfterFrame(grid) ==
    LET moved(y) == IF y + grid.scroll <= Height(grid) THEN shown[y + grid.scroll] ELSE Blanks(Width(grid))
    IN [y \in DOMAIN grid.lines |->
          [x \in DOMAIN grid.lines[y].cells |->
             IF x \in Expanded(grid, y) THEN grid.lines[y].cells[x] ELSE moved(y)[x]]]

Frame ==
    /\ Paint /\ (g.scroll > 0 \/ \E y \in DOMAIN g.dmg : g.dmg[y] # {})
    /\ shown' = AfterFrame(g)
    /\ g' = ClearDamage(g)
    /\ mixed' = (mixed /\ g.dmg # AllDamaged(W, H))
    /\ UNCHANGED <<cur, region, mode, saved, alt, count>>

Next ==
    \/ \E c \in Chars : PrintChar(c)
    \/ Widen
    \/ \E home \in BOOLEAN : NewLine(home)
    \/ ReverseIndex
    \/ \E x \in 0 .. W - 1, y \in 0 .. H - 1 : MoveTo(x, y)
    \/ \E n \in Counts, home \in BOOLEAN : MoveRows(n, home) \/ MoveRows(-n, home)
    \/ \E n \in Counts : \/ DeleteChars(n) \/ InsertChars(n) \/ EraseChars(n)
                         \/ InsertLines(n) \/ DeleteLines(n)
    \/ \E kind \in 0 .. 2 : EraseInLine(kind)
    \/ \E kind \in 0 .. 3 : EraseInDisplay(kind)
    \/ \E n \in Counts, up \in BOOLEAN : ScrollLines(n, up)
    \/ \E top, bot \in 0 .. H - 1 : SetRegion(top, bot)
    \/ \E m \in {"autowrap", "origin", "insert"}, on \in BOOLEAN : SetMode(m, on)
    \/ SaveCursor \/ RestoreCursor
    \/ EnterAlt \/ Reset
    \/ \E recovered \in BOOLEAN : ExitAlt(recovered)
    \/ \E s \in Sizes : Resize(s[1], s[2])
    \/ Frame

Spec == Init /\ [][Next]_vars

(***************************************************************************)
(* Properties.                                                             *)
(***************************************************************************)
\* The cursor and the region stay inside the grid, and no editing, scrolling,
\* wrapping or reflow leaves a row of the wrong width or half of a wide glyph, in
\* either screen; the alternate screen keeps no history.
ScreenIsSound ==
    /\ TypeOK
    /\ RowsAreWhole(g, W)
    /\ alt # <<>> => /\ RowsAreWhole(alt[1].g, W) /\ Height(alt[1].g) = H
                     /\ alt[1].cur.x \in 0 .. W - 1 /\ alt[1].cur.y \in 0 .. H - 1
                     /\ g.sb = <<>>

\* A resize reorders, duplicates and invents nothing: the glyphs it leaves are the
\* newest of those it found, and only what history has no room for is missing.
KeepsGlyphs(before, after) ==
    /\ IsSuffix(Glyphs(after), Glyphs(before))
    /\ Len(after.sb) < after.limit => Glyphs(after) = Glyphs(before)
ResizeKeepsText ==
    (<<Width(g'), Height(g')>> # <<W, H>>) =>
       /\ KeepsGlyphs(g, g')
       /\ alt # <<>> => KeepsGlyphs(alt[1].g, alt'[1].g)

\* The next frame brings a client up to date: every cell whose content the client
\* does not show yet is damaged or moved by the pending scroll.
ClientCatchesUp == Paint => AfterFrame(g) = Screen(g)
\* The same, apart from a region scroll that meets a pending whole-screen scroll.
CatchesUpUnlessMixed == mixed \/ ClientCatchesUp
=============================================================================
