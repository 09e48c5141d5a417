-------------------------------- MODULE Arena --------------------------------
(***************************************************************************)
(* The handle tables of a grid (uniterm-core/src/grid.rs): a cell holds no *)
(* text of more than one character, no underline colour and no link, but a *)
(* handle into a table of its grid, which is compacted when it fills up.   *)
(*                                                                         *)
(* kind says which of the three tables is followed.  A cell is [want, h]:  *)
(* what was written and its handle, 0 for none.  Cells 1 .. 2 * Columns    *)
(* are two lines of history, the rest is the screen.                       *)
(***************************************************************************)
EXTENDS Naturals, FiniteSets, Sequences

CONSTANTS Texts,      \* what cells can say
          Columns,    \* cells of a line
          Window,     \* entries searched before a grapheme is added (64)
          MinGc,      \* least size at which a table is compacted (4096)
          MaxColors,  \* entries of the colour table, the default included (256)
          MaxHandle,  \* last link handle before the counter wraps (2^32 - 1)
          MaxWrites   \* bound: writes

VARIABLES kind, grid, pen, spoiled, writes

vars == <<kind, grid, pen, spoiled, writes>>

None == "none"
Blank == [want |-> None, h |-> 0]
CellNos == 1 .. 3 * Columns
ScreenNos == 2 * Columns + 1 .. 3 * Columns

\* The cells, the table and, for links, the next handle to try.
EmptyGrid ==
    [cells |-> [i \in CellNos |-> Blank], table |-> [h \in {} |-> None], next |-> 1, gc |-> MinGc]

Size(s) == Cardinality(DOMAIN s.table)
Resolve(s, h) == IF h \in DOMAIN s.table THEN s.table[h] ELSE None

\* A grapheme is looked for among the newest entries only.
Known(s, text) ==
    {h \in DOMAIN s.table : s.table[h] = text /\ (kind = "grapheme" => h + Window > Size(s))}

IsFull(s) ==
    CASE kind = "grapheme" -> Size(s) + 1 >= s.gc
      [] kind = "colour"   -> Size(s) + 1 = MaxColors
      [] kind = "link"     -> Size(s) >= s.gc

UsedHandles(s) == {s.cells[i].h : i \in CellNos} \ {0}

\* Handles are numbered again in the order the cells of the grid use them.
LiveTexts(s) == {s.table[h] : h \in UsedHandles(s)}
FirstUse(s, text) ==
    CHOOSE i \in CellNos : /\ Resolve(s, s.cells[i].h) = text
                           /\ \A j \in 1 .. i - 1 : Resolve(s, s.cells[j].h) # text
NewHandle(s, text) == Cardinality({t \in LiveTexts(s) : FirstUse(s, t) <= FirstUse(s, text)})
Doubled(n) == IF 2 * n > MinGc THEN 2 * n ELSE MinGc

Renumbered(s) ==
    [s EXCEPT !.table = [h \in 1 .. Cardinality(LiveTexts(s)) |->
                           CHOOSE t \in LiveTexts(s) : NewHandle(s, t) = h],
              !.cells = [i \in CellNos |->
                           IF @[i].h = 0 THEN @[i] ELSE [@[i] EXCEPT !.h = NewHandle(s, s.table[@])]],
              !.gc = Doubled(Cardinality(LiveTexts(s)) + 1)]

\* Links keep their handles; unused ones are dropped.
Retained(s) ==
    [s EXCEPT !.table = [h \in UsedHandles(s) |-> s.table[h]],
              !.gc = Doubled(Cardinality(UsedHandles(s)))]

Compacted(s) == IF kind = "link" THEN Retained(s) ELSE Renumbered(s)

\* The first free link handle from next on, wrapping past MaxHandle and skipping 0.
After(h) == IF h = MaxHandle THEN 1 ELSE h + 1
FreeFrom(s) ==
    LET tried[n \in 0 .. MaxHandle] == IF n = 0 THEN s.next ELSE After(tried[n - 1])
        steps == CHOOSE n \in 0 .. MaxHandle :
                    /\ tried[n] \notin DOMAIN s.table
                    /\ \A m \in 0 .. n - 1 : tried[m] \in DOMAIN s.table
    IN tried[steps]

Add(s, h, text) ==
    [h |-> h, grid |-> [s EXCEPT !.table = [k \in DOMAIN @ \union {h} |-> IF k = h THEN text ELSE @[k]],
                                 !.next = IF kind = "link" THEN After(h) ELSE @]]

\* A colour beyond the table's end is shown in the terminal's default.
Enter(s, text) ==
    IF kind = "colour" /\ IsFull(s) THEN [h |-> 0, grid |-> s]
    ELSE Add(s, IF kind = "link" THEN FreeFrom(s) ELSE Size(s) + 1, text)

\* intern, intern_underline_color and intern_hyperlink
Intern(s, text) ==
    IF text = None THEN [h |-> 0, grid |-> s]
    ELSE IF Known(s, text) # {} THEN [h |-> CHOOSE h \in Known(s, text) : TRUE, grid |-> s]
    ELSE Enter(IF IsFull(s) THEN Compacted(s) ELSE s, text)

CellFor(made, text) == [want |-> IF made.h = 0 THEN None ELSE text, h |-> made.h]
PutCell(made, i, text) == [made.grid EXCEPT !.cells[i] = CellFor(made, text)]

(***************************************************************************)
(* Restored history: load_scrollback builds each line outside the grid and *)
(* pushes it when it is complete.                                          *)
(***************************************************************************)
\* One more cell of the line; a compaction does not see the cells already built.
BuildStep(b, text) ==
    LET made == Intern(b.grid, text)
    IN [grid |-> made.grid, line |-> Append(b.line, CellFor(made, text)),
        stale |-> b.stale \/ (b.line # <<>> /\ made.grid.table # b.grid.table
                              /\ \E h \in DOMAIN b.grid.table :
                                    Resolve(made.grid, h) # b.grid.table[h])]

BuildLine(s, texts) ==
    LET built[n \in 0 .. Columns] ==
          IF n = 0 THEN [grid |-> s, line |-> <<>>, stale |-> FALSE]
          ELSE BuildStep(built[n - 1], texts[n])
    IN built[Columns]

PushLine(b, row) ==
    [b.grid EXCEPT !.cells = [i \in CellNos |-> IF i \in row * Columns + 1 .. (row + 1) * Columns
                                                THEN b.line[i - row * Columns] ELSE @[i]]]

Loaded(first, texts) ==
    LET second == BuildLine(PushLine(first, 0), SubSeq(texts, Columns + 1, 2 * Columns))
    IN [grid |-> PushLine(second, 1), stale |-> first.stale \/ second.stale]
LoadScrollback(texts) == Loaded(BuildLine(EmptyGrid, texts), texts)

\* A fresh Pane, or one restored with two saved lines.  Saved lines hold no links.
Init ==
    /\ kind \in {"grapheme", "colour", "link"}
    /\ pen = Blank /\ writes = 0
    /\ \E texts \in [1 .. 2 * Columns -> Texts \union {None}] :
          /\ kind = "link" => \A i \in DOMAIN texts : texts[i] = None
          /\ \E loaded \in {LoadScrollback(texts)} :
                grid = loaded.grid /\ spoiled = loaded.stale

(***************************************************************************)
(* Output.                                                                 *)
(***************************************************************************)
\* A grapheme is interned when it is printed, after the cell was cleared.
Write(i, text) ==
    /\ kind = "grapheme" /\ writes < MaxWrites /\ writes' = writes + 1
    /\ grid' = PutCell(Intern([grid EXCEPT !.cells[i] = Blank], text), i, text)
    /\ UNCHANGED <<kind, pen, spoiled>>

\* SGR 58 and OSC 8 intern once; what is printed then shares the handle.
SetPen(text) ==
    /\ kind # "grapheme" /\ writes < MaxWrites /\ writes' = writes + 1
    /\ pen' = CellFor(Intern(grid, text), text)
    /\ grid' = Intern(grid, text).grid
    /\ UNCHANGED <<kind, spoiled>>

Paint(i) ==
    /\ kind # "grapheme"
    /\ grid' = [grid EXCEPT !.cells[i] = pen]
    /\ UNCHANGED <<kind, pen, spoiled, writes>>

\* A line feed: the screen's row enters history and the oldest line leaves.
ScrollOut ==
    /\ grid' = [grid EXCEPT !.cells =
                  [i \in CellNos |-> IF i + Columns \in CellNos THEN @[i + Columns] ELSE Blank]]
    /\ UNCHANGED <<kind, pen, spoiled, writes>>

Next ==
    \/ \E i \in ScreenNos, text \in Texts : Write(i, text)
    \/ \E text \in Texts \union {None} : SetPen(text)
    \/ \E i \in ScreenNos : Paint(i)
    \/ ScrollOut

Spec == Init /\ [][Next]_vars

(***************************************************************************)
(* Properties.                                                             *)
(***************************************************************************)
\* freeze_screen: the screen's cells interned again in a grid of their own.
FrozenScreen ==
    LET copied[n \in 0 .. Columns] ==
          IF n = 0 THEN EmptyGrid
          ELSE LET text == Resolve(grid, grid.cells[2 * Columns + n].h)
               IN PutCell(Intern(copied[n - 1], text), 2 * Columns + n, text)
    IN copied[Columns]

Resolves(s, i) == Resolve(s, s.cells[i].h) = s.cells[i].want

\* Every cell of history and screen shows what was written to it, and so do the
\* pen and a frozen copy of the screen, however often a table was compacted,
\* filled up or wrapped; apart from Panes restored while a table was compacted.
CellsResolve ==
    spoiled \/ /\ \A i \in CellNos : Resolves(grid, i)
               /\ Resolve(grid, pen.h) = pen.want
               /\ \A i \in ScreenNos : /\ Resolves(FrozenScreen, i)
                                       /\ FrozenScreen.cells[i].want = grid.cells[i].want

\* The same for every Pane.
RestoredCellsResolve == \A i \in CellNos : Resolves(grid, i)
=============================================================================
