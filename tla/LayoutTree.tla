------------------------------ MODULE LayoutTree ------------------------------
(***************************************************************************)
(* The layout of one Tab: uniterm-core/src/layout.rs.  A binary tree of    *)
(* splits with Panes at its leaves is laid into an area of cells, a        *)
(* one-cell divider between the two halves of each split.  The tree is the *)
(* state; splitting, closing, resizing and dragging change it, and what is *)
(* drawn is a pure function of tree, area, arrangement and focus.          *)
(*                                                                         *)
(* A ratio (an f32 in the code) is an exact rational <<n, d>>.  Panes are  *)
(* numbered from left to right after each step: ids are only compared.     *)
(***************************************************************************)
EXTENDS Naturals, FiniteSets, Sequences, SequencesExt, FiniteSetsExt

CONSTANTS MaxPanes,     \* most Panes in the Tab
          MaxTiles,     \* most Tabs in the overview
          DragAreas,    \* areas dividers are dragged in
          Areas         \* areas the properties are checked for

VARIABLE tree

vars == <<tree>>

Rect(x, y, w, h) == [x |-> x, y |-> y, w |-> w, h |-> h]

Leaf(pane) == [pane |-> pane]
IsLeaf(t) == "pane" \in DOMAIN t
Split(dir, ratio, first, second) ==
    [dir |-> dir, ratio |-> ratio, first |-> first, second |-> second]

-----------------------------------------------------------------------------
(* Ratios. *)

Clamp(n, lo, hi) == IF n < lo THEN lo ELSE IF n > hi THEN hi ELSE n

Reduced(n, d) ==
    LET common == Max({k \in 1 .. d : n % k = 0 /\ d % k = 0})
    IN  <<n \div common, d \div common>>

\* clamp(0.1, 0.9)
ClampRatio(n, d) ==
    CASE 10 * n < d      -> <<1, 10>>
      [] 10 * n > 9 * d  -> <<9, 10>>
      [] OTHER           -> Reduced(n, d)

\* Cells of the first half: round(avail * ratio), at least one for each half.
FirstExtent(avail, ratio) ==
    Clamp((2 * avail * ratio[1] + ratio[2]) \div (2 * ratio[2]), 1, avail - 1)

-----------------------------------------------------------------------------
(* Geometry. *)

\* The size of an area across the split's divider.
Extent(dir, area) == IF dir = "horizontal" THEN area.w ELSE area.h

\* First half, divider and second half of an area whose first half takes n.
Halves(dir, area, n) ==
    IF dir = "horizontal"
    THEN <<Rect(area.x, area.y, n, area.h), Rect(area.x + n, area.y, 1, area.h),
           Rect(area.x + n + 1, area.y, area.w - 1 - n, area.h)>>
    ELSE <<Rect(area.x, area.y, area.w, n), Rect(area.x, area.y + n, area.w, 1),
           Rect(area.x, area.y + n + 1, area.w, area.h - 1 - n)>>

Drawn(panes, dividers) == [panes |-> panes, dividers |-> dividers]

\* One split between what its halves draw.
Around(a, dir, divider, b) ==
    Drawn(a.panes \o b.panes,
          a.dividers \o <<[dir |-> dir, rect |-> divider]>> \o b.dividers)

\* compute
RECURSIVE Compute(_, _)
Compute(t, area) ==
    IF IsLeaf(t) THEN Drawn(<<[pane |-> t.pane, rect |-> area]>>, <<>>)
    ELSE IF Extent(t.dir, area) < 3 THEN Compute(t.first, area)
    ELSE LET part == Halves(t.dir, area, FirstExtent(Extent(t.dir, area) - 1, t.ratio))
         IN  Around(Compute(t.first, part[1]), t.dir, part[2], Compute(t.second, part[3]))

\* pane_ids
RECURSIVE PaneIds(_)
PaneIds(t) == IF IsLeaf(t) THEN <<t.pane>> ELSE PaneIds(t.first) \o PaneIds(t.second)

\* dwindle: halve the rest along its longer visual axis; what does not fit is
\* hidden behind the focused Pane.
RECURSIVE Dwindle(_, _, _)
Dwindle(ids, area, active) ==
    IF Len(ids) = 1 \/ (area.w < 3 /\ area.h < 3)
    THEN LET pane == IF active \in ToSet(ids) THEN active ELSE Head(ids)
         IN  Drawn(<<[pane |-> pane, rect |-> area]>>, <<>>)
    ELSE LET dir  == IF area.w >= 3 /\ (area.h < 3 \/ area.w >= 2 * area.h)
                     THEN "horizontal" ELSE "vertical"
             part == Halves(dir, area, (Extent(dir, area) - 1) \div 2)
         IN  Around(Drawn(<<[pane |-> Head(ids), rect |-> part[1]]>>, <<>>), dir, part[2],
                    Dwindle(Tail(ids), part[3], active))

\* The position of pane among the Panes of the Tab.
Position(ids, pane) == Min({i \in DOMAIN ids : ids[i] = pane})

\* scrolling_columns
Columns(area) == IF area.w >= 49 THEN 2 ELSE 1

\* Slip: a column just beyond the right edge counts as visible.
ScrolledLate(ids, area, active, scroll) ==
    LET visible  == Columns(area)
        selected == Position(ids, active) - 1
        last     == IF Len(ids) > visible THEN Len(ids) - visible ELSE 0
        origin   == IF scroll < last THEN scroll ELSE last
    IN  CASE selected < origin            -> selected
          [] selected > origin + visible  -> selected + 1 - visible
          [] OTHER                        -> origin

\* The first visible column after the focused one was brought into view.
Scrolled(ids, area, active, scroll) ==
    LET visible  == Columns(area)
        selected == Position(ids, active) - 1
        last     == IF Len(ids) > visible THEN Len(ids) - visible ELSE 0
        origin   == IF scroll < last THEN scroll ELSE last
    IN  CASE selected < origin            -> selected
          [] selected >= origin + visible -> selected + 1 - visible
          [] OTHER                        -> origin

Scrolling(ids, area, active, scroll) ==
    LET from  == Scrolled(ids, area, active, scroll)
        shown == SubSeq(ids, from + 1, Min({Len(ids), from + Columns(area)}))
        part  == Halves("horizontal", area, (area.w - 1) \div 2)
    IN  IF Len(shown) = 1 THEN Drawn(<<[pane |-> shown[1], rect |-> area]>>, <<>>)
        ELSE Around(Drawn(<<[pane |-> shown[1], rect |-> part[1]]>>, <<>>), "horizontal", part[2],
                    Drawn(<<[pane |-> shown[2], rect |-> part[3]]>>, <<>>))

\* compute_mode
ComputeMode(t, area, mode, active, scroll) ==
    CASE mode = "split"     -> Compute(t, area)
      [] mode = "dwindle"   -> Dwindle(PaneIds(t), area, active)
      [] mode = "scrolling" -> Scrolling(PaneIds(t), area, active, scroll)

Overlap(from1, size1, from2, size2) == from1 < from2 + size2 /\ from2 < from1 + size1

\* The facing edges of a and of r, which lies in direction dir.
Facing(a, r, dir) ==
    CASE dir = "right" -> <<a.x + a.w, r.x>>
      [] dir = "left"  -> <<r.x + r.w, a.x>>
      [] dir = "down"  -> <<a.y + a.h, r.y>>
      [] dir = "up"    -> <<r.y + r.h, a.y>>

\* Is r on that side of a, sharing a row or column with it?
IsBeyond(a, r, dir) ==
    /\ Facing(a, r, dir)[1] <= Facing(a, r, dir)[2]
    /\ IF dir \in {"left", "right"} THEN Overlap(a.y, a.h, r.y, r.h)
                                    ELSE Overlap(a.x, a.w, r.x, r.w)

\* neighbor: the first of the Panes nearest to the one at i on that side, if any.
Neighbour(panes, i, dir) ==
    LET side    == {j \in DOMAIN panes \ {i} : IsBeyond(panes[i].rect, panes[j].rect, dir)}
        Away(j) == Facing(panes[i].rect, panes[j].rect, dir)[2]
                   - Facing(panes[i].rect, panes[j].rect, dir)[1]
        nearest == {j \in side : \A k \in side : Away(j) <= Away(k)}
    IN  IF nearest = {} THEN {} ELSE {Min(nearest)}

\* overview_tiles: a near-square grid of n miniatures.
OverviewTiles(area, n) ==
    LET cols == Min({c \in 1 .. n : c * c >= n})
        rows == (n + cols - 1) \div cols
        ColW(c) == (area.w \div cols) + (IF c < area.w % cols THEN 1 ELSE 0)
        RowH(r) == (area.h \div rows) + (IF r < area.h % rows THEN 1 ELSE 0)
        Before(Size(_), k) == MapThenSumSet(Size, 0 .. (k - 1))
    IN  [i \in 1 .. n |->
           LET r == (i - 1) \div cols
               c == (i - 1) % cols
           IN  Rect(area.x + Before(ColW, c), area.y + Before(RowH, r), ColW(c), RowH(r))]

-----------------------------------------------------------------------------
(* Changing the tree. *)

\* LayoutNode::split: the new Pane takes the second half of its target.
RECURSIVE SplitLeaf(_, _, _, _)
SplitLeaf(t, target, dir, new) ==
    CASE IsLeaf(t) /\ t.pane = target -> Split(dir, <<1, 2>>, t, Leaf(new))
      [] IsLeaf(t) /\ t.pane # target -> t
      [] OTHER -> [t EXCEPT !.first  = SplitLeaf(@, target, dir, new),
                            !.second = SplitLeaf(@, target, dir, new)]

Empty == [empty |-> TRUE]

\* Slip: the halves change places when both survive.
CollapseSwapped(t, a, b) ==
    CASE a = Empty -> b
      [] a # Empty /\ b = Empty -> a
      [] OTHER -> [t EXCEPT !.first = b, !.second = a]

\* What is left of a split of which the halves a and b are left.
Collapse(t, a, b) ==
    CASE a = Empty -> b
      [] a # Empty /\ b = Empty -> a
      [] OTHER -> [t EXCEPT !.first = a, !.second = b]

\* LayoutNode::without
RECURSIVE Without(_, _)
Without(t, target) ==
    IF IsLeaf(t) THEN IF t.pane = target THEN Empty ELSE t
    ELSE Collapse(t, Without(t.first, target), Without(t.second, target))

\* ratio plus or minus 0.05
Nudged(ratio, grow) ==
    LET n == 20 * ratio[1]
        d == ratio[2]
    IN  ClampRatio(IF grow THEN n + d ELSE n - d, 20 * d)

\* resize_inner: the nearest split of that orientation above the target is
\* nudged.
RECURSIVE ResizeInner(_, _, _, _)
ResizeInner(t, target, orient, grow) ==
    IF IsLeaf(t) THEN [tree |-> t, is |-> IF t.pane = target THEN "found" ELSE "absent"]
    ELSE LET a == ResizeInner(t.first, target, orient, grow)
             b == ResizeInner(t.second, target, orient, grow)
             below == IF a.is # "absent" THEN a.is ELSE b.is
             kept  == [t EXCEPT !.first = a.tree, !.second = b.tree]
         IN  IF below = "found" /\ t.dir = orient
             THEN [tree |-> [kept EXCEPT !.ratio = Nudged(@, grow)], is |-> "handled"]
             ELSE [tree |-> kept, is |-> below]

\* The ratio that puts a divider on cell at of an area with avail usable cells.
RatioAt(at, avail) == ClampRatio(Clamp(at, 1, avail - 1), avail)

\* set_divider_at: the split is found by where its divider was drawn.
RECURSIVE SetDividerAt(_, _, _, _, _)
SetDividerAt(t, area, divider, x, y) ==
    IF IsLeaf(t) THEN t
    ELSE IF Extent(t.dir, area) < 3
    THEN [t EXCEPT !.first = SetDividerAt(@, area, divider, x, y)]
    ELSE LET avail == Extent(t.dir, area) - 1
             part  == Halves(t.dir, area, FirstExtent(avail, t.ratio))
             from  == IF t.dir = "horizontal" THEN <<x, area.x>> ELSE <<y, area.y>>
             at    == IF from[1] > from[2] THEN from[1] - from[2] ELSE 0
         IN  IF part[2] = divider THEN [t EXCEPT !.ratio = RatioAt(at, avail)]
             ELSE LET a == SetDividerAt(t.first, part[1], divider, x, y)
                  IN  IF a # t.first THEN [t EXCEPT !.first = a]
                      ELSE [t EXCEPT !.second = SetDividerAt(@, part[3], divider, x, y)]

\* Panes numbered from left to right, the first being n.
RECURSIVE Numbered(_, _)
Numbered(t, n) ==
    IF IsLeaf(t) THEN Leaf(n)
    ELSE [t EXCEPT !.first  = Numbered(@, n),
                   !.second = Numbered(@, n + Len(PaneIds(t.first)))]

Becomes(t) == tree' = Numbered(t, 1)

Shown == ToSet(PaneIds(tree))
Fresh == Cardinality(Shown) + 1

Init == tree = Leaf(1)

SplitTab(target, dir) ==
    /\ Fresh <= MaxPanes
    /\ Becomes(SplitLeaf(tree, target, dir, Fresh))

ClosePane(target) ==
    /\ Cardinality(Shown) > 1
    /\ Becomes(Without(tree, target))

\* Command::ResizePane.  A ratio a drag has set off the twentieths is left to
\* drags, which bounds the ratios.
RECURSIVE OnGrid(_)
OnGrid(t) ==
    IF IsLeaf(t) THEN TRUE
    ELSE 20 % t.ratio[2] = 0 /\ OnGrid(t.first) /\ OnGrid(t.second)

Resize(target, orient, grow) ==
    /\ OnGrid(tree)
    /\ Becomes(ResizeInner(tree, target, orient, grow).tree)

\* The cells of the area a pointer may drag a divider to, on the diagonal: each
\* divider follows one of the two coordinates.
Pointers(area) ==
    {<<Min({area.x + k, area.x + area.w - 1}), Min({area.y + k, area.y + area.h - 1})>> :
       k \in 0 .. (Max({area.w, area.h}) - 1)}

\* A drag of a divider on screen to a cell of the area.
Drag(area) ==
    LET drawn == Compute(tree, area).dividers
    IN  \E i \in DOMAIN drawn, at \in Pointers(area) :
              Becomes(SetDividerAt(tree, area, drawn[i].rect, at[1], at[2]))

Dirs == {"horizontal", "vertical"}

Next ==
    \/ \E target \in Shown, dir \in Dirs : SplitTab(target, dir)
    \/ \E target \in Shown : ClosePane(target)
    \/ \E target \in Shown, dir \in Dirs, grow \in BOOLEAN : Resize(target, dir, grow)
    \/ \E area \in DragAreas : Drag(area)

Spec == Init /\ [][Next]_vars

-----------------------------------------------------------------------------
(* Properties. *)

Cells(r) == (r.x .. (r.x + r.w - 1)) \X (r.y .. (r.y + r.h - 1))

Rects(drawn) ==
    [i \in DOMAIN drawn.panes |-> drawn.panes[i].rect]
    \o [i \in DOMAIN drawn.dividers |-> drawn.dividers[i].rect]

\* Every rectangle has a cell, none overlaps another, and together they are
\* the area.
Partition(rects, area) ==
    /\ \A i \in DOMAIN rects : rects[i].w > 0 /\ rects[i].h > 0
    /\ \A i, j \in DOMAIN rects : i # j => Cells(rects[i]) \cap Cells(rects[j]) = {}
    /\ UNION {Cells(rects[i]) : i \in DOMAIN rects} = Cells(area)

Modes == {"split", "dwindle", "scrolling"}

\* However the Tab was split, resized and dragged, every arrangement covers
\* any area with Panes and dividers exactly, each with at least one cell, and
\* draws no Pane twice (compute and compute_mode, also where the area is too
\* small to divide).
TilesArea ==
  \A area \in Areas :
    \A drawn \in {Compute(tree, area)}
                 \cup {ComputeMode(tree, area, mode, active, scroll) :
                         mode \in Modes \ {"split"}, active \in Shown, scroll \in 0 .. MaxPanes} :
       LET ids == [i \in DOMAIN drawn.panes |-> drawn.panes[i].pane]
       IN  /\ Partition(Rects(drawn), area)
           /\ \A i, j \in DOMAIN ids : ids[i] = ids[j] => i = j

\* Overview miniatures never overlap or leave the area, whatever their number
\* (overview_tiles).
OverviewFits ==
  \A area \in Areas, n \in 1 .. MaxTiles :
     LET tiles == OverviewTiles(area, n)
     IN  /\ \A i \in DOMAIN tiles : Cells(tiles[i]) \subseteq Cells(area)
         /\ \A i, j \in DOMAIN tiles : i # j => Cells(tiles[i]) \cap Cells(tiles[j]) = {}

\* The focused Pane is on screen in the Dwindle and Scrolling arrangements,
\* whatever the area and wherever the view was scrolled to (PaneLayout:
\* "bring the focused column into view").
FocusedPaneShown ==
    \A area \in Areas, mode \in {"dwindle", "scrolling"}, active \in Shown,
       scroll \in 0 .. MaxPanes :
       \E i \in DOMAIN ComputeMode(tree, area, mode, active, scroll).panes :
          ComputeMode(tree, area, mode, active, scroll).panes[i].pane = active

\* The area of the split that draws divider.
RECURSIVE OwnArea(_, _, _)
OwnArea(t, area, divider) ==
    CASE IsLeaf(t) -> {}
      [] ~IsLeaf(t) /\ Extent(t.dir, area) < 3 -> OwnArea(t.first, area, divider)
      [] OTHER ->
           LET part == Halves(t.dir, area, FirstExtent(Extent(t.dir, area) - 1, t.ratio))
           IN  (IF part[2] = divider THEN {area} ELSE {})
               \cup OwnArea(t.first, part[1], divider) \cup OwnArea(t.second, part[3], divider)

\* A dragged divider lands on the pointer's cell, or as near to it as leaves
\* both halves a cell and a tenth of the space, and what is drawn outside the
\* dragged split stays where it is (set_divider_at: "so it lands on the pointer
\* cell", found by where it was drawn).
DragFollowsPointer ==
    \A area \in DragAreas :
      LET before == Compute(tree, area)
      IN  \A i \in DOMAIN before.dividers, at \in Pointers(area) :
            LET divider == before.dividers[i].rect
                dir     == before.dividers[i].dir
                own     == CHOOSE r \in OwnArea(tree, area, divider) : TRUE
                avail   == Extent(dir, own) - 1
                pointer == IF dir = "horizontal" THEN at[1] ELSE at[2]
                origin  == IF dir = "horizontal" THEN own.x ELSE own.y
                lo      == FirstExtent(avail, <<1, 10>>)
                hi      == FirstExtent(avail, <<9, 10>>)
                wanted  == Clamp(IF pointer > origin THEN pointer - origin ELSE 0, lo, hi)
                after   == Compute(SetDividerAt(tree, area, divider, at[1], at[2]), area)
                Outside(drawn) == {r \in ToSet(Rects(drawn)) : Cells(r) \cap Cells(own) = {}}
            IN  /\ Cardinality(OwnArea(tree, area, divider)) = 1
                /\ [dir |-> dir, rect |-> Halves(dir, own, wanted)[2]] \in ToSet(after.dividers)
                /\ Outside(after) = Outside(before)

\* Directional focus reaches every Pane on screen from every other, whatever
\* the splits: neighbor looks across dividers, prefers the nearest Pane and
\* breaks ties, and no Pane may end up only ever losing the tie.
EveryPaneReachable ==
    \A area \in Areas :
      LET panes == Compute(tree, area).panes
          Step(found) == found \cup UNION {Neighbour(panes, i, dir) :
                            i \in found, dir \in {"left", "right", "up", "down"}}
          reach[i \in DOMAIN panes, n \in 0 .. Len(panes)] ==
              IF n = 0 THEN {i} ELSE Step(reach[i, n - 1])
      IN  \A i \in DOMAIN panes : reach[i, Len(panes)] = DOMAIN panes

\* Splitting puts the new Pane right after its target and removing a Pane
\* closes the gap, in the left-to-right order that focus, closing and the
\* catalog use (pane_ids and first_pane of split and without); a resize or a
\* drag reorders nothing.
OrderIsKept ==
    LET ids == PaneIds(tree)
        Order(t) == IF t = Empty THEN <<>> ELSE PaneIds(t)
    IN  \A target \in Shown, dir \in Dirs :
          /\ LET at == Position(ids, target)
             IN  PaneIds(SplitLeaf(tree, target, dir, Fresh)) = InsertAt(ids, at + 1, Fresh)
          /\ Order(Without(tree, target)) = SelectSeq(ids, LAMBDA p : p # target)
          /\ \A grow \in BOOLEAN : PaneIds(ResizeInner(tree, target, dir, grow).tree) = ids

=============================================================================
