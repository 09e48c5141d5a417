--------------------------- MODULE TimelineIndex ---------------------------
(***************************************************************************)
(* The day index of the timeline (crates/uniterm-server/src/timeline.rs):  *)
(* a cache on disk, extended from the byte where it stopped in the event   *)
(* log, thrown away when the log file is another one or an update was      *)
(* interrupted; the projection that turns events into rows; the pages of a *)
(* day; and the profile with which an observed agent is resumed.           *)
(*                                                                         *)
(* One record of the log is one byte long.  A row carries what the page    *)
(* and the resumption tell apart.                                          *)
(***************************************************************************)
EXTENDS Integers, Sequences, FiniteSets

CONSTANTS
  Panes,      \* Pane ids of the events
  Events,     \* the events that are appended, see Observe
  Days,       \* UTC days the clock can show
  Inodes,     \* inodes of the log file
  PageSize,   \* timeline::PAGE_SIZE
  MaxSeq,     \* bound on the sequence numbers
  MaxFaults   \* bound on crashes and lost power

VARIABLES
  hist,     \* the events of the stream: [seq, day, event]
  base,     \* sequence of the checkpoint at the head of the log file; 0: none
  inode,    \* inode of the log file
  synced,   \* last sequence on stable storage
  index,    \* Index in memory, or NoIndex (not loaded)
  saved,    \* index.json, or NoIndex
  dirty,    \* the marker of an update under way
  rows,     \* the row files, in the order written
  spoiled,  \* history: the marker went before the index, or indexed events were lost
  faults    \* history: crashes and lost power so far

vars == <<hist, base, inode, synced, index, saved, dirty, rows, spoiled, faults>>

NoIndex == [sequence |-> -1]
NoAgent == [sequence |-> 0]
NoRow   == [seq |-> 0]
NoOne   == "none"

-----------------------------------------------------------------------------
(* Projection::observe.                                                    *)

EmptyProjection ==
  [ctx |-> [p \in Panes |-> NoOne], agents |-> [p \in Panes |-> NoAgent],
   children |-> [p \in Panes |-> {}]]

Invoked(seq, session) ==
  [sequence |-> seq, session |-> session, exited |-> FALSE, parent |-> 0, last |-> NoRow]

Row(r, kind, context, session) ==
  [seq |-> r.seq, day |-> r.day, kind |-> kind, pane |-> NoOne, context |-> context,
   invocation |-> 0, parent |-> 0, session |-> session]

Structured(proj, r) ==
  IF r.event.kind \in {"projected", "resumed"} /\ r.event.ctx # NoOne
  THEN [proj EXCEPT !.ctx = [p \in Panes |-> r.event.ctx]] ELSE proj

\* What the event changes before its row is written.
Ended == {"unbound", "closed"}
NewSession(agent, session) ==
  agent # NoAgent /\ agent.session # NoOne /\ session # NoOne /\ agent.session # session
Observed(agent, seq, session) ==
  [(IF agent = NoAgent THEN Invoked(seq, NoOne) ELSE agent) EXCEPT !.session = session]

\* Slip: an agent that ends stays bound to its Pane.
AgentAfterKept(agent, r) ==
  CASE r.event.kind = "bound" -> Invoked(r.seq, NoOne)
    [] r.event.kind = "resumed" -> Invoked(r.seq, r.event.session)
    [] r.event.kind = "observed" -> Observed(agent, r.seq, r.event.session)
    [] OTHER -> agent
AgentAfter(agent, r) ==
  CASE r.event.kind = "bound" -> Invoked(r.seq, NoOne)
    [] r.event.kind = "resumed" -> Invoked(r.seq, r.event.session)
    [] r.event.kind = "observed" -> Observed(agent, r.seq, r.event.session)
    [] r.event.kind = "delegated" /\ agent # NoAgent ->
         [agent EXCEPT !.parent = r.event.by]
    [] r.event.kind = "exited" /\ agent # NoAgent -> [agent EXCEPT !.exited = TRUE]
    [] r.event.kind = "active" /\ agent # NoAgent -> [agent EXCEPT !.exited = FALSE]
    [] r.event.kind \in Ended -> NoAgent
    [] OTHER -> agent
DropsChildren(agent, r) ==
  \/ r.event.kind \in Ended \cup {"bound", "resumed"}
  \/ r.event.kind = "observed" /\ NewSession(agent, r.event.session)

\* Events that say nothing, or nothing new, have no row.
Silent(agent, r) ==
  \/ r.event.kind \in Ended /\ agent = NoAgent
  \/ r.event.kind = "delegated" /\ (r.event.of # agent.sequence \/ r.event.of = r.event.by)

PaneContext(proj, event, agent) ==
  IF event.kind = "delegated" THEN event.ctx
  ELSE IF proj.ctx[event.pane] # NoOne THEN proj.ctx[event.pane]
  ELSE IF agent # NoAgent /\ agent.last # NoRow THEN agent.last.context ELSE NoOne

\* The row of a root agent of a Pane: "was" before the event, "is" after it.
AgentRow(proj, r, was, is) ==
  LET named == IF r.event.kind \in Ended THEN was ELSE is
      row   == Row(r, "agent", PaneContext(proj, r.event, named), NoOne)
  IN  [row EXCEPT !.pane = r.event.pane, !.invocation = named.sequence,
        !.parent = IF named = NoAgent THEN 0 ELSE named.parent,
        !.session = IF named = NoAgent THEN NoOne ELSE named.session]

ChildRow(proj, r) ==
  [Row(r, "child", proj.ctx[r.event.pane], r.event.session) EXCEPT !.pane = r.event.pane]

WithChild(children, row) ==
  IF Cardinality(children) < PageSize \/ \E c \in children : c.session = row.session
  THEN {c \in children : c.session # row.session} \cup {row} ELSE children

Kept(proj, row) == [proj |-> proj, row |-> row]
WithRow(proj, row, agent, pane) ==
  Kept([proj EXCEPT !.agents[pane] =
          IF agent = NoAgent THEN agent ELSE [agent EXCEPT !.last = row]], row)
ObserveAgent(proj, r, was, is) ==
  IF Silent(was, r) THEN Kept(proj, NoRow)
  ELSE WithRow(proj, AgentRow(proj, r, was, is), is, r.event.pane)
WithoutChildren(proj, r, agent) ==
  IF DropsChildren(agent, r) THEN [proj EXCEPT !.children[r.event.pane] = {}] ELSE proj
ObserveChild(proj, row) ==
  Kept([proj EXCEPT !.children[row.pane] = WithChild(@, row)], row)
ObserveIn(proj, r) ==
  CASE r.event.kind = "projected" -> Kept(proj, NoRow)
    [] r.event.kind = "boundary" ->
         Kept([proj EXCEPT !.agents = EmptyProjection.agents,
                           !.children = EmptyProjection.children], Row(r, "boundary", NoOne, NoOne))
    [] r.event.kind \in {"note", "visit"} -> Kept(proj, Row(r, r.event.kind, r.event.ctx, NoOne))
    [] r.event.kind = "linked" -> ObserveChild(proj, ChildRow(proj, r))
    [] OTHER -> ObserveAgent(WithoutChildren(proj, r, proj.agents[r.event.pane]), r,
                             proj.agents[r.event.pane], AgentAfter(proj.agents[r.event.pane], r))
Observe(proj, r) == ObserveIn(Structured(proj, r), r)

\* The projection and the rows of the events from .. to, on top of a projection.
RECURSIVE ObserveAll(_, _, _)
WithRest(row, rest) ==
  [proj |-> rest.proj, rows |-> (IF row = NoRow THEN << >> ELSE <<row>>) \o rest.rows]
Continue(done, from, to) == WithRest(done.row, ObserveAll(done.proj, from, to))
ObserveAll(proj, from, to) ==
  IF from > to THEN [proj |-> proj, rows |-> << >>]
  ELSE Continue(Observe(proj, hist[from]), from + 1, to)

-----------------------------------------------------------------------------
(* Index::update.                                                          *)

Header   == IF base > 0 THEN 1 ELSE 0
FileLen  == Header + Len(hist) - base
Fresh    == [sequence |-> 0, offset |-> 0, inode |-> inode, proj |-> EmptyProjection]
Loaded   == IF index # NoIndex THEN index
            ELSE IF saved # NoIndex THEN saved ELSE [Fresh EXCEPT !.inode = 0]

Unusable(idx, through) ==
  dirty \/ idx.inode # inode \/ idx.offset > FileLen \/ idx.sequence > through

\* The sequence of the record at an offset; offset 0 reads the archives first.
SeqAt(offset) == IF offset = 0 THEN 1 ELSE base + offset - Header + 1

\* The first record read must continue the index.
Continues(idx) ==
  /\ SeqAt(idx.offset) <= Len(hist)
  /\ idx.sequence # 0 => SeqAt(idx.offset) = idx.sequence + 1
Fails(idx, through) == idx.sequence < through /\ ~Continues(idx)
Rebuilds(through) == Unusable(Loaded, through) \/ Fails(Loaded, through)

\* A position in an archive is not one in the log file.
Extended(idx, through, proj) ==
  [sequence |-> through, proj |-> proj,
   offset |-> IF through < base THEN 0 ELSE Header + through - base,
   inode  |-> IF through < base THEN 0 ELSE idx.inode]

Written(idx, list, read, through) ==
  [idx |-> Extended(idx, through, read.proj), rows |-> list \o read.rows]
Updated(idx, list, through) ==
  IF idx.sequence >= through THEN [idx |-> idx, rows |-> list]
  ELSE Written(idx, list, ObserveAll(idx.proj, idx.sequence + 1, through), through)

\* query: an update from the cache, or from nothing when it is no good.
Update(through) ==
  IF Rebuilds(through) THEN Updated(Fresh, << >>, through)
  ELSE Updated(Loaded, rows, through)

Init ==
  /\ hist = << >> /\ base = 0 /\ inode \in Inodes /\ synced = 0
  /\ index = NoIndex /\ saved = NoIndex /\ dirty = FALSE /\ rows = << >>
  /\ spoiled = FALSE /\ faults = 0

\* An append; notes and boundaries are synced at once.
AppendEvent(event, day) ==
  /\ Len(hist) < MaxSeq
  /\ hist' = Append(hist, [seq |-> Len(hist) + 1, day |-> day, event |-> event])
  /\ synced' = IF event.kind \in {"note", "boundary"} THEN Len(hist') ELSE synced
  /\ UNCHANGED <<base, inode, index, saved, dirty, rows, spoiled, faults>>

\* A compaction puts a new file in the place of the log.
Compact(i) ==
  /\ Len(hist) > base /\ i # inode
  /\ base' = Len(hist) /\ inode' = i /\ synced' = Len(hist)
  /\ UNCHANGED <<hist, index, saved, dirty, rows, spoiled, faults>>

\* A query for the events up to a cursor the core has reached.
Query(through) ==
  /\ \E done \in {Update(through)} :
       /\ index' = done.idx /\ rows' = done.rows
       /\ saved' = IF done.idx = Fresh THEN NoIndex
                   ELSE IF done.idx = Loaded THEN saved ELSE done.idx
  /\ spoiled' = (spoiled /\ ~Rebuilds(through))
  /\ dirty' = FALSE
  /\ UNCHANGED <<hist, base, inode, synced, faults>>

\* Death in an update: some of the new rows are written, the marker is there.
DieWriting(through, n) ==
  /\ faults < MaxFaults
  /\ ~Rebuilds(through) /\ Loaded.sequence < through
  /\ \E done \in {Update(through)} :
       /\ n \in 0..Len(done.rows) - Len(rows)
       /\ rows' = SubSeq(done.rows, 1, Len(rows) + n)
  /\ dirty' = TRUE /\ index' = NoIndex /\ faults' = faults + 1
  /\ UNCHANGED <<hist, base, inode, synced, saved, spoiled>>

\* Death while an unusable cache is removed, file by file in any order; the rows
\* of a day are one file.
DieWiping(through, marker, json, gone) ==
  /\ faults < MaxFaults /\ Unusable(Loaded, through)
  /\ marker => dirty
  /\ dirty' = marker /\ saved' = (IF json THEN saved ELSE NoIndex)
  /\ rows' = SelectSeq(rows, LAMBDA row : row.day \notin gone)
  /\ spoiled' = (spoiled \/ (~marker /\ json /\ saved # NoIndex))
  /\ index' = NoIndex /\ faults' = faults + 1
  /\ UNCHANGED <<hist, base, inode, synced>>

\* Power loss: unsynced events are gone, and with them the process.
LosePower(n) ==
  /\ faults < MaxFaults /\ n \in synced..Len(hist)
  /\ hist' = SubSeq(hist, 1, n)
  /\ spoiled' = (spoiled \/ (saved # NoIndex /\ saved.sequence > n))
  /\ index' = NoIndex /\ faults' = faults + 1
  /\ UNCHANGED <<base, inode, synced, saved, dirty, rows>>

Next ==
  \/ \E event \in Events, day \in Days : AppendEvent(event, day)
  \/ \E i \in Inodes : Compact(i)
  \/ \E through \in 0..Len(hist) :
       \/ Query(through)
       \/ \E n \in 0..MaxSeq : DieWriting(through, n)
       \/ \E marker, json \in BOOLEAN, gone \in SUBSET Days :
            DieWiping(through, marker, json, gone)
  \/ \E n \in 0..Len(hist) : LosePower(n)

Spec == Init /\ [][Next]_vars

-----------------------------------------------------------------------------
(* What a query answers.                                                   *)

RowsBefore(list, day, through, before) ==
  {i \in DOMAIN list : list[i].day = day /\ list[i].seq <= through
                        /\ (before # 0 => list[i].seq < before)}
Seqs(list, positions) == {list[i].seq : i \in positions}

Newest(seqs, n) == {q \in seqs : Cardinality({o \in seqs : o > q}) < n}
Least(seqs)     == CHOOSE q \in seqs : \A o \in seqs : q <= o

\* One page: the newest rows before the cursor, the oldest of them dropped
\* again ("over" of them) while the answer is too long for a frame.
PageOf(seqs, over) ==
  LET page == Newest(Newest(seqs, PageSize), IF over < PageSize THEN PageSize - over ELSE 1)
  IN  [seqs |-> page, next |-> IF page = seqs THEN 0 ELSE Least(page)]

RECURSIVE Pages(_, _, _, _)
PagesAfter(page, day, through, over) ==
  IF page.next = 0 THEN <<page.seqs>>
  ELSE <<page.seqs>> \o Pages(day, through, page.next, over)
Pages(day, through, before, over) ==
  PagesAfter(PageOf(Seqs(rows, RowsBefore(rows, day, through, before)), over), day, through, over)

\* Live agents, and children of live agents, that the page does not show.
ActiveAgents(proj, shown) ==
  {row \in UNION {IF proj.agents[p] = NoAgent \/ proj.agents[p].exited THEN {}
                  ELSE {proj.agents[p].last} \cup proj.children[p] : p \in Panes} :
     row.seq \notin shown}

\* resume: the profile of a Pane when the event "n" is observed.
NoProfile == [src |-> 0, session |-> NoOne]
Other(a, b) == a # NoOne /\ b # NoOne /\ a # b
ProfileAfter(was, r) ==
  CASE r.event.kind \in {"bound", "boundary"} -> NoProfile
    [] r.event.kind = "resumed" -> [src |-> r.seq, session |-> r.event.session]
    [] r.event.kind = "observed" /\ r.event.argv -> [src |-> r.seq, session |-> r.event.session]
    [] r.event.kind = "observed" /\ Other(was.session, r.event.session) -> NoProfile
    [] OTHER -> was
Concerns(r, pane) == r.event.kind = "boundary" \/ ("pane" \in DOMAIN r.event /\ r.event.pane = pane)
RECURSIVE ProfileAt(_, _)
ProfileLeft(n, pane) ==
  IF n = 0 \/ (Concerns(hist[n], pane) /\ hist[n].event.kind \in Ended) THEN NoProfile
  ELSE ProfileAt(n, pane)
ProfileAt(n, pane) ==
  IF Concerns(hist[n], pane) THEN ProfileAfter(ProfileLeft(n - 1, pane), hist[n])
  ELSE ProfileLeft(n - 1, pane)

-----------------------------------------------------------------------------
(* Properties.                                                             *)

\* A cache that the next query would use holds exactly the rows and the live
\* context of the events it covers, whatever updates were interrupted and however
\* often the log was compacted (Index::update).
IndexMatchesLog ==
  ~spoiled /\ ~Unusable(Loaded, Len(hist)) /\ Loaded.sequence > 0
    /\ ~Fails(Loaded, Len(hist)) =>
    \E all \in {ObserveAll(EmptyProjection, 1, Loaded.sequence)} :
      rows = all.rows /\ Loaded.proj = all.proj

\* The pages of a day, followed from the newest through the cursor each hands
\* out, are disjoint and together are the day's rows, also when pages are cut
\* short to fit a frame (Index::query_once).
PagesCoverDay ==
  index # NoIndex /\ index.sequence > 0 =>
    \A day \in Days, over \in 0..PageSize :
      \E pages \in {Pages(day, index.sequence, 0, over)} :
        /\ UNION {pages[i] : i \in DOMAIN pages} =
             Seqs(rows, RowsBefore(rows, day, index.sequence, 0))
        /\ \A i, j \in DOMAIN pages : i < j => \A a \in pages[i], b \in pages[j] : b < a

\* The invocation of a Pane after "n" events, said of the history: its latest
\* start after its latest end, or else the first session seen since.
Last(n, pane, kinds) ==
  LET found == {i \in 1..n : Concerns(hist[i], pane) /\ hist[i].event.kind \in kinds}
  IN  IF found = {} THEN 0 ELSE CHOOSE i \in found : \A j \in found : j <= i
InvocationAt(n, pane) ==
  LET ended == Last(n, pane, Ended \cup {"boundary"})
      start == Last(n, pane, {"bound", "resumed"})
      seen  == {i \in ended + 1..n : hist[i].event.kind = "observed" /\ Concerns(hist[i], pane)}
  IN  IF start > ended THEN start ELSE IF seen = {} THEN 0 ELSE Least(seen)

\* A row names the invocation its event belongs to, never an earlier one of the
\* same Pane, and an agent listed as still active has not ended
\* (Projection::observe, Index::query_once).
RowsNameInvocation ==
  \E all \in {ObserveAll(EmptyProjection, 1, Len(hist))} :
    /\ \A i \in DOMAIN all.rows :
         all.rows[i].kind = "agent" =>
           all.rows[i].invocation =
             InvocationAt(IF hist[all.rows[i].seq].event.kind \in Ended
                          THEN all.rows[i].seq - 1 ELSE all.rows[i].seq, all.rows[i].pane)
    /\ \A row \in ActiveAgents(all.proj, {}) :
         /\ InvocationAt(Len(hist), row.pane) # 0
         /\ row.kind = "agent" => row.invocation = InvocationAt(Len(hist), row.pane)
         /\ row.kind = "child" =>
              row.seq > Last(Len(hist), row.pane, Ended \cup {"boundary", "bound", "resumed"})

\* An observation is resumed with a profile recorded for its own invocation, and
\* never with the profile of another session (timeline::resume).
ResumesOwnSession ==
  \E all \in {ObserveAll(EmptyProjection, 1, Len(hist))} :
    \A i \in DOMAIN all.rows :
      LET row     == all.rows[i]
          profile == ProfileAt(row.seq, row.pane)
      IN  row.kind = "agent" /\ row.invocation # 0 /\ profile # NoProfile =>
            profile.src >= row.invocation /\ ~Other(profile.session, row.session)
=============================================================================
