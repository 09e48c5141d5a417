----------------------------- MODULE TimelineRows -----------------------------
(***************************************************************************)
(* What Today shows of a day (uniterm-core/src/timeline.rs): observations  *)
(* joined into spans, the tree of sessions that Agents shows, and the tree *)
(* of invocations that Flow shows.  They are pure functions of the day's   *)
(* entries in the order of their sequence numbers, here of one provider;   *)
(* an entry's place in the day stands for its sequence and its time.       *)
(***************************************************************************)
EXTENDS Naturals, Sequences, FiniteSets, SequencesExt

CONSTANTS Observations,   \* what an entry can say
          MaxEntries

VARIABLE entries
vars == entries

None == 0     \* no invocation, session, parent or Project was reported

Observation(kind, inv, sess, psess, pinv, proj) ==
    [kind |-> kind, inv |-> inv, sess |-> sess, psess |-> psess, pinv |-> pinv, proj |-> proj]

Entry(es, i) == [seq |-> i, say |-> es[i]]
Agree(a, b) == a = None \/ b = None \/ a = b

\* The place of the last element of s that has the property, or 0
LastWith(s, Has(_)) == SelectLastInSeq(s, Has)

-----------------------------------------------------------------------------
(* spans *)

Span(e) == [first |-> e.seq, seq |-> e.seq, say |-> e.say, n |-> 1]

\* An observation goes to the newest span of its invocation, if neither its
\* session nor its Project says otherwise; what it does not say of the Project
\* is kept.
Joined(rows, e) ==
    LET at == LastWith(rows, LAMBDA r : r.say.kind = "agent" /\ r.say.inv = e.say.inv)
    IN  IF e.say.kind = "agent" /\ e.say.inv # None /\ at # 0
           /\ Agree(rows[at].say.sess, e.say.sess) /\ Agree(rows[at].say.proj, e.say.proj)
        THEN [rows EXCEPT ![at].seq = e.seq, ![at].n = @ + 1,
                          ![at].say = IF e.say.proj = None THEN [e.say EXCEPT !.proj = rows[at].say.proj]
                                      ELSE e.say]
        ELSE Append(rows, Span(e))

spans(es) == FoldLeft(Joined, <<>>, [i \in DOMAIN es |-> Entry(es, i)])

-----------------------------------------------------------------------------
(* Both trees: each node under its parent, children in their order, and what *)
(* no root leads to, a cycle, after the rest.                                *)

WalkOrder(n, parent) ==
    LET all == [i \in 1 .. n |-> i]
    IN  SelectSeq(all, LAMBDA i : parent[i] = 0) \o all

\* Depth first from each in turn, nothing twice; a row is a node, the row it
\* hangs from and its depth.
Walk(n, parent) ==
    LET children(i) == SelectSeq([j \in 1 .. n |-> j], LAMBDA j : parent[j] = i)
        RECURSIVE visit(_, _)
        visit(rows, stack) ==
          IF stack = <<>> THEN rows
          ELSE LET top == Head(stack)
                   kids == children(top.node)
                   at == Len(rows) + 1
               IN  IF \E i \in DOMAIN rows : rows[i].node = top.node THEN visit(rows, Tail(stack))
                   ELSE visit(Append(rows, top),
                              [k \in DOMAIN kids |-> [node |-> kids[k], under |-> at, depth |-> top.depth + 1]]
                              \o Tail(stack))
        from(rows, i) == visit(rows, <<[node |-> i, under |-> 0, depth |-> 0]>>)
    IN  FoldLeft(from, <<>>, WalkOrder(n, parent))

RowOf(row, node, Missing(_)) ==
    [span |-> node, under |-> row.under, depth |-> row.depth, missing |-> row.depth = 0 /\ Missing(node)]
RowsOf(nodes, walked, Missing(_)) ==
    [i \in DOMAIN walked |-> RowOf(walked[i], nodes[walked[i].node], Missing)]
RowsIn(nodes, parent, Missing(_)) == RowsOf(nodes, Walk(Len(nodes), parent), Missing)

-----------------------------------------------------------------------------
(* agent_tree *)

\* Where a span belongs among the nodes: with its session, or else with its
\* invocation as long as one of the two has no session.
NodeOf(t, s) ==
    IF s.say.sess # None /\ t.session[s.say.sess] # 0 THEN t.session[s.say.sess]
    ELSE IF s.say.inv # None /\ t.invocation[s.say.inv] # 0
            /\ (t.nodes[t.invocation[s.say.inv]].say.sess = None \/ s.say.sess = None)
    THEN t.invocation[s.say.inv]
    ELSE 0

\* A span joined to a node: the later of the two is shown, with the first parent
\* that was known.
Merged(node, s) ==
    LET parent == IF node.say.psess # None THEN node.say.psess ELSE s.say.psess
        say == IF s.seq > node.seq THEN s.say ELSE node.say
    IN  [first |-> IF s.first < node.first THEN s.first ELSE node.first,
         seq |-> IF s.seq > node.seq THEN s.seq ELSE node.seq,
         say |-> [say EXCEPT !.psess = IF @ = None THEN parent ELSE @],
         n |-> node.n + s.n]

TreeStep(t, s) ==
    LET at == NodeOf(t, s)
        to == IF at = 0 THEN Len(t.nodes) + 1 ELSE at
    IN  IF s.say.kind # "agent" THEN t
        ELSE [nodes |-> IF at = 0 THEN Append(t.nodes, s) ELSE [t.nodes EXCEPT ![at] = Merged(@, s)],
              session |-> IF s.say.sess = None THEN t.session ELSE [t.session EXCEPT ![s.say.sess] = to],
              invocation |-> IF s.say.inv = None \/ at # 0 THEN t.invocation
                             ELSE [t.invocation EXCEPT ![s.say.inv] = to]]

Ids == 1 .. 3

TreeAbove(t, node) == IF node.say.psess = None THEN 0 ELSE t.session[node.say.psess]
TreeParent(i, above) == IF above = i THEN 0 ELSE above
TreeRows(t) ==
    RowsIn(t.nodes, [i \in DOMAIN t.nodes |-> TreeParent(i, TreeAbove(t, t.nodes[i]))],
         LAMBDA s : s.say.psess # None)

agent_tree(es) ==
    TreeRows(FoldLeft(TreeStep,
                      [nodes |-> <<>>, session |-> [i \in Ids |-> 0], invocation |-> [i \in Ids |-> 0]],
                      spans(es)))

-----------------------------------------------------------------------------
(* agent_flow *)

FlowStep(nodes, e) ==
    LET at == SelectInSeq(nodes, LAMBDA s : s.say.inv = e.say.inv)
        old == nodes[at].say
    IN  IF e.say.kind # "agent" \/ e.say.inv = None THEN nodes
        ELSE IF at = 0 THEN Append(nodes, Span(e))
        ELSE [nodes EXCEPT ![at] =
                [@ EXCEPT !.n = @ + 1, !.seq = e.seq,
                          !.say = [e.say EXCEPT !.proj = IF @ = None THEN old.proj ELSE @,
                                                !.pinv = IF @ = None THEN old.pinv ELSE @]]]

FlowAbove(nodes, node) ==
    SelectInSeq(nodes, LAMBDA s : node.say.pinv # None /\ s.say.inv = node.say.pinv)
FlowParent(nodes, i, above) ==
    IF above \notin {0, i} /\ Agree(nodes[above].say.proj, nodes[i].say.proj) THEN above ELSE 0
FlowRows(nodes) ==
    RowsIn(nodes, [i \in DOMAIN nodes |-> FlowParent(nodes, i, FlowAbove(nodes, nodes[i]))],
         LAMBDA s : s.say.pinv # None)

agent_flow(es) == FlowRows(FoldLeft(FlowStep, <<>>, [i \in DOMAIN es |-> Entry(es, i)]))

-----------------------------------------------------------------------------
Init == entries = <<>>

Observe ==
    /\ Len(entries) < MaxEntries
    /\ \E o \in Observations : entries' = Append(entries, o)

Next == Observe
Spec == Init /\ [][Next]_vars

-----------------------------------------------------------------------------
(* Properties. *)

Agents(es) == SelectSeq(es, LAMBDA o : o.kind = "agent")
Observed(rows) == FoldLeft(LAMBDA a, r : a + r.span.n, 0, rows)

\* A child stands under the row it hangs from, with only that row's other
\* descendants between.
Nested(rows) ==
    \A i \in DOMAIN rows :
        IF rows[i].under = 0 THEN rows[i].depth = 0
        ELSE /\ rows[i].under < i /\ rows[i].depth = rows[rows[i].under].depth + 1
             /\ \A k \in rows[i].under + 1 .. i - 1 : rows[k].depth >= rows[i].depth

Shows(rows, es) == Observed(rows) = Len(es) /\ Nested(rows)

\* Every observation of an agent is in exactly one row of Timeline, Agents and
\* (when it has an invocation) Flow, also when the reported ancestry is a cycle,
\* and the trees are drawn as trees (spans, agent_tree, agent_flow).
EvidenceIsKept ==
    /\ FoldLeft(LAMBDA a, s : a + s.n, 0, spans(entries)) = Len(entries)
    /\ Shows(agent_tree(entries), Agents(entries))
    /\ Shows(agent_flow(entries), SelectSeq(Agents(entries), LAMBDA o : o.inv # None))

SaidOf(rows, i) == rows[i].span.say
OneEach(tree) ==
    /\ \A i, j \in DOMAIN tree :
         SaidOf(tree, i).sess # None /\ SaidOf(tree, i).sess = SaidOf(tree, j).sess => i = j
    /\ \A i \in DOMAIN tree :
         tree[i].under # 0 => Agree(SaidOf(tree, tree[i].under).sess, SaidOf(tree, i).psess)

\* Agents has one row for a session and hangs a row only from the session that it
\* names, or from one whose latest observation named none (agent_tree).
SessionsAreOne == OneEach(agent_tree(entries))

AtHome(flow) ==
    \A i \in DOMAIN flow :
        flow[i].under # 0 => /\ SaidOf(flow, flow[i].under).inv = SaidOf(flow, i).pinv
                             /\ Agree(SaidOf(flow, flow[i].under).proj, SaidOf(flow, i).proj)

\* Flow never draws a line between two Projects (agent_flow).
LinesStayHome == AtHome(agent_flow(entries))

=============================================================================
