--------------------------- MODULE HotSpotTables ---------------------------
(***************************************************************************)
(* What the TUI makes of an agent's replies: protocol.rs turns them into   *)
(* rows, app.rs picks the rows that a table shows.  Pure operators.        *)
(*                                                                         *)
(* A name is a sequence of letters and stands for a class, a method and a  *)
(* descriptor together; Sql and Query stand for the class "SQL", the mark  *)
(* of a statement.  Ids are natural numbers, None is -1.                   *)
(***************************************************************************)
EXTENDS Integers, SequencesExt

NoId == -1

\* What s has at these places, in order.
At(s, places) ==
  LET nth(n) == CHOOSE i \in places : Cardinality({j \in places : j <= i}) = n
  IN [n \in 1..Cardinality(places) |-> s[nth(n)]]

\* Those of s that pass a test, in order.
Those(s, Test(_)) == At(s, {i \in 1..Len(s) : Test(s[i])})

\* sort_by with b.cmp(a): largest first, equal ones stay in their order.
Ahead(key, j, i) == key[j] > key[i] \/ (key[j] = key[i] /\ j < i)

Ranks(key, n) == [i \in 1..n |-> 1 + Cardinality({j \in 1..n : Ahead(key, j, i)})]

Sorted(s, key) ==
  LET rank == Ranks(key, Len(s))
  IN [k \in 1..Len(s) |-> s[CHOOSE i \in 1..Len(s) : rank[i] = k]]

LargestFirst(s, Key(_)) == Sorted(s, [i \in 1..Len(s) |-> Key(s[i])])

IsSeq(s) == s \in Seq(ToSet(s))

\* Mutant: one row too many is kept.
TruncateAfter(s, n) == SubSeq(s, 1, Min({n + 1, Len(s)}))

Truncate(s, n) == SubSeq(s, 1, Min({n, Len(s)}))

FirstOf(indices) == CHOOSE i \in indices : \A j \in indices : i <= j

\* The input filter, a sequence of letters; the empty one lets every name pass.
Passes(filter, name) == filter \in SubSeqs(name)

----------------------------------------------------------------------------
(* CPU: reply is [hotSpots, nodes, edges], sequences all three.            *)

MethodId(name, nodes) ==
  LET same == {i \in 1..Len(nodes) : nodes[i].name = name}
  IN IF same = {} THEN NoId ELSE nodes[FirstOf(same)].id

\* Mutant: the rows are cut off before they are sorted.
CpuRowsCutFirst(reply, limit) ==
  LET row(h)  == [id |-> MethodId(h.name, reply.nodes), name |-> h.name, sql |-> h.sql,
                  self |-> h.self]
      rows    == [i \in 1..Len(reply.hotSpots) |-> row(reply.hotSpots[i])]
      self(r) == r.self
  IN LargestFirst(Truncate(rows, limit), self)

CpuRows(reply, limit) ==
  LET row(h)  == [id |-> MethodId(h.name, reply.nodes), name |-> h.name, sql |-> h.sql,
                  self |-> h.self]
      rows    == [i \in 1..Len(reply.hotSpots) |-> row(reply.hotSpots[i])]
      self(r) == r.self
  IN Truncate(LargestFirst(rows, self), limit)

MethodRows(rows, filter) ==
  LET shown(r) == ~r.sql /\ Passes(filter, r.name) IN Those(rows, shown)

StatementRows(rows, filter) ==
  LET shown(r) == r.sql /\ Passes(filter, r.name) IN Those(rows, shown)

\* print_hotspots_once and print_database_once: a reply without the terminal.
PrintedMethods(reply, limit) ==
  LET method(h) == ~h.sql
      self(h) == h.self
  IN Truncate(LargestFirst(Those(reply.hotSpots, method), self), limit)

PrintedStatements(reply, limit) ==
  LET statement(h) == h.sql
      self(h) == h.self
  IN Truncate(LargestFirst(Those(reply.hotSpots, statement), self), limit)

\* hotspot_children: methods_by_id keeps one row of an id.
Children(id, rows, edges) ==
  LET known(e)    == e.from = id /\ \E i \in 1..Len(rows) : rows[i].id = e.to /\ ~rows[i].sql
      duration(e) == e.duration
  IN LargestFirst(Those(edges, known), duration)

\* One item per table row, an expanded method followed by its callees, up to limit
\* of them: the method it belongs to, and which callee it is (0: the method itself).
CpuItems(rows, edges, filter, expanded, limit) ==
  LET shown == MethodRows(rows, filter)
      callees(r) == IF r.id # NoId /\ r.id \in expanded
                    THEN Min({limit, Len(Children(r.id, rows, edges))}) ELSE 0
      items(r) == [i \in 1..(callees(r) + 1) |-> [id |-> r.id, callee |-> i - 1]]
  IN FlattenSeq([i \in 1..Len(shown) |-> items(shown[i])])

----------------------------------------------------------------------------
(* Memory: an answer is the lines of a class histogram and the nodes of an *)
(* allocation tree, sequences both.                                        *)

\* query_class_histogram: the lines with a rank and a name.
Histogram(lines) == LET row(l) == l.ranked /\ l.name # <<>> IN Those(lines, row)

DepthCap == 16

\* Levels above: up[rounds][id] is what as many rounds of the loop count from id on.
Depth(parent, nodes) ==
  LET at(id) == {i \in 1..Len(nodes) : nodes[i].id = id}
      up[rounds \in 0..DepthCap] ==
        [id \in Int |-> IF id < 0 \/ rounds = 0 THEN 0
                        ELSE IF at(id) = {} THEN 1
                        ELSE 1 + up[rounds - 1][nodes[FirstOf(at(id))].parent]]
  IN up[DepthCap][parent]

AllocationRows(nodes) ==
  [i \in 1..Len(nodes) |->
     [id |-> nodes[i].id, parent |-> nodes[i].parent, name |-> nodes[i].name,
      bytes |-> nodes[i].size,
      depth |-> Depth(nodes[i].parent, nodes)]]

HasChildren(id, rows) == \E i \in 1..Len(rows) : rows[i].parent = id

\* allocation_children_by_parent.
ChildRows(rows, id) ==
  LET of(r) == r.parent = id
      bytes(r) == r.bytes
  IN LargestFirst(Those(rows, of), bytes)

\* append_visible_allocation_rows, from the roots down.
VisibleTree(rows, expanded) ==
  LET under[id \in Int] ==
        LET below(r) == IF r.id \in expanded THEN under[r.id] ELSE <<>>
            those == ChildRows(rows, id)
        IN FlattenSeq([i \in 1..Len(those) |-> <<those[i]>> \o below(those[i])])
  IN under[NoId]

\* allocation_hotspot_rows without an allocation tree: the histogram, since the
\* mark (a set, of one function of names or of none), or since the last refresh.
HistogramRows(histogram, mark, filter) ==
  LET old(r) == IF \E f \in mark : r.name \in DOMAIN f
                THEN (CHOOSE f \in mark : TRUE)[r.name] ELSE 0
      grown(r) == IF mark # {} THEN Max({r.bytes - old(r), 0})
                  ELSE IF r.delta > 0 THEN r.delta ELSE r.bytes
      row(i) == [id |-> i, parent |-> NoId, name |-> histogram[i].name,
                 bytes |-> grown(histogram[i]), depth |-> 0]
      keep(r) == r.bytes > 0 /\ Passes(filter, r.name)
      bytes(r) == r.bytes
  IN LargestFirst(Those([i \in 1..Len(histogram) |-> row(i)], keep), bytes)
=============================================================================
