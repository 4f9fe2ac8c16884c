------------------------------- MODULE MCTui -------------------------------
(* An instance of Tui for TLC: a behaviour follows one of three scenarios,  *)
(* so that the state spaces of the tables add up instead of multiplying.    *)
EXTENDS Tui

P == <<"p">>
Q == <<"q">>
PQ == <<"p", "q">>

\* Going about: two JVMs that come and go, telemetry, every way to a view.
Going ==
  [keys |-> {"Down", "Up", "PageDown", "Left", "Right", "Enter", "Tab", "Telemetries", "Jdbc",
             "Allocations", "Refresh", "Help"},
   lists |-> {<<"jps">>, <<"a", "jps", "b">>, <<"b">>},
   telemetry |-> TRUE, records |-> FALSE, memory |-> {}, cpu |-> {}]

\* CPU and database tables, refreshed, filtered, expanded.
Method(name, self) == [name |-> name, sql |-> FALSE, self |-> self]
Statement(name, self) == [name |-> name, sql |-> TRUE, self |-> self]
Node(id, name) == [id |-> id, name |-> name]
Edge(from, to, duration) == [from |-> from, to |-> to, duration |-> duration]
Nodes == <<Node(1, P), Node(2, Q), Node(3, PQ)>>

Busy ==
  [hotSpots |-> <<Statement(P, 1), Method(PQ, 1), Method(Q, 2), Statement(PQ, 2), Method(P, 3)>>,
   nodes |-> Nodes,
   edges |-> <<Edge(1, 2, 1), Edge(1, 3, 2), Edge(1, 1, 1), Edge(3, 2, 1), Edge(2, 9, 1)>>]
Quiet ==
  [hotSpots |-> <<Method(Q, 2), Statement(Q, 1)>>, nodes |-> Nodes, edges |-> <<Edge(2, 2, 1)>>]

Cpu ==
  [keys |-> {"CpuHotSpots", "Jdbc", "Tab", "Down", "Up", "PageDown", "PageUp", "Right", "Left",
             "Enter", "Filter"},
   lists |-> {<<"a">>},
   telemetry |-> FALSE, records |-> TRUE, memory |-> {}, cpu |-> {Busy, Quiet}]

\* The allocation view: trees, histograms, marks.
Class(name, bytes) == [ranked |-> TRUE, name |-> name, bytes |-> bytes]
Heading == [ranked |-> FALSE, name |-> P, bytes |-> 0]
Site(id, parent, name, size) == [id |-> id, parent |-> parent, name |-> name, size |-> size]

Tree ==
  [lines |-> <<Heading, Class(P, 2), Class(Q, 2)>>,
   nodes |-> <<Site(0, -1, P, 4), Site(1, -1, Q, 2), Site(2, 0, Q, 3), Site(3, 0, PQ, 1)>>]
Grown == [lines |-> <<Class(P, 3), Class(PQ, 1), Class(Q, 1)>>, nodes |-> <<>>]

Memory ==
  [keys |-> {"Allocations", "CpuHotSpots", "Tab", "Down", "Up", "Right", "Left",
             "Enter", "Refresh", "Mark", "Filter"},
   lists |-> {<<"a", "b">>},
   telemetry |-> FALSE, records |-> FALSE, memory |-> {Tree, Grown}, cpu |-> {}]

MCScenarios == {Going, Cpu, Memory}
=============================================================================
