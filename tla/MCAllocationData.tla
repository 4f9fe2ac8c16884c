-------------------------- MODULE MCAllocationData --------------------------
(* An instance of AllocationData for TLC: plans of five kinds, chosen at    *)
(* the start, so that their state spaces add up instead of multiplying.     *)
EXTENDS AllocationData

Alloc(path, size) == <<<<"alloc", path, size>>>>
NewObject(o, frames, m) == <<<<"new", o, frames, m, FALSE>>>>
NewArray(o, frames, m) == <<<<"new", o, frames, m, TRUE>>>>

Plan(t1, t2, c1, c2) ==
  [a \in Actors |-> CASE a = "t1" -> t1 [] a = "t2" -> t2 [] a = "c1" -> c1 [] OTHER -> c2]

\* Allocations of two threads, a restart without a stop, and two readers.
Restart == Plan(
  <<Alloc(<<"m", "x", "n">>, 2)>>,
  <<Alloc(<<"n", "m">>, 1), Alloc(<<"m", "n", "m", "n">>, 2)>>,
  <<StartCommand(FALSE), StartCommand(FALSE), Snapshot>>,
  <<Snapshot>>)

\* A stop and what the agent itself, or a method without a name, allocates.
Stop == Plan(
  <<Alloc(<<"agent", "m">>, 1), Alloc(<<"x", "agent">>, 1), Alloc(<<"x", "m">>, 1)>>,
  <<Alloc(<<"m", "agent">>, 1), Alloc(<<"n">>, 0), Alloc(<<"n">>, 1)>>,
  <<StartCommand(FALSE), StopCommand, Snapshot>>,
  <<Snapshot>>)

\* Two starts that calibrate with a stop between, and a stop by another client.
Calibrations == Plan(<<>>, <<>>,
  <<StartCommand(TRUE), StopCommand, StartCommand(TRUE)>>, <<StopCommand>>)

\* Hooks of two threads under a start, then a reply, collections at any time;
\* arrays at a boundary, and a method of the JDK, are not recorded.
Hooks == Plan(
  <<NewObject("o1", <<1, 2>>, 1)>>,
  <<NewObject("o2", <<2>>, 1), NewArray("o3", <<7, 1>>, 9), NewObject("o4", <<1>>, 8)>>,
  <<StartData("id"), MemoryCommand>>,
  <<>>)

\* A thread's hooks under two starts, a stop and another client's reply; a
\* boundary is the site's root, and arrays of a class of the JDK are left out.
Replies == Plan(
  <<NewObject("o1", <<2, 7, 1, 7>>, 2), NewArray("o3", <<1>>, 9)>>,
  <<>>,
  <<StartData("off"), StopData, StartData("off")>>,
  <<MemoryCommand>>)

MCSites == {<<1>>, <<1, 2>>, <<7>>, <<7, 1>>}

MCPlans == {Restart, Stop, Calibrations, Hooks, Replies}
=============================================================================
