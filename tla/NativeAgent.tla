---------------------------- MODULE NativeAgent ----------------------------
(***************************************************************************)
(* The JVMTI agent, jvmti-agent/src/lib.rs: allocation events merged into  *)
(* a tree of paths, a snapshot of it when GET_MEMORY_DATA asks, and the    *)
(* native JDBC probes, which only the calibration of a start calls: the    *)
(* instrumented code calls SqlHotSpots where it would call a probe.  Every *)
(* thread has a list of steps to take, one access to shared memory each; a *)
(* call puts the rest of its steps in front.  Whether the JVM grants it    *)
(* events is decided when it is loaded.                                    *)
(***************************************************************************)
EXTENDS HotSpotTables

CONSTANTS
  Threads,      \* application threads
  Connections,  \* threads of the agent, one per TCP connection
  NoOne,        \* nobody holds recordingLock
  Probes,       \* JDBC probes, numbered from 0 (12 in the code)
  AgentMethods, \* methods of the agent's own classes
  Unreadable,   \* methods the JVM gives no name for
  MaxFrames,    \* frames kept of a stack (12 in the code)
  Iterations,   \* calibration calls of each probe (2000 unless configured)
  Costs,        \* cpu time a calibration call may take
  Plans         \* what threads and connections do: functions to sequences of calls

Actors == Threads \cup Connections

ASSUME NativeAssumption ==
  /\ NoOne \notin Actors /\ Threads \cap Connections = {}
  /\ IsFiniteSet(Threads) /\ IsFiniteSet(Probes) /\ Probes = 0..(Cardinality(Probes) - 1)
  /\ MaxFrames \in 1..DepthCap
  /\ Iterations \in Nat /\ Costs \subseteq Nat
  /\ \A plan \in Plans : DOMAIN plan = Actors

VARIABLES
  events,      \* VMObjectAlloc events are enabled
  todo,        \* steps still to take
  holder,      \* holder of recordingLock
  recording,   \* RECORDING
  frozen,      \* ALLOCATION_SNAPSHOT_IN_PROGRESS
  allocations, \* NATIVE_ALLOCATIONS, by path, innermost method first
  reply,       \* rows of the snapshot a connection took last
  cpu,         \* cpu time of each connection's thread
  stack,       \* NATIVE_JDBC_STACK of each: probe and start, innermost last
  stats,       \* NATIVE_JDBC_STATS
  overhead,    \* jdbcProbeOverheadNanos
  session,     \* history: starts begun
  stale        \* history: events in the table that were checked before the last start

memory == <<recording, frozen, allocations, reply, session, stale>>
jdbc   == <<cpu, stack, stats, overhead>>
vars   == <<events, todo, holder, memory, jdbc>>

Fields == {"self", "total", "invocations"}

----------------------------------------------------------------------------
(* The calls, as lists of steps.                                           *)

\* The steps of each probe in turn.
Each(steps) == [i \in 1..Cardinality(Probes) |-> steps[i - 1]]

\* reset_native_jdbc_hotspots: probe by probe, three stores each.
ResetJdbc ==
  FlattenSeq(Each([p \in Probes |->
    <<<<"zero", p, "self">>, <<"zero", p, "total">>, <<"zero", p, "invocations">>>>]))

\* startRecording of the native agent.
StartNative == <<<<"record", TRUE>>, <<"clear">>>> \o ResetJdbc

\* getNativeAllocationHotSpotsTsv.
Snapshot == <<<<"freeze">>, <<"copy">>, <<"thaw">>>>

\* calibrateJdbcProbeOverhead; native: a mode that calls the native probes, Iterations > 0.
\* The Java probes' calibration touches the Java tables only (CalibrateJava).
Calibrate(native) ==
  LET calls(p) == FlattenSeq([i \in 1..Iterations |-> <<<<"enter", p>>, <<"exit", p>>>>])
      one == [p \in Probes |-> calls(p) \o <<<<"average", p>>>> \o ResetJdbc]
  IN <<<<"forget">>>>
       \o (IF native THEN ResetJdbc \o FlattenSeq(Each(one)) \o ResetJdbc ELSE <<>>)

\* JavaAgent.startRecording, under the lock; of the Java table see AllocationData.
StartSteps(native) ==
  ResetJdbc \o StartNative \o Snapshot \o <<<<"clear">>>> \o Calibrate(native)

StartCommand(native) == <<<<"lock", TRUE>>>> \o StartSteps(native) \o <<<<"unlock">>>>

\* Mutant: a stop does not wait for a start.
StopUnlocked == <<<<"record", FALSE>>>>

\* JavaAgent.stopRecording.
StopCommand == <<<<"lock", FALSE>>, <<"record", FALSE>>, <<"unlock">>>>

----------------------------------------------------------------------------
\* initialize_jvmti gets the environment, its capabilities and the events, or fails.
Init ==
  /\ events \in BOOLEAN
  /\ \E plan \in Plans : todo = [a \in Actors |-> FlattenSeq(plan[a])]
  /\ holder = NoOne
  /\ recording = FALSE /\ frozen = FALSE
  /\ allocations = <<>> /\ reply = [c \in Connections |-> <<>>]
  /\ cpu = [c \in Connections |-> 0] /\ stack = [c \in Connections |-> <<>>]
  /\ stats = [p \in Probes |-> [f \in Fields |-> 0]]
  /\ overhead = [p \in Probes |-> 0]
  /\ session = 0 /\ stale = 0

\* a's next step is of this kind; it is taken, and steps come in its place.
Takes(a, kind) == todo[a] # <<>> /\ Head(todo[a])[1] = kind
Arg(a, i) == Head(todo[a])[i + 1]
Then(a, steps) == todo' = [todo EXCEPT ![a] = steps \o Tail(@)]

Roots == {q \in DOMAIN allocations : Len(q) = 1}
SumOver(field, paths) == MapThenSumSet(LAMBDA q : allocations[q][field], paths)

(* Recording.                                                              *)

Lock(c) ==
  /\ Takes(c, "lock") /\ holder = NoOne
  /\ holder' = c /\ Then(c, <<>>)
  /\ session' = IF Arg(c, 1) THEN session + 1 ELSE session
  /\ stale' = IF Arg(c, 1) THEN SumOver("count", Roots) ELSE stale
  /\ UNCHANGED <<events, recording, frozen, allocations, reply, jdbc>>

Unlock(c) ==
  /\ Takes(c, "unlock")
  /\ holder' = NoOne /\ Then(c, <<>>)
  /\ UNCHANGED <<events, memory, jdbc>>

Record(c) ==
  /\ Takes(c, "record")
  /\ recording' = Arg(c, 1) /\ Then(c, <<>>)
  /\ UNCHANGED <<events, holder, frozen, allocations, reply, session, stale, jdbc>>

----------------------------------------------------------------------------
(* Allocations.                                                            *)

Readable(frames) == At(frames, {i \in 1..Len(frames) : frames[i] \notin Unreadable})

\* Mutant: a whole stack is kept.
DeepPath(frames) ==
  LET path == Readable(frames)
  IN IF path # <<>> /\ Head(path) \in AgentMethods THEN <<>> ELSE path

\* The readable ones of the innermost frames; none when the agent itself allocates.
Path(frames) ==
  LET path == Readable(Truncate(frames, MaxFrames))
  IN IF path # <<>> /\ Head(path) \in AgentMethods THEN <<>> ELSE path

\* on_vm_object_alloc, up to the lock of the table.
\* Its two flags are read one after the other in the code, and in one step here.
Allocate(t) ==
  /\ Takes(t, "alloc")
  /\ LET path == Path(Arg(t, 1)) IN
       Then(t, IF events /\ recording /\ ~frozen /\ Arg(t, 2) > 0 /\ path # <<>>
               THEN <<<<"merge", path, Arg(t, 2), session>>>> ELSE <<>>)
  /\ UNCHANGED <<events, holder, memory, jdbc>>

\* Mutant: an event counts where it happened only.
CountedOnce(path, size) ==
  LET old(q) == IF q \in DOMAIN allocations THEN allocations[q] ELSE [size |-> 0, count |-> 0]
  IN [q \in DOMAIN allocations \cup {path} |->
        IF q = path THEN [size |-> old(q).size + size, count |-> old(q).count + 1]
        ELSE allocations[q]]

\* One event counts at every method from the innermost outwards.
Counted(path, size) ==
  LET old(q) == IF q \in DOMAIN allocations THEN allocations[q] ELSE [size |-> 0, count |-> 0]
      on == Prefixes(path) \ {<<>>}
  IN [q \in DOMAIN allocations \cup on |->
        IF q \in on THEN [size |-> old(q).size + size, count |-> old(q).count + 1]
        ELSE allocations[q]]

Merge(t) ==
  /\ Takes(t, "merge") /\ Then(t, <<>>)
  /\ allocations' = Counted(Arg(t, 1), Arg(t, 2))
  /\ stale' = IF Arg(t, 3) < session THEN stale + 1 ELSE stale
  /\ UNCHANGED <<events, holder, recording, frozen, reply, session, jdbc>>

\* Mutant: the table is left alone while events may come.
ClearStopped(c) ==
  /\ Takes(c, "clear") /\ Then(c, <<>>)
  /\ IF recording THEN UNCHANGED <<allocations, stale>> ELSE allocations' = <<>> /\ stale' = 0
  /\ UNCHANGED <<events, holder, recording, frozen, reply, session, jdbc>>

Clear(c) ==
  /\ Takes(c, "clear") /\ Then(c, <<>>)
  /\ allocations' = <<>> /\ stale' = 0
  /\ UNCHANGED <<events, holder, recording, frozen, reply, session, jdbc>>

Freeze(c) ==
  /\ Takes(c, "freeze") /\ Then(c, <<>>) /\ frozen' = TRUE
  /\ UNCHANGED <<events, holder, recording, allocations, reply, session, stale, jdbc>>

Thaw(c) ==
  /\ Takes(c, "thaw") /\ Then(c, <<>>) /\ frozen' = FALSE
  /\ UNCHANGED <<events, holder, recording, allocations, reply, session, stale, jdbc>>

\* Mutant: sorted by size alone.
PrecedesBySize(p, q) == allocations[p].size >= allocations[q].size

\* Shorter paths first, larger ones first among them, no order among equals.
Precedes(p, q) ==
  Len(p) < Len(q) \/ (Len(p) = Len(q) /\ allocations[p].size >= allocations[q].size)

\* Ids count the rows; a parent's is looked up among the rows before.
Rows(order) ==
  LET parent(i) == IF Len(order[i]) > 1
                   THEN {j \in 1..(i - 1) : order[j] = Front(order[i])} ELSE {}
      row(i) == [id     |-> i - 1, name |-> order[i],
                 parent |-> IF parent(i) = {} THEN NoId ELSE FirstOf(parent(i)) - 1,
                 size   |-> allocations[order[i]].size,
                 count  |-> allocations[order[i]].count]
  IN [i \in 1..Len(order) |-> row(i)]

Copy(c) ==
  /\ Takes(c, "copy") /\ Then(c, <<>>)
  /\ \E order \in SetToSeqs(DOMAIN allocations) :
       /\ \A i, j \in 1..Len(order) : i < j => Precedes(order[i], order[j])
       /\ reply' = [reply EXCEPT ![c] = Rows(order)]
  /\ UNCHANGED <<events, holder, recording, frozen, allocations, session, stale, jdbc>>

----------------------------------------------------------------------------
(* JDBC probes.                                                            *)

Enter(c) ==
  /\ Takes(c, "enter") /\ Then(c, <<>>)
  /\ stack' = IF recording
              THEN [stack EXCEPT ![c] = Append(@, <<Arg(c, 1), cpu[c]>>)] ELSE stack
  /\ UNCHANGED <<events, holder, memory, cpu, stats, overhead>>

\* The frame on top is popped, and counted only when it is this probe's.
Exit(c) ==
  /\ Takes(c, "exit")
  /\ \E cost \in Costs : cpu' = [cpu EXCEPT ![c] = @ + cost]
  /\ IF recording /\ stack[c] # <<>>
     THEN LET top == Last(stack[c])
              p   == Arg(c, 1)
              duration == cpu'[c] - top[2]
          IN /\ stack' = [stack EXCEPT ![c] = Front(@)]
             /\ Then(c, IF top[1] = p
                        THEN <<<<"add", p, "self", duration>>, <<"add", p, "total", duration>>,
                               <<"add", p, "invocations", 1>>>>
                        ELSE <<>>)
     ELSE Then(c, <<>>) /\ UNCHANGED stack
  /\ UNCHANGED <<events, holder, memory, stats, overhead>>

Add(c) ==
  /\ Takes(c, "add") /\ Then(c, <<>>)
  /\ stats' = [stats EXCEPT ![Arg(c, 1)][Arg(c, 2)] = @ + Arg(c, 3)]
  /\ UNCHANGED <<events, holder, memory, cpu, stack, overhead>>

Forget(c) ==
  /\ Takes(c, "forget") /\ Then(c, <<>>)
  /\ overhead' = [p \in Probes |-> 0]
  /\ UNCHANGED <<events, holder, memory, cpu, stack, stats>>

Zero(c) ==
  /\ Takes(c, "zero") /\ Then(c, <<>>)
  /\ stats' = [stats EXCEPT ![Arg(c, 1)][Arg(c, 2)] = 0]
  /\ UNCHANGED <<events, holder, memory, cpu, stack, overhead>>

\* getNativeJdbcProbeAverageDurationNanos: the invocations first, then the time.
Average(c) ==
  /\ Takes(c, "average")
  /\ LET p == Arg(c, 1)  n == stats[p]["invocations"] IN
       IF n = 0 THEN Then(c, <<>>) /\ overhead' = [overhead EXCEPT ![p] = 0]
                ELSE Then(c, <<<<"divide", p, n>>>>) /\ UNCHANGED overhead
  /\ UNCHANGED <<events, holder, memory, cpu, stack, stats>>

Divide(c) ==
  /\ Takes(c, "divide") /\ Then(c, <<>>)
  /\ overhead' = [overhead EXCEPT ![Arg(c, 1)] = stats[Arg(c, 1)]["self"] \div Arg(c, 2)]
  /\ UNCHANGED <<events, holder, memory, cpu, stack, stats>>

ConnectionStep(c) ==
  \/ Lock(c) \/ Unlock(c) \/ Record(c)
  \/ Clear(c) \/ Freeze(c) \/ Copy(c) \/ Thaw(c)
  \/ Enter(c) \/ Exit(c) \/ Add(c) \/ Zero(c)
  \/ Forget(c) \/ Average(c) \/ Divide(c)

Next ==
  \/ \E t \in Threads : Allocate(t) \/ Merge(t)
  \/ \E c \in Connections : ConnectionStep(c)

Spec == Init /\ [][Next]_vars

----------------------------------------------------------------------------
(* Properties.                                                             *)

(* The types of the variables, and who may hold the lock.                  *)
TypeOK ==
  /\ holder \in Connections \cup {NoOne}
  /\ recording \in BOOLEAN /\ frozen \in BOOLEAN
  /\ \A q \in DOMAIN allocations : Len(q) \in 1..MaxFrames /\ allocations[q].count > 0
  /\ \A p \in Probes, f \in Fields : stats[p][f] \in Nat
  /\ \A p \in Probes : overhead[p] \in Nat
  /\ (allocations # <<>> => events)

(* The table that events of many threads fill and a start empties stays a  *)
(* tree at every moment: a path is there with all its prefixes, and counts *)
(* at least what its extensions by one method count together.              *)
TreeCovers ==
  \A q \in DOMAIN allocations :
    LET longer == {r \in DOMAIN allocations : Len(r) > 1 /\ Front(r) = q} IN
      /\ Prefixes(q) \ {<<>>} \subseteq DOMAIN allocations
      /\ SumOver("size", longer) <= allocations[q].size
      /\ SumOver("count", longer) <= allocations[q].count

(* Whatever is merged or cleared while it is taken, a reply of the native  *)
(* table read by the TUI is a tree: a row's parent is the row of its path  *)
(* less the outermost method, its depth is its place in the path, no       *)
(* parent is smaller than its children together, and with every row        *)
(* expanded all are shown, once.  Replies of the Java table, which is read *)
(* row by row, may show a parent smaller than its children.                *)
ReplyIsTree ==
  \A c \in Connections :
    LET nodes == reply[c]
        rows  == AllocationRows(nodes)
        ids   == {nodes[i].id : i \in 1..Len(nodes)}
        shown == VisibleTree(rows, ids)
        below(i) == {j \in 1..Len(nodes) : nodes[j].parent = nodes[i].id}
    IN /\ \A i \in 1..Len(nodes) :
            /\ rows[i].depth = Len(nodes[i].name) - 1
            /\ nodes[i].parent # NoId =>
                 nodes[nodes[i].parent + 1].name = Front(nodes[i].name)
            /\ MapThenSumSet(LAMBDA j : nodes[j].size, below(i)) <= nodes[i].size
       /\ Len(shown) = Len(rows) /\ ToSet(shown) = ToSet(rows)

(* After a start, the table holds no allocation checked before it began    *)
(* but the one each thread was about to merge.                             *)
StaleBounded == holder = NoOne => stale <= Cardinality(Threads)

(* The native probes count nothing but a calibration, and a calibration    *)
(* cleans up behind itself: whenever no start or stop is under way, all    *)
(* statistics are zero and no frame is left on a probe stack.  A frame     *)
(* left by a stop in the middle would be taken for the next start's call.  *)
JdbcQuiet ==
  holder = NoOne =>
    /\ \A p \in Probes, f \in Fields : stats[p][f] = 0
    /\ \A c \in Connections : stack[c] = <<>>
=============================================================================
