# OProfiler in TLA+

OProfiler is a JVM profiler with a terminal interface. A Java agent, attached to a
running JVM, rewrites the bytecode of application classes so that every method entry
and exit calls a hook; the hooks count and time calls in thread-local buffers; a TCP
server in the agent answers commands; a Rust program (the TUI) finds JVMs, attaches the
agent, starts and stops recording and polls for data. This directory holds TLA+ models
of the parts of it that are hard to get right and hard to test, the TLC runs that check
them on small instances, and theorems that TLAPS proves for every value of the constants.

Paths below are relative to the repository; `Profiler.java` and the other Java files are
in `java-agent/src/main/java/com/openprofiler/agent/`, `app.rs` is in `crates/tui/src/`,
`event.rs` and `render.rs` too; `protocol.rs` and `jvm.rs` are in `crates/core/src/`, the
native agent is `crates/jvmti-agent/src/lib.rs`. A number in a module's comment is a line
of the source file named there.

## 1. Inventory

| Component | State | Operations | What is hard | Correct means |
|---|---|---|---|---|
| Hooks and shadow stack (`Profiler.java`, placed by `ProfilingMethodVisitor.java` in application classes and in boundaries of the JDK) | per thread: `MethodStack`, `sampledDepth`, `unsampledDepth`, `sampleCounter` | `recordMethodEnter/Exit`, `recordSqlEnter/Exit`, `recordAllocationTraceEnter/Exit`, `recordExit` | an exit hook knows only its method id and must guess whether its entry was sampled; exceptions skip hooks; recording is switched under running calls | stack and counters match the calls in progress; no time is invented, or counted twice but for what runs under a boundary |
| Thread-local counters (`LocalCounters`, `Profiler.java`) | three arrays per thread, shared `MethodStats` | hooks add, `flushThreadLocalBuffers` moves, `reset` clears, `ensureCapacity` replaces the arrays | no lock: owner and flushers meet on array elements and references | nothing is lost or duplicated but by a true meeting; what is buffered arrives |
| Method registry (`Profiler.java`) | `methodIdsByKey`, `nextMethodId`, `methodMetas`, `methodStats` | `registerMethod`, `ensureMethodCapacity`, `getMethodSnapshots` | double-checked locking, two arrays replaced one after the other under readers without a lock | one id per method, usable as soon as it is known; replies are consistent |
| Recording control (`JavaAgent.java`, `ProfilingClassFileTransformer.java`) | `recording`, `recordingLock`, `transformedClasses`, the bytecode of each class | `startRecording`, `stopRecording`, `transform` | class loading takes no part in the lock; redefinitions fail; the set holds names | a start instruments what is loaded, a stop restores it |
| SQL hot spots (`SqlHotSpots.java`) | per-thread entry stack, `preparedSql`, `stats` | `enterPrepared`, `exit`, `associatePreparedStatement`, `reset` | an exit may pop an entry its own enter never pushed | each execution is charged to its own statement |
| JDBC probes (`Profiler.java`, native agent) | per-thread probe stack, `jdbcStats`, `NATIVE_JDBC_STATS` | enter, exit, average, reset, calibration | only the calibration of a start calls them (see Not modelled): the Java one resets the profiler while calls run, the native one shares its statistics and the flag with stops and readers | the resets leave the hooks consistent; a calibration leaves nothing behind |
| Java allocations (`Profiler.java`) | `allocationStats`, weak references to live objects | `objectAllocatedAt` after every NEW, reset, `getAllocationSnapshots` for GET_MEMORY_DATA | a hook records one segment of a path after the other while a start empties the table, the collector takes objects and replies are read | live totals along each path, in the table and in every reply |
| Native agent | `RECORDING`, `NATIVE_ALLOCATIONS`, snapshot flag | allocation callback, TSV, reset; GET_MEMORY_DATA asks it when the Java table has nothing live | one flag for several readers, events checked long before they are merged, parents before children | every row's parent is in the reply; a start leaves little of what was before |
| TCP server (`TcpServer.java`) | `running`, server socket, executor | `start`, `stop`, `handleClient`, `handleCommand` | stop against start, cut-off headers | one reply per command |
| Protocol client (`protocol.rs`) | one socket with a timeout | `send_command`, `start_cpu_recording_fast`, `stop_cpu_recording_fast` | a timeout is taken for success | the client knows what the agent did |
| TUI session (`app.rs`) | `cpu.recording`, the pending flags, query handles | toggle, initial start, polling, `apply_result` | results arrive late and out of order, starts are retried | what is shown is what the agent does |
| TUI navigation (`app.rs`, `event.rs`, `render.rs`) | view, focus, filter, expanded rows, an index and an offset per table | keys, filters, expand and collapse, answers | lists shrink under an index; drawing, keys and clipboard count rows each in a loop of its own | the row highlighted is the row acted on |
| TUI queries (`app.rs`) | one handle per kind of query, `memory.loaded_once`, the deltas of the histogram, telemetry samples | `auto_update`, `refresh_current`, `poll_queries` | answers come late, are replaced or fail | histogram and telemetry are of the selected JVM, and come at all |
| Call tree (`call_tree.rs`) | none | `build_call_tree`, `build_hot_spots` | nothing: no key or timer asks for CPU samples, so it stays empty | sums over the tree |
| JVM discovery (`jvm.rs`), terminal loop (`tui/src/lib.rs`), rendering (`render.rs`), benchmarks | | | text and terminal I/O, but for which rows are offered, kept, drawn and printed | tables read the same wherever they appear |

How they interact. Bytecode calls the hooks on application threads. `TcpServer` runs each
connection on a thread of its own, and these threads call `startRecording`,
`stopRecording`, `getMethodSnapshots` and `setSamplingMode`. `startRecording` calls
`Profiler.reset` and asks the JVM to retransform classes; the JVM then calls
`ProfilingClassFileTransformer.transform`, as it does whenever the program loads a class,
and the visitor calls `registerMethod`. `startRecording` also starts the native agent, whose
allocation events come on application threads, and calibrates the JDBC probes. The TUI runs each request on a worker thread that
opens a connection, sends one command and reports through a channel that the event loop
polls.

`PROJECT.json` lists every part with its status, and the hazards with their lines and the
properties that cover them.

## 2. Modules

| Module | Models | Instance | Proofs |
|---|---|---|---|
| `MethodHooks` | hooks of one application thread, and the thread that starts, stops and retunes recording | `MCMethodHooks` | `MethodHooksProofs` |
| `CounterFlush` | `LocalCounters`, flush and reset, one memory access a step | `MCCounterFlush` | `CounterFlushProofs` |
| `MethodRegistry` | `registerMethod` and the snapshots | `MCMethodRegistry` | `MethodRegistryProofs` |
| `RecordingControl` | `startRecording`, `stopRecording` and class loading | `MCRecordingControl` | `RecordingControlProofs` |
| `RegistryPromise` | what `registerMethod` owes its callers, as if it were one step | implemented by `MethodRegistry` | `MethodRegistryProofs` |
| `CpuSession` | the TUI's recording state, its workers, the client's time-outs, and the agents' lock and flag | `MCCpuSession` | `CpuSessionProofs` |
| `HotSpotTables` | pure functions: replies to rows, rows to what a table shows | by `Tui` and `NativeAgent` | |
| `NativeAgent` | allocation events, their tree, snapshots, native probes, `recordingLock` | by `AllocationData` | `AllocationDataProofs` |
| `AllocationData` | composes `NativeAgent` with the Java table and GET_MEMORY_DATA | `MCAllocationData` | `AllocationDataProofs` |
| `Tui` | keys, timers, queries and tables of the terminal application | `MCTui` | `TuiProofs` |
| `DataFacts` | nothing: facts about sums over finite sets, flattened lists, rows picked, sorted and drawn as a tree, for the proofs | | itself |

Memory. Where threads share plain fields (`LocalCounters`, `recording` is volatile, the
arrays of the registry are volatile references to plain elements) the models interleave
single reads and writes: executions are sequentially consistent. Weaker outcomes of the
Java memory model, a torn `long` or a plain write seen late, are not modelled.

### MethodHooks

`stack`, `sampledDepth`, `unsampledDepth` and `sampleCounter` are the thread's fields.
`calls` is what the program really does: the calls in progress, each marked with whether
its bytecode had the hooks. `EnterMethod`, `ExitMethod`, `EnterTraced`, `ExitTraced`,
`EnterSql`, `ExitSql` move `calls` and run the hook the visitor placed there; `Unwind` is an
exception (no exit hook), `ThrowCaught` a throw caught in the method that made it (an exit
hook in mid-call).

Ids in `Traced` are the allocation boundaries. Every start hooks them, in JDK classes that run
application code (`ProfilingClassFileTransformer.java` 88-91, 147-164). Such a frame carries no
start, is charged what its callees last and takes that with it when it returns
(`Profiler.java` 550-563), so nothing is passed on to the frame below it: the self time of a
method includes whatever ran under a boundary it called. The models have boundaries in every run but
`hooks_sql`, and the properties say what they cost. `dropped` counts the time that frames were charged
and passed on to nobody.

A hook is one step, which is sound because everything it touches is
thread-local but `recording`, `samplingMode` and what `reset` zeroes; for the last,
`StartReset` may lose the zero of a counter that a hook had read before it. `startRecording`
and `stopRecording` are three steps each; a start goes on to `StartCalibrate`, the further resets made
between the calibrations of the probes when the native library is missing. `clock` is `nowNano()`, and `ownTime`, `lasted`
and `dropped` are history: `lasted` is how long the calls of an id were in progress, `ownTime` how long they were
innermost or inside a boundary they had called.

Three specifications share the actions: `SpecCalls` (calls that return, allocation
boundaries, mode switches), `SpecSql` (those and SQL) and `Spec` (all of it).

Not modelled: `beginOverrideThreadStatus` and `endOverrideThreadStatus` (nothing calls
them), edges (`edgeTrackingEnabled` is false and no command sets it), the wall-clock window of the
call-rate monitor (it may switch sampling on at any call), bytecode of a class
retransformed on its own (`instrumented` is one flag for the program).

### CounterFlush

`count[a]` and `time[a]` are the sequences of arrays thread `a` has had, the current one
last, because a flusher may still hold an older one. The steps of a hook are the growth of
either array, the read and the write of `invocationCount[m]++`, and those of the duration.
A flusher picks up the references, scans to the least length, and for each id with a
nonzero count adds twice and zeroes twice; a reset goes on to clear the shared statistics.
`selfDuration` and `totalDuration` take the same way and are one array. `called` and `spent`
are history, `raced` the ids for which two threads met on an element or an array.

### MethodRegistry

Each step of `registerMethod` past the lock is an action, in the order of the code: take the
id, replace `methodMetas`, replace `methodStats`, fill both, publish. An element is the key it was
filled for, so a mixed-up row shows. Readers pick up the two arrays and the limit in three
steps.

`Promise` is `RegistryPromise` with the next id counted back while an id is in work, the ids
handed out, and what a hook with such an id finds in either array. `Publish` is the promised
step, all others stutter.

### RecordingControl

A class being loaded reads the flag (`ReadFlag`), is remembered by name (`Remember`) and is
defined (`Define`); only then does `getAllLoadedClasses` list it. A start or a stop takes the
lock, lists, and visits the listed classes one by one. The visitor may throw before the transformer
adds the name (`VisitorFails`, `StartTransformFails`) and the writer after it (`WriterFails`,
`StartWriterFails`: the hooked method is too large), and in both cases the class gets its original bytecode; and the JVM
may refuse a redefinition, which then leaves the class as it was. `straddled` and `failed` are history: the classes
an answered command may have missed, and why.

### CpuSession

The composition of the TUI with the agents of several JVMs. The event loop's variables are
those of `App` (`recording` is `cpu.recording`, `startPending` is `cpu_recording_start_pending`, and so
on; `started` says that the view is no longer the start center, to which no key leads back).
`start` and `stop` are the worker threads of the two commands, each with the step it is at;
the pending flags admit one of each. A worker of a start discovers or attaches, waits for the agent, sends
the command and waits for the reply (`Discover` to `StartBroken`); a refused or broken
connection, or one that takes longer than the 250 ms allowed to connect, even to a live agent, is tried again. `Enqueue` puts the command where the agent's handler thread
waits for `recordingLock`; `TakeLock` picks any of them and sets the flag, `Finish` releases the lock and
replies. `StartTimesOut` and `StopTimesOut` may happen at any time before that: the worker
reports success and the command stays in the agent. `Dies` ends a JVM in the middle of
anything.

Initially any JVM may hold an agent on any port, recording or not: a TUI that quits leaves
its agent behind. `poll_queries`, `auto_update` and keys come in any order, which includes the
loop's order. `RecordingControl` has what happens between `TakeLock` and `Finish`. On systems other than
Windows the TUI may not be able to list the ports of a JVM: then the branch of `Discover` that
finds its agent elsewhere is not taken and the start attaches once more, which is the
last branch of the action.

`overtaken` and `outcome` are history. The fetches of CPU data, telemetry and memory change what
is drawn and nothing here: they are in `Tui`. The default JVM is any of the list, here;
`Tui` has the search for the demo server. Not modelled: ports taken by other programs.

### NativeAgent and AllocationData

Every thread has a list of steps to take, `todo`, one access to shared memory each; a call puts
the rest of its steps in front. A plan gives each thread its calls: allocations for the application's
threads (`IsAllocation`), whole commands (`Commands`: starts and stops with the Java table or without,
snapshots, memory data) for those of the connections. What interleaves is therefore any two steps of
any two of them, as the lock allows.

`allocations` is `NATIVE_ALLOCATIONS`, keyed by paths; `Allocate` is `on_vm_object_alloc` up to the lock
of the table and `Merge` what it does under it, so that a snapshot or a start may come between.
Its two flags are read in one step, which is sound as both are only hints: what they decide is whether the event is dropped.
`Copy` makes the rows of a reply, in any order the sort allows. `Enter` to `Divide` are the native
probes under a calibration, with the two flags and the statistics one access at a time.
`session` and `stale` are history: how many events in the table were checked before the last
start.

`AllocationData` adds `allocationStats`. A start empties it once, and where probes are timed in Java (mode `id`, `ProbeModes`)
once more for the calibration and after each probe (`CalibrateJava`). `New` is `objectAllocatedAt` with `Site`, the path of an allocation:
the boundary method nearest the top of the shadow stack, or the allocating method, then the callers.
`Entry` and `Sample` are `computeIfAbsent` and the addition to `liveSamples`, for one
segment of the path after the other; an entry removed by a reset is still written to by a hook
that had found it (`removed` tells it from a later one). `Collect` is the garbage collector, which
clears all weak references to an object at once. `Sweep` is `clear()` and `Look` an iterator of a
`ConcurrentHashMap`, both of which visit the bins in groups, in any order. `AppendRow` makes
a reply from the keys seen; the code appends a path's children in order of size, here any
path may come next whose parent has its row, which gives more replies than the code. `Fallback` asks
the native agent when no row was made. `asked` and `met` are history.

Not modelled: sizes of live objects and the order of siblings in the Java table, the classes of the
native agent's own filters beyond the sets `AgentMethods` and `Unreadable`, sample hot spots (nothing
records one).

### HotSpotTables and Tui

`HotSpotTables` has the functions between a reply and a table: `CpuRows`, `Children`, `CpuItems`,
`AllocationRows` with their depth, `VisibleTree`, `HistogramRows`, and what is printed without a
terminal. A name is a sequence of letters so that filters can be substrings of it; numbers are
kept where something is sorted or compared.

`Tui` is `App` under `run_terminal`: `HandleKey` is `event.rs`, one action per group of keys;
`Poll` is `poll_queries`, one action per kind of answer; `AutoUpdate` is `auto_update`. A query is the set of
what it was asked with; a newer one replaces it, and the answer of a replaced one is never
read, as the dropped receiver in the code makes sure. `Drawn` is what `render.rs` draws of a table:
the rows from the offset on, as many as there is `room` for, and which is highlighted. `keep_visible` pages by
`DEFAULT_PAGE_ROWS` (20, `app.rs` 13) and the renderer draws the height of its area less three (`render.rs` 723, 1110,
1641), so that the two differ on most terminals: `PageRows` is the first, `Rooms` the heights a terminal may have, of which the
next drawing may take any. `Copied` is what `c` copies. `Moved`, `Clamped` and
`KeepVisible` are the three ways of keeping an index in its list, each used where the code uses it.
The histogram of a memory answer is that of the JVM asked about; its allocation sites are those of whatever
agent answers on the port known when the query began (`app.rs` 718, 728), so `MemoryAnswer` takes any
agent's (`AllocationHotspots`). Edges between methods are in the model as the TUI handles them, though no agent of this
commit sends any.
A start or a stop of recording takes effect at once (`Recorded`): its life is `CpuSession`'s.

Not modelled: thread dumps and garbage collections asked for by key, which are logged as they
come; the views no category lists, which no key reaches.

## 3. Runs

| Run | Checks | Bounds |
|---|---|---|
| `hooks_calls` | `Balanced`, `DrainedWhenIdle`, `NeverOverReported` | 2 methods, 1 allocation boundary, depth 3, every second call timed, 3 clock ticks from 0 |
| `hooks_exact` | `ExactWhenAllSampled` | 2 methods, 1 boundary, 1 statement, depth 3, every call timed, clock from 1 to 4 |
| `hooks_restart` | `TypeOK`, `FramesNested`, `NoTimeCountedTwice` | 1 method, 1 boundary, depth 2, 3 frames, 2 calls of each counted, clock from 1 to 2, everything that disturbs |
| `hooks_sql` | `SqlTimed`, violated | 1 method, 1 statement, every second call timed |
| `flush` | `TypeOK`, `ExactUnlessRaced` | 1 thread, 2 flushers, 2 ids, arrays of 1 that grow once, 2 calls |
| `flush_arrive` | `CountsArrive` under fairness | 2 threads, 1 flusher, 2 ids, 1 call each |
| `registry` | `TypeOK`, `OneIdPerKey`, `UsableAtOnce`, `SnapshotsSound`; `KeepsPromise`, the refinement | 2 workers, 1 reader, 3 keys, arrays of 1 that grow twice |
| `control` | `TypeOK`, `HookedKnown`, `StartCovers`, `StopCovers` | 2 handlers, 3 classes of distinct names |
| `session` | `TypeOK`, `StartExcludesStop`, `Agreement`; `PendingClears` and `StopTakesEffect` under fairness | 2 JVMs, 2 ports, 2 attempts, 2 commands waiting per agent |
| `session_jvm` | `RightJvm`, violated | as `session` |
| `allocations` | `TypeOK`, `TreeCovers`, `ReplyIsTree`, `StaleBounded`, `JdbcQuiet`, `LiveCovers`, `RepliesLive` | five plans for 2 application threads and 2 connections; stacks cut at 3, 2 probes called twice, 4 objects, 4 sites |
| `tui` | `TypeOK`, `OneCategoryMarked`, `DataOfSelected`, `ActsOnHighlighted`, `TablesAgree`, `JvmFixed`, `DeltasAgainstShown`, `CursorKept`; `MemoryLoads` under fairness | three scenarios; pages of 2 rows, room for 1 or 3, 4 CPU rows kept, 2 callees drawn, filters of 1 letter, 2 samples kept |

Why the bounds are enough to mean something. `hooks_calls`: depth 3 with recursion, a
sampled call between unsampled ones and an allocation frame anywhere is what recordExit's
guess can confuse; the start at clock 0 covers the frame whose start reads 0. In
`hooks_restart` depth 2 and two counted calls per id suffice to leave a stale frame under a
new one, a boundary's among them, and to have more frames than calls, which is the mechanism; the counters are zeroed and the calls made again
after each restart. `hooks_exact`: depth 3 has a method called under a boundary under a method, which is what makes
self time more than the time a call is innermost, and recursion with a statement in it. `flush`: one replaced array, two flushers of which one resets, and a
second call after the flush. `registry`: two growths, one of them while a reader holds the first arrays.
`control`: one class listed, one loading, one failing.
`session`: two JVMs are the least for a wrong one, two ports the least for a port that is
not the preferred one; two waiting commands are the least that can be served out of
order, and a third shows nothing the second does not. The code makes three attempts; one
fails only when the connection is refused or breaks, so two show both the retry and its end.
`allocations`: the plans are a restart without a stop under native events, a stop under them,
calibrations with a stop from another connection, Java hooks of two threads under a start and a
reply, and a reply under two starts with a stop between them. Two of each actor are the least that can meet; stacks
of four methods are cut, have a repeated method, an unreadable one and one of the agent;
two sites are one above the other and two share a boundary. Two calls of a probe leave an
average to divide. A plan ends, so this run does not ask for deadlocks. `tui`: a page of two of
up to four rows can hide a row on either side, on a terminal with room for less than a page and on one with room for more; replies are longer or shorter than what is on
the screen, have equal times, statements between methods, a callee without a row, a method with one
callee more than is drawn; two JVMs come and go, and one tool of the JDK is listed with them. The
scenarios (going about, CPU and database tables, memory) limit the keys and answers of one
behaviour, since the tables do not depend on one another but through view, focus and filter.
`MaxClock`, `MaxInvocations`, `MaxDepth`, `MaxFrames` and `MaxCalls` bound the counters in
guards, so runs end where every counter is at its bound; `CHECK_DEADLOCK` is left on
wherever the model always has a step. Every property of a passing run has a mutant of a
mapped definition that violates it, named in `PROJECT.json`.

### What the two violations show

`hooks_sql`. `recordJdbcEnter` (`Profiler.java` 513-520) pushes a frame without counting it in
`sampledDepth`. Under an unsampled method, which is what 99 of 100 are, `recordExit` (635-638)
takes the exit of the statement for that of the method. The statement is listed with its
invocations and no time, and its frame stays on the shadow stack. With every call sampled
the report is exact (`hooks_exact`).

`session_jvm`. `discover_openprofiler_agent_port` (`app.rs` 1934-1965) asks the preferred port
first and takes whoever answers `GET_CPU_DATA`, without the check of the owner that
`wait_for_openprofiler_agent` makes. If another JVM still holds an agent there, that one is told
to record, and the session says that the selected JVM is recorded (835).

### Known limits of what is promised

Where the code promises less than one might expect, the properties say so.

- Invocations are counted at entry, durations added at exit, and `flushLocalCounters` skips an
  id whose count is zero (`Profiler.java` 848). If a poll falls inside a call, the duration of
  that call waits until the same thread calls the same method again. `CountsArrive` speaks of counts only:
that they leave the buffers and that the shared statistics hold all that were made, for ids on which no two
threads met.
- What runs under an allocation boundary is in the self time of the method that called the boundary and, if it is a
  method with hooks, in its own as well. `ExactWhenAllSampled` says that this is the only difference from the
  true self time; `NoTimeCountedTwice` that self times together exceed the time that passed by no more than what
  was dropped this way, by boundaries and by the frames they cut off.
- Allocation sites are asked of the agent on the session's port, not of the selected process: before discovery has set the
  port, or where another JVM's agent is on it (`RightJvm`), those shown are another JVM's. `DataOfSelected` claims histogram and
  telemetry only.
- `keep_visible` keeps the cursor within a page of twenty rows. On a terminal with fewer rows the cursor may move beneath
  the last one drawn, and stays there until it moves up or the terminal grows; `CursorKept` says that it is always within a page of the first row drawn, and
  drawn where there is room for a page.
- The native table gives replies whose parents are no smaller than their children together (`ReplyIsTree`); the Java table is read row by row, and a
  reply of it may show a parent smaller than its child.
- The client takes 1,200 ms without a reply for success (`protocol.rs` 249), so the first fetch may
  come while classes are still being instrumented, although `docs/architecture.md` 30 has the TUI
  wait. That the session still ends up agreeing with the agent is what `Agreement` and
  `StopTakesEffect` check.
- A class whose redefinition was refused, or whose bytecode could not be written, keeps its name in
  `transformedClasses` and is skipped by every start until the next stop; `StartCovers` excludes it (`failed`).
- A recording the user has stopped starts again when a list of JVMs comes (`app.rs` 903-908), and a stop may be served
  before an older start that waits with it: `CpuSession` has both, `Agreement` excludes the second (`overtaken`), and no property speaks of the
  first.
- A start that empties the table of allocation sites between two segments of a hook's path may
  leave a site without its parent: no reply shows it until the parent is recorded again. `LiveCovers`
  excludes the runs in which a start met a hook (`met`) and the time a start is emptying the table
  (`Sweeping`), since the bins of a map are emptied in the order of hashes, a parent perhaps before its children.
- A `GET_CPU_DATA` during a start may list the calibration's own calls as JDBC hot spots;
  `JdbcQuiet` speaks of the times no command is under way.
- Twelve callees of an expanded method would be drawn, and all counted when the index moves. `ActsOnHighlighted` and
  `CursorKept` are stated where no more are there; no agent of this commit sends callees
  (`edgeTrackingEnabled`, `Profiler.java` 355).
- A filter or a collapse may leave the index behind the end of its list until the next
  refresh or movement; `CursorKept` lists what may do that.

### Fairness

In `CounterFlush`, a hook that has begun ends (the JVM schedules threads);
a flusher goes on, because the TUI asks for data every `auto_update_secs` as long as
recording is on (`app.rs` 1174-1208) and the server answers each command. Nothing obliges a
method to be called or to return.

In `CpuSession`, each worker goes on and its result is applied: a worker is a thread whose every
wait has a time-out (250 ms to connect, 1.2 s to answer, 8 s for an agent to appear), and the event
loop polls at least every 200 ms (`tui/src/lib.rs` 167-201). Each agent takes its lock and finishes: the
handlers are threads and a retransformation ends. Keys, refreshes and the end of JVMs are not fair.

In `Tui`, the loop goes round for ever, so `auto_update` runs again and again, due or not; a memory
query that is not replaced is answered, for the worker reads the output of one `jcmd` and connects
with a time-out. A user may press r for ever, and then need not see an answer. No other key and
no other answer is fair.

## 4. Proofs

Assumptions are the named ASSUMEs of the modules: ids of the three kinds are distinct,
bounds and the heights of a terminal are natural numbers, the initial array length is positive, `Null` is no key, the
application threads are finitely many and no agent threads (`CounterFlush`, `NativeAgent`),
the native probes are numbered from 0 on, no more frames of a stack are kept than a table indents, plans are made of whole commands and allocations, a site is a path of at least one method and comes with all above it
(`AllocationData`), replies are as agents make them (`CpuReply`, `MemoryReply` of `Tui`: sequences, sizes and times that are
natural numbers, an allocation site numbered after the one above it, as `Rows` of `NativeAgent` does),
every class has a name, `None` is no JVM, ports are numbers and the preferred one is among them,
and a start makes at least one attempt.

`MethodHooksProofs`, for `Spec` (exceptions, restarts and racing resets included):

- `TypesHold`: `Spec => []TypeOK`. `TypeOK` needs `FramesNested`: that a total stays a natural
  number needs the frame's start at most the clock.
- `NestingHolds`: `Spec => []FramesNested`. The inductive invariant is their conjunction
  `IInv`. The argument: a frame is charged only by the frame right above it, at the moment that one
  closes, with the time since that one started; that one started no earlier than the end
  of what had been charged before, so the charges fit between the frame's start and now.
  There is one lemma per kind of step: those that push, those that close a timed frame,
  those that cut the stack, and those that leave it alone.

Then, for `SpecCalls` (calls that return, allocation boundaries, mode switches):

- `BalancedHolds`, `DrainedHolds`, `NeverOverReportedHolds`. An exit hook knows only its method's id, so
  it may close the frame of another call of the same method, and no frame can be tied to one call for good. The invariant
  says that there is an assignment of frames to calls in progress, in order and by id, with as many
  calls left over as `unsampledDepth` counts. An exit that closes the frame of an outer call leaves that
  one without a frame in place of the one that has returned, and every other frame where it was.
  For `NeverOverReported` the time that the frames of a method would report if they closed now is
  a set of pairs of a frame and a moment since it started (`Pending`), whose cardinality, with what is already
  reported, is at most the true total: a `Tick` adds one moment to each frame, and an injection of
  frames into calls says that the true total grows by at least as much.
- `ExactWhenAllSampledHolds`, for `SpecSql` (calls and statements nested in one another) under
  `AllSampled`: a sampling interval of 1 and a clock that does not start at 0, for a reading of 0
  is how the code marks a frame it did not time. Boundaries are among the calls: what is exact is the total time of methods and statements, and
  as self time what a call ran itself or spent inside a boundary it had called. Frames and calls in progress are one to one (`Mirrors`), and
  an exit closes the frame of the call that returns. What is reported plus what is owed is the
  truth (`ReportsExact`): `Pending` for totals, and for self times `Own`, the moments of a frame that are no
  moments of the frame above it, unless that one is a boundary's. A call that closes hands to the one below as much as it takes from it,
  since the end of what is charged to that one moves by the duration reported; a boundary's frame hands on nothing, and takes nothing.
- `NoTimeCountedTwiceHolds`, for `Spec` and finitely many methods. The invariant `OnceInv`: the self times of all methods and the clock's
  first reading are together at most the start of any timed frame, or the clock, and what the frames have been charged
  (`Charged`) and what was dropped. A frame that closes hands its callees' time and its own as one duration to the
  frame below, and reports no more than its own; if the frame below has no start, a boundary's, the duration goes to
  `dropped`, and so does what frames had been charged that a boundary's exit cuts off. `ChargedIsPast` adds, from
  `FramesNested`, that what frames have been charged is past.

`MethodRegistryProofs`, for any numbers of workers, readers and methods:

- `RegistryTypes`, `RegistryOneIdPerKey`, `RegistryUsableAtOnce`. The inductive invariant adds to
  `TypeOK`: published ids are distinct and below `nextMethodId`; the worker in the critical
  section holds an id no key has, which is the last one given out; both current arrays hold
  the entry of each published key; the array lengths agree but between the two growth
  steps; what was handed out is what is published.
- `RegistrySnapshotsSound`. A reader holds arrays that may have been replaced since. The invariant is
  about every version of both arrays there has been: an element is empty or the key that owns its id, as
  published or in the lock holder's work (`VersionsFilled`); and of each reader, that what was published when it began
  is in the versions it holds, and in its rows once it has passed it (`ReadSoFar`). Versions only gain elements (`Kept`).
- `RegistryKeepsPromise`: `Spec => KeepsPromise`, that is, every behaviour of the registry with all
  its threads is one of `RegistryPromise`. It rests on the invariant above and on one more fact, `Told`,
  that what is published has been handed out; a step that leaves ids, handed-out pairs and the
  promised next id alone stutters (what hooks find is what was handed out, read
  backwards), and the only step that does not is `Publish`.

`CounterFlushProofs`, for any number of application and agent threads, ids and calls, and any
initial length of the arrays:

- `CounterTypes`: no index is out of its array, whichever versions a hook or a flusher holds. Only the
  two growth steps of one hook make the lengths of a thread's arrays differ, versions only
  grow, and `Doubled` reaches what is required (`DoubledSuffices`).
- `CountersExact`: `Spec => []ExactUnlessRaced`. The invariant keeps an account of each id that no race
  has touched: the shared statistics plus the rest, which is what the current arrays hold and no flusher
  has moved yet, is what was called (`Accounted`). During a reset there is no such account; there each buffer
  that the reset is done with holds what was called since (`Restarted`), and the statistics it has
  cleared are zero, so that the last one cleared takes the account up again. What a race would
  break is stated beside it: a flusher holds the current arrays (`Current`), a hook writes one more
  than is there (`ReadStands`), a duration zeroed stays zero until the count is (`TimeZeroed`),
  and an id the arrays are too short for has no calls (`Untouched`).

`RecordingControlProofs`, for any numbers of connections and classes:

- `ControlTypes`, `ControlHookedKnown`, `ControlStartCovers`, `ControlStopCovers`. The last three say
  nothing of two classes of one name, as the properties themselves (`NoTwins`). The inductive
  invariant follows the scan of whoever holds the lock: its listed classes are loaded and its place
  fits the flag (`Work`); every loaded class that is not yet as the command wants it is still to be
  visited, is the one in work, was being loaded when the classes were listed, or was refused
  (`StartScan`, `StopScan`). `HookedKnown` needs the converse too: names and bytecode change one
  after the other, so a known name is that of a hooked class, a refused one or the one in work
  (`KnownHooked`), and a class that is being loaded is known once the transformer has added its name
  (`NamedKnown`) and not before (`PlainUnknown`).

`CpuSessionProofs`, for any numbers of JVMs, ports and attempts:

- `SessionTypes`, `SessionStartExcludesStop`. That keys alone exclude a start during a stop is plain;
  that they stay excluded is not, since a pending flag stands for a worker and an agent may
  answer long after the worker has given up. The invariant follows the commands through the
  agents' queues: one that is awaited is awaited by the worker that sent it, which is still
  waiting (`SentByWorker`), and no other command of its kind is awaited anywhere (`OneAwaited`).
  A time-out, a broken connection and the end of a JVM give commands up, which only takes from what is awaited
  (`FewerAwaited`); `TakeLock` moves commands up, each to a place of its own.
- `SessionAgreement`. Whether or not it has been served, the last command in an agent's queue is what the agent
  will do, as long as no handler overtakes another (`WillRecord`). The invariant is that this is what the worker that
  has sent its command asked for, and what the TUI shows once nothing is pending (`LastCommandLeft`); a stop goes to
  the session's own agent (`StopsOwnAgent`).

`TuiProofs`, for any JVMs, replies, tables, scenarios and numbers of samples kept:

- `OneCategoryMarkedHolds`, `JvmFixedHolds`, `DeltasAgainstShownHold`, `DataOfSelectedHolds`. The
  invariant of the last says of every query under way for which JVM and in which session it was asked, of the histogram whose it is, and
  of the telemetry samples that from the first of the session on all are of the selected JVM and at most
  one compares readings of two (`SamplesOK`); the window that drops old samples keeps that.
- `TuiTypesHold`. That the rows kept are no more than the limit, and that no index or offset falls below 0, takes
  the invariant `TablesOK`: both tables are made as replies make them and cursors are natural numbers.
  Every way the code moves a cursor keeps that, provided picking, sorting and flattening rows yields sequences.
- `ActsOnHighlightedHolds`. The row drawn as highlighted, found by page and offset, is the row of the list the keys
  move in; for CPU tables where no more callees are there than are drawn, for then both
  flattened lists are the same (`ItemsShown`).
- `CursorKeptHolds`: an action property, by cases of the step, from `TablesOK`, for any heights: a page is drawn whole where there is
  room for it (`PageInSight`), and each case keeps the cursor in the page.
- `TablesAgreeHolds`. The terminal sorts all rows, keeps the largest, and then picks methods or statements and filters; what is
  printed picks first, sorts, and keeps the largest. Picking commutes with stable sorting: the rank of a picked
  row among the picked is its place among those ranks (`PartRanks`, from counting the rows ahead). What
  is cut off after sorting is a prefix, and what picking leaves of a prefix is a prefix of what it leaves of
  the whole (`KeptFirst`).

`AllocationDataProofs`, for `DataSpec` and any numbers of threads, connections, calls, probes, objects and
sites. Every actor has a list of steps, so the invariants say what stands in the lists, for whole lists and
all that a call may put in front (`Fits`, `TakenDisciplined`):

- `JdbcQuietHolds`. That only the holder of the lock touches probes and statistics is a fact about lists: each step
  that may only be taken under the lock stands before an unlock with no lock between, and only the holder's list
  begins inside one (`Disciplined`, `Outside`, together `ListsInv`). Commands are made of parts that can be put
  behind one another (`PartsBehind`, `InnerFlatten`). `ProbesInv` then follows a calibration: the flag is on while
  entries are to come, each entry is followed by its exit, and what is on the stack or in the
  statistics the rest of the list takes off and zeroes.
- `StaleBoundedHolds`. Old events in the table and threads that still hold one (`Late`) are together at most the
  threads there are, as soon as the holder's list has no clear left (`StaleInv`).
- `NativeTypesHold`, `TreeCoversHolds`. The domain of the table is closed under prefixes and each of its two
  columns covers the extensions of a path by one method (`TableInv`). An event adds its size to a path and to at
  most one of its extensions (`OneGrows`, `GrownCovers`).
- `LiveCoversHolds`. The invariant follows the hooks: what is left of one is a list in which each path is the
  one before it with a method more (`Chained`), the parent of its first path is in the table and holds its object,
  and an entry it has found is still the table's (`Stands`). While a start is emptying the table no hook is in progress,
  for the two would have met, and what is left is where the start has still to go (`PartSwept`), until nothing is.
- `RepliesLiveHolds`. An object that was recorded when a reply was asked for and is not collected is, at each of its sites, in the
  reply, or to be looked at next, or waits for the row of the site above, which holds it too (`Answers`);
  the keys already collected and the bins still to visit together have all its sites (`Held`). Two facts about
  lists carry this: an ask is always followed by a look at everything, and rows are only made by the list that has
  looked (`Asking`, `Whole`).
- `ReplyIsTreeHolds`. A snapshot sorts shorter paths first, and the table has every path's prefixes (`TableInv`), so a path's
  parent stands before it and the rows are numbered as a tree is (`Nodes`, `RowsOf`), in whatever order the sort leaves
  equal paths. The depth is a recursive function of the number of rounds and the id; the length of the path satisfies its
  equations (`HeightUps`) and no two functions do (`OneUp`, `DepthOf`). The sizes of the rows below a row are those of the
  table's extensions of its path under other names (`TotalRenamed`, `RowsCover`), so `TableInv` bounds their sum; and
  a tree all of whose rows are expanded is drawn with each row once (`TreeShowsAll`).

On induction. The induction theorems of the library take an operator as a parameter, which the
provers used cannot instantiate. Where a fact is an induction (sums over a set of threads, lengths
that double, fillings of growing arrays, what a flattened list of lists is made of, a tree of rows from its leaves up) it is proved by its least counterexample: the set of the numbers for which it fails is
a set of natural numbers, and if it is not empty it has a least member (`LeastElement`, from
`WFMin`). `DataFacts` has what that gives for sums: `MapThenSumSet`, a recursive function on subsets, has
one value at each of them (`SumsExist`) and changes by what one summand changes by (`TotalChange`), is what its
parts sum to (`TotalAdd`, `TotalRemove`), and is no less than 0 if its summands are. It has the same for
`FlattenSeq` (`FlattenRows`), for rows picked (`AtPlaces`) and sorted (`RanksPermute`, `SortedRows`), and for the rows of a tree:
of the ids for which something fails one has no child for which it does (`LastOfBad`), which also shows
that the function `VisibleTree` is defined by exists (`TreeUnder`) and, when all rows are expanded, that
what is drawn below each is all that is below it, once (`DescentsAll`, `TreeShowsAll`). Nothing is assumed.

What is only model-checked:

- Liveness: `CountsArrive`, `PendingClears`, `StopTakesEffect`, `MemoryLoads`. Fairness and ENABLED are out
  of the provers' reach.

## 5. Plan

What is left, in this order:

1. `SqlHotSpots` over the hooks: prepared statements, known and unknown, nested in one another.
2. A run of `RecordingControl` with two classes of one name.
3. `ServerLife`: start, stop, accept, as part of the agents of `CpuSession`.

## 6. Not modelled, and why

Layout, colours, formatting, logging and the wording of messages (which rows a table draws is
modelled); the columns of `jps`, `jcmd` and `jstack` output (a line is one with or without a rank
and a name); terminal I/O and the clipboard itself; framing of messages and the generated
protocol types; thread dumps and garbage collections asked for by key; JVMTI's own calls,
clocks and CPU-cycle calibration; the class-name filters (a set of classes or methods
stands for what they accept); benchmarks, build and release scripts. They are text, I/O or data
with no state the properties could speak of.

The call tree is left out because nothing fills it: no key and no timer asks the agent for CPU
samples, and the native agent records none.

The server's accepting, starting and stopping (`TcpServer.java`) is left out: its commands are
actions of the other modules, and what its end does to them is `Dies` in `CpuSession`.

The stacks of the JDBC probes appear under a calibration only, because no probe is ever placed:
`visitMethodInsn` handles every `java/sql` and `javax/sql` owner
(`ProfilingMethodVisitor.java` 167) before it looks for a probe (190), and every probe has
such an owner.
