---------------------------- MODULE CounterFlush ----------------------------
(***************************************************************************)
(* LocalCounters and the shared MethodStats of Profiler.java.              *)
(*                                                                         *)
(* Application threads count calls and add durations in arrays of their    *)
(* own; whoever answers GET_CPU_DATA, and startRecording through reset(),  *)
(* moves them into shared atomics.  No lock orders the two: the owner's    *)
(* "array[m]++" is a read and a write, the flusher reads, adds and zeroes, *)
(* and an array may be replaced by a longer one in between.  One step here *)
(* is one access of a shared array element or atomic; interleaving them is *)
(* the memory model assumed (long elements are not torn on the JVMs the    *)
(* agent supports).                                                        *)
(*                                                                         *)
(* selfDuration and totalDuration go the same way and are one array, time. *)
(* Every call is timed here; MethodHooks.tla decides which calls are.      *)
(***************************************************************************)
EXTENDS Integers, Sequences, FiniteSetsExt

CONSTANTS
  Threads,   \* application threads: one LocalCounters each
  Flushers,  \* agent threads that answer a command
  MethodCount, \* ids are 0 .. MethodCount - 1
  Capacity,  \* initial length of the arrays (4096 in the code)
  MaxCalls   \* bound: calls of one thread

Ids == 0 .. MethodCount - 1

ASSUME FlushAssumption ==
  /\ MethodCount \in Nat \ {0} /\ Capacity \in Nat \ {0} /\ MaxCalls \in Nat
  /\ Threads \cap Flushers = {} /\ IsFiniteSet(Threads)

VARIABLES
  count, time,      \* per thread: the successive arrays, the current one last
  hook,             \* per thread: where it is in recordMethodEnter/recordExit
  flusher,          \* per agent thread: where it is in a flush or a reset
  sharedCount, sharedTime, \* the MethodStats, per id
  made,             \* bound: calls made, per thread
  called, spent,    \* history: what this recording should report, per thread and id
  raced             \* history: ids a flush of which met a hook or another flush

shared  == <<sharedCount, sharedTime>>
buffers == <<count, time>>
tallies == <<made, called, spent>>
vars    == <<buffers, hook, flusher, shared, tallies, raced>>

None == [id \in Ids |-> 0]
Newest(versions) == versions[Len(versions)]
IdleHook    == [at |-> "idle", id |-> 0, read |-> 0]
IdleFlusher == [at |-> "idle", reset |-> FALSE, todo |-> {}, thread |-> {},
                timeRef |-> 0, countRef |-> 0, id |-> 0]

Init ==
  /\ count = [a \in Threads |-> <<[i \in 0 .. Capacity - 1 |-> 0]>>]
  /\ time = count
  /\ hook = [a \in Threads |-> IdleHook]
  /\ flusher = [f \in Flushers |-> IdleFlusher]
  /\ sharedCount = None /\ sharedTime = None
  /\ made = [a \in Threads |-> 0]
  /\ called = [a \in Threads |-> None] /\ spent = [a \in Threads |-> None]
  /\ raced = {}

----------------------------------------------------------------------------
(* Application threads.                                                    *)

HookStep(a, from, to) ==
  /\ hook[a].at = from
  /\ hook' = [hook EXCEPT ![a].at = to]
  /\ UNCHANGED <<flusher, shared>>

\* Arrays double until they hold the id (ensureCapacity, copyOf).
Doubled(length, required) ==
  LET doubled[n \in Nat \ {0}] == IF n >= required THEN n ELSE doubled[2 * n]
  IN  doubled[length]

\* Mutant: the old elements are not copied.
GrownEmpty(array, id) == [i \in 0 .. Doubled(Cardinality(DOMAIN array), id + 1) - 1 |-> 0]

Grown(array, id) ==
  LET length == Cardinality(DOMAIN array)
  IN  [i \in 0 .. Doubled(length, id + 1) - 1 |-> IF i < length THEN array[i] ELSE 0]

Enter(a, m) ==
  /\ hook[a].at = "idle"
  /\ made[a] < MaxCalls
  /\ made' = [made EXCEPT ![a] = @ + 1]
  /\ hook' = [hook EXCEPT ![a] =
       [at |-> IF m \in DOMAIN Newest(count[a]) THEN "entering" ELSE "grow_time",
        id |-> m, read |-> 0]]
  /\ UNCHANGED <<flusher, shared, buffers, called, spent>>

GrowTime(a) ==
  /\ HookStep(a, "grow_time", "grow_count")
  /\ time' = [time EXCEPT ![a] = Append(@, Grown(Newest(@), hook[a].id))]
  /\ UNCHANGED <<count, tallies>>

GrowCount(a) ==
  /\ HookStep(a, "grow_count", "entering")
  /\ count' = [count EXCEPT ![a] = Append(@, Grown(Newest(@), hook[a].id))]
  /\ UNCHANGED <<time, tallies>>

ReadThen(a, from, to, array) ==
  /\ hook[a].at = from
  /\ hook' = [hook EXCEPT ![a].at = to, ![a].read = array[hook[a].id]]
  /\ UNCHANGED <<flusher, shared, buffers, tallies>>

ReadCount(a) == ReadThen(a, "entering", "counting", Newest(count[a]))

WriteCount(a) ==
  /\ HookStep(a, "counting", "running")
  /\ count' = [count EXCEPT ![a][Len(count[a])][hook[a].id] = hook[a].read + 1]
  /\ called' = [called EXCEPT ![a][hook[a].id] = @ + 1]
  /\ UNCHANGED <<time, made, spent>>

\* The method returns, some time later.
ReadTime(a) == ReadThen(a, "running", "timing", Newest(time[a]))

WriteTime(a) ==
  /\ hook[a].at = "timing"
  /\ hook' = [hook EXCEPT ![a] = IdleHook]
  /\ time' = [time EXCEPT ![a][Len(time[a])][hook[a].id] = hook[a].read + 1]
  /\ spent' = [spent EXCEPT ![a][hook[a].id] = @ + 1]
  /\ UNCHANGED <<count, flusher, shared, made, called>>

----------------------------------------------------------------------------
(* Agent threads: flushThreadLocalBuffers and reset.                       *)

MoveTo(f, to) == flusher' = [flusher EXCEPT ![f].at = to]

\* Mutant: the scan trusts the length of the counts.
LengthOfCounts(f) == Cardinality(DOMAIN count[flusher[f].thread][flusher[f].countRef])

\* Elements to scan: the arrays picked up may differ in length.
ScanLength(f) ==
  LET here == flusher[f]
  IN  Min({Cardinality(DOMAIN time[here.thread][here.timeRef]),
           Cardinality(DOMAIN count[here.thread][here.countRef]), MethodCount})

\* The next id of this buffer, or the next buffer.
NextId(f) ==
  LET here == flusher[f]
  IN  IF here.id + 1 < ScanLength(f)
      THEN flusher' = [flusher EXCEPT ![f].at = "check", ![f].id = @ + 1]
      ELSE flusher' = [flusher EXCEPT ![f].at = "next"]

\* startRecording resets under its lock: one reset at a time.
BeginFlush(f, reset) ==
  /\ flusher[f].at = "idle"
  /\ reset => \A g \in Flushers : ~flusher[g].reset
  /\ flusher' = [flusher EXCEPT ![f] =
       [IdleFlusher EXCEPT !.at = "next", !.reset = reset, !.todo = Threads]]
  /\ UNCHANGED <<buffers, hook, shared, tallies>>

\* The flusher picks up the arrays of one thread, one reference at a time.
TakeTimeRef(f) ==
  /\ flusher[f].at = "next"
  /\ \E a \in flusher[f].todo :
       flusher' = [flusher EXCEPT ![f].at = "take_count", ![f].thread = a,
                                  ![f].todo = @ \ {a}, ![f].timeRef = Len(time[a])]
  /\ UNCHANGED <<buffers, hook, shared, tallies>>

TakeCountRef(f) ==
  /\ flusher[f].at = "take_count"
  /\ flusher' = [flusher EXCEPT ![f].at = "check", ![f].id = 0,
                                ![f].countRef = Len(count[flusher[f].thread])]
  /\ UNCHANGED <<buffers, hook, shared, tallies>>

\* A reset starts the tallies again from what it leaves in the buffer.
Retally(f, countLeft, timeLeft) ==
  LET a == flusher[f].thread
      m == flusher[f].id
  IN  IF flusher[f].reset
      THEN /\ called' = [called EXCEPT ![a][m] = countLeft]
           /\ spent' = [spent EXCEPT ![a][m] = timeLeft]
           /\ UNCHANGED made
      ELSE UNCHANGED tallies

CountIsZero(f) ==
  LET here == flusher[f]
  IN  count[here.thread][here.countRef][here.id] = 0

\* Nothing was called: durations, if any, stay where they are.
Skip(f) ==
  /\ flusher[f].at = "check"
  /\ CountIsZero(f)
  /\ NextId(f)
  /\ Retally(f, 0, Newest(time[flusher[f].thread])[flusher[f].id])
  /\ UNCHANGED <<buffers, hook, shared>>

DoNotSkip(f) ==
  /\ flusher[f].at = "check"
  /\ ~CountIsZero(f)
  /\ MoveTo(f, "add_time")
  /\ UNCHANGED <<buffers, hook, shared, tallies>>

AddTime(f) ==
  LET here == flusher[f]
  IN  /\ here.at = "add_time"
      /\ sharedTime' = [sharedTime EXCEPT ![here.id] = @ + time[here.thread][here.timeRef][here.id]]
      /\ MoveTo(f, "add_count")
      /\ UNCHANGED <<buffers, hook, sharedCount, tallies>>

\* Mutant: the count replaces what is shared, and no longer adds to it.
SetCount(f) ==
  LET here == flusher[f]
  IN  /\ here.at = "add_count"
      /\ sharedCount' = [sharedCount EXCEPT ![here.id] =
           count[here.thread][here.countRef][here.id]]
      /\ MoveTo(f, "zero_time")
      /\ UNCHANGED <<buffers, hook, sharedTime, tallies>>

AddCount(f) ==
  LET here == flusher[f]
  IN  /\ here.at = "add_count"
      /\ sharedCount' = [sharedCount EXCEPT ![here.id] =
           @ + count[here.thread][here.countRef][here.id]]
      /\ MoveTo(f, "zero_time")
      /\ UNCHANGED <<buffers, hook, sharedTime, tallies>>

ZeroTime(f) ==
  LET here == flusher[f]
  IN  /\ here.at = "zero_time"
      /\ time' = [time EXCEPT ![here.thread][here.timeRef][here.id] = 0]
      /\ MoveTo(f, "zero_count")
      /\ UNCHANGED <<count, hook, shared, tallies>>

ZeroCount(f) ==
  LET here == flusher[f]
  IN  /\ here.at = "zero_count"
      /\ count' = [count EXCEPT ![here.thread][here.countRef][here.id] = 0]
      /\ NextId(f)
      /\ Retally(f, 0, 0)
      /\ UNCHANGED <<time, hook, shared>>

\* A flush ends here; a reset goes on to clear the shared statistics.
Finish(f) ==
  /\ flusher[f].at = "next"
  /\ flusher[f].todo = {}
  /\ flusher' = [flusher EXCEPT ![f] =
       IF @.reset THEN [IdleFlusher EXCEPT !.at = "clear", !.reset = TRUE] ELSE IdleFlusher]
  /\ UNCHANGED <<buffers, hook, shared, tallies>>

Clear(f) ==
  LET m == flusher[f].id
  IN  /\ flusher[f].at = "clear"
      /\ sharedCount' = [sharedCount EXCEPT ![m] = 0]
      /\ sharedTime' = [sharedTime EXCEPT ![m] = 0]
      /\ flusher' = [flusher EXCEPT ![f] =
           IF m + 1 < MethodCount THEN [@ EXCEPT !.id = m + 1] ELSE IdleFlusher]
      /\ UNCHANGED <<buffers, hook, tallies>>

----------------------------------------------------------------------------
(* Which steps meet.                                                       *)

MovingSlot(f, a, m) ==
  /\ flusher[f].at \in {"add_time", "add_count", "zero_time", "zero_count"}
  /\ flusher[f].thread = a /\ flusher[f].id = m

HoldsArrays(f, a) ==
  flusher[f].thread = a /\ flusher[f].at \notin {"idle", "next", "clear"}

Meet(m) ==
  \/ \E a \in Threads, f \in Flushers :
       \/ hook[a].at \in {"counting", "timing"} /\ hook[a].id = m /\ MovingSlot(f, a, m)
       \/ hook[a].at \in {"grow_time", "grow_count"} /\ HoldsArrays(f, a)
  \/ \E f, g \in Flushers :
       /\ f # g
       /\ \E a \in Threads : MovingSlot(f, a, m) /\ (MovingSlot(g, a, m) \/ flusher[g].reset)

\* The steps of a hook that has begun.
HookOn(a) == GrowTime(a) \/ GrowCount(a) \/ ReadCount(a) \/ WriteCount(a) \/ WriteTime(a)

HookNext(a) == HookOn(a) \/ (\E m \in Ids : Enter(a, m)) \/ ReadTime(a)

FlushNext(f) ==
  \/ \E reset \in BOOLEAN : BeginFlush(f, reset)
  \/ TakeTimeRef(f) \/ TakeCountRef(f)
  \/ Skip(f) \/ DoNotSkip(f)
  \/ AddTime(f) \/ AddCount(f) \/ ZeroTime(f) \/ ZeroCount(f)
  \/ Finish(f) \/ Clear(f)

Watch == raced' = raced \cup {m \in Ids : Meet(m)'}

Next ==
  \/ \E a \in Threads : HookNext(a) /\ Watch
  \/ \E f \in Flushers : FlushNext(f) /\ Watch

\* A hook that has begun ends; the TUI keeps asking for CPU data (auto_update,
\* app.rs 1174-1208), so flushes never stop.  A method need not be called
\* again, nor return.
Fairness ==
  /\ \A a \in Threads : WF_vars(HookOn(a) /\ Watch)
  /\ \A f \in Flushers : WF_vars(FlushNext(f) /\ Watch)

Spec     == Init /\ [][Next]_vars
FairSpec == Spec /\ Fairness

----------------------------------------------------------------------------
HookPlaces == {"idle", "grow_time", "grow_count", "entering", "counting", "running", "timing"}
FlusherPlaces == {"idle", "next", "take_count", "check", "add_time", "add_count",
                  "zero_time", "zero_count", "clear"}

Arrays(versions) ==
  /\ Len(versions) >= 1
  /\ \A v \in DOMAIN versions :
       versions[v] \in [0 .. Cardinality(DOMAIN versions[v]) - 1 -> Nat]
  /\ \A v, w \in DOMAIN versions : v <= w => DOMAIN versions[v] \subseteq DOMAIN versions[w]

(* The values the variables take.  A longer array replaces a shorter one,   *)
(* for a far id a much longer one, and a flusher never indexes past those   *)
(* it holds, whichever versions it picked up (844).                         *)
TypeOK ==
  /\ \A a \in Threads : Arrays(count[a]) /\ Arrays(time[a])
  /\ hook \in [Threads -> [at : HookPlaces, id : Ids, read : Nat]]
  /\ \A a \in Threads : hook[a].at \notin {"idle", "grow_time", "grow_count"} =>
       hook[a].id \in DOMAIN Newest(count[a]) \cap DOMAIN Newest(time[a])
  /\ \A f \in Flushers :
       /\ flusher[f].at \in FlusherPlaces
       /\ flusher[f].todo \subseteq Threads
       /\ \A a \in Threads : HoldsArrays(f, a) /\ flusher[f].at # "take_count" =>
            flusher[f].id \in DOMAIN time[a][flusher[f].timeRef]
                              \cap DOMAIN count[a][flusher[f].countRef]
  /\ sharedCount \in [Ids -> Nat] /\ sharedTime \in [Ids -> Nat]
  /\ raced \subseteq Ids

SumOver(tally, m) == MapThenSumSet(LAMBDA a : tally[a][m], Threads)
Buffered(versions, m) ==
  MapThenSumSet(LAMBDA a : IF m \in DOMAIN Newest(versions[a]) THEN Newest(versions[a])[m] ELSE 0,
                Threads)

\* No reset is under way and nobody is between adding m and zeroing it.
Settled(m) ==
  \A f \in Flushers : ~flusher[f].reset /\ \A a \in Threads : ~MovingSlot(f, a, m)

(* ExactUnlessRaced: the only error of the lock-free flush is a step of two *)
(* threads on one element at once.  As long as no hook and no second flush  *)
(* met a flush of id m, what is shared plus what is still buffered is what  *)
(* the calls since the last reset produced, whatever arrays were replaced   *)
(* on the way (Profiler.flushLocalCounters 840-858, reset 860-888).         *)
ExactUnlessRaced ==
  \A m \in Ids \ raced : Settled(m) =>
    /\ sharedCount[m] + Buffered(count, m) = SumOver(called, m)
    /\ sharedTime[m] + Buffered(time, m) = SumOver(spent, m)

(* Every call made is reported by the polls that follow.  Once the threads  *)
(* have stopped calling no count stays in a buffer, growth or not, and the  *)
(* shared statistics of an id hold the calls all threads have made of it    *)
(* since the last reset, unless a step of two threads met on it (844-856).  *)
CountsArrive == <>[](\A m \in Ids :
  /\ Buffered(count, m) = 0
  /\ m \notin raced /\ Settled(m) => sharedCount[m] = SumOver(called, m))
=============================================================================
