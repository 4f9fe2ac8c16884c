--------------------------- MODULE AllocationData ---------------------------
(***************************************************************************)
(* Where GET_MEMORY_DATA gets allocation sites: the table that hooks after *)
(* every NEW fill from the shadow stack (Profiler.java 932-1017), whose    *)
(* entries hold weak references, and the native agent's table when there   *)
(* is nothing live in that one (TcpServer.java 237-267).                   *)
(*                                                                         *)
(* As in NativeAgent a step is one access to shared memory; clear() and an *)
(* iterator of a ConcurrentHashMap visit the bins in groups, in any order. *)
(* The garbage collector clears all references to an object at once.       *)
(***************************************************************************)
EXTENDS NativeAgent

CONSTANTS
  Objects,     \* what application threads allocate
  Sites,       \* the paths that occur: where clear() and iterators look
  Boundaries,  \* allocation boundary methods
  NoisyRoots,  \* boundaries and methods whose allocations are not recorded
  Backing      \* methods whose arrays are not recorded

VARIABLES
  isRecording,     \* JavaAgent.recording
  allocationStats, \* liveSamples by path: the objects recorded there
  removed,         \* times an entry was removed: tells it from a later one of its path
  collected,       \* objects the garbage collector has taken
  rows,            \* per connection: live objects by path, of its last reply
  asked,           \* history: what was recorded, and collected, when that reply was asked for
  met              \* history: a reset and a hook were under way at once

javaVars   == <<isRecording, allocationStats, removed, collected, rows, asked>>
nativeVars == <<events, holder, memory, jdbc>>

----------------------------------------------------------------------------
(* Commands.                                                               *)

ResetJava(times) == [i \in 1..times |-> <<"sweep", Sites>>]

\* How JDBC probes are timed: by the native agent, by id in Java, or not at all.
ProbeModes == {"native", "id", "off"}

\* Java's calibration resets the table once, and again after each probe; a native one, or
\* none, leaves it alone.
CalibrateJava(mode) == ResetJava(IF mode = "id" THEN Cardinality(Probes) + 1 ELSE 0)

StartData(mode) ==
  <<<<"lock", TRUE>>, <<"flag", TRUE>>>> \o ResetJava(1)
    \o StartSteps(mode = "native") \o CalibrateJava(mode) \o <<<<"unlock">>>>

StopData == <<<<"lock", FALSE>>, <<"record", FALSE>>, <<"flag", FALSE>>, <<"unlock">>>>

MemoryCommand == <<<<"ask">>, <<"look", Sites, {}>>>>

Commands ==
  {StartCommand(native) : native \in BOOLEAN} \cup {StartData(mode) : mode \in ProbeModes}
    \cup {StopCommand, StopData, Snapshot, MemoryCommand}

DataInit ==
  /\ Init
  /\ isRecording = FALSE /\ allocationStats = <<>>
  /\ removed = [p \in Sites |-> 0]
  /\ collected = {}
  /\ rows = [c \in Connections |-> <<>>] /\ asked = [c \in Connections |-> [live |-> {}, dead |-> {}]]
  /\ met = FALSE

Flag(c) ==
  /\ Takes(c, "flag") /\ Then(c, <<>>)
  /\ isRecording' = Arg(c, 1)
  /\ UNCHANGED <<allocationStats, removed, collected, rows, asked>>

\* One group of bins is cleared.
Sweep(c) ==
  /\ Takes(c, "sweep")
  /\ \E bins \in (SUBSET Arg(c, 1)) \ {{}} :
       LET rest  == Arg(c, 1) \ bins
           there == bins \cap DOMAIN allocationStats
       IN /\ Then(c, IF rest = {} THEN <<>> ELSE <<<<"sweep", rest>>>>)
          /\ allocationStats' = [p \in DOMAIN allocationStats \ bins |-> allocationStats[p]]
          /\ removed' = [p \in Sites |-> removed[p] + (IF p \in there THEN 1 ELSE 0)]
  /\ asked' = [k \in Connections |-> [asked[k] EXCEPT !.live = {}]]
  /\ UNCHANGED <<isRecording, collected, rows>>

----------------------------------------------------------------------------
(* Hooks.                                                                  *)

\* frames: the shadow stack from its top; m: the allocating method or NoId.
Site(frames, m, array) ==
  LET boundary == {i \in 1..Len(frames) : frames[i] \in Boundaries}
      first    == FirstOf(boundary)
      from(root, s) == (IF root = NoId THEN <<>> ELSE <<root>>)
                         \o At(s, {i \in 1..Len(s) : s[i] # root})
  IN IF boundary # {}
     THEN IF array \/ frames[first] \in NoisyRoots THEN <<>>
          ELSE from(frames[first], SubSeq(frames, first + 1, Len(frames)))
     ELSE IF m \in NoisyRoots \/ (array /\ m \in Backing) THEN <<>> ELSE from(m, frames)

\* Mutant: the outermost path is recorded last.
OutermostLast(path) == [i \in 1..Len(path) |-> SubSeq(path, 1, Len(path) + 1 - i)]

\* The paths an allocation is recorded at, in the order it is.
Segments(path) == [i \in 1..Len(path) |-> SubSeq(path, 1, i)]

\* What an application thread does: the JVM reports an allocation, or its hook runs.
IsAllocation(call) ==
  LET step == call[1] IN
    /\ call = <<step>>
    /\ \/ step[1] = "alloc" /\ IsSeq(step[2]) /\ step[3] \in Nat
       \/ /\ step[1] = "new" /\ step[2] \in Objects
          /\ IsSeq(Site(step[3], step[4], step[5]))
          /\ ToSet(Segments(Site(step[3], step[4], step[5]))) \subseteq Sites

ASSUME DataAssumption ==
  /\ \A p \in Sites : IsSeq(p) /\ p # <<>> /\ Prefixes(p) \ {<<>>} \subseteq Sites
  /\ \A plan \in Plans :
       /\ \A a \in Actors : IsSeq(plan[a])
       /\ \A c \in Connections : ToSet(plan[c]) \subseteq Commands
       /\ \A t \in Threads : \A call \in ToSet(plan[t]) : IsAllocation(call)

\* objectAllocatedAt, up to the first entry.
New(t) ==
  /\ Takes(t, "new")
  /\ LET path == Segments(Site(Arg(t, 2), Arg(t, 3), Arg(t, 4)))
     IN Then(t, IF isRecording
                THEN [i \in 1..Len(path) |-> <<"entry", Arg(t, 1), path[i]>>] ELSE <<>>)
  /\ UNCHANGED javaVars

\* computeIfAbsent.
Entry(t) ==
  /\ Takes(t, "entry")
  /\ LET p == Arg(t, 2) IN
       /\ Then(t, <<<<"sample", Arg(t, 1), p, removed[p]>>>>)
       /\ allocationStats' = [q \in DOMAIN allocationStats \cup {p} |->
                                IF q \in DOMAIN allocationStats THEN allocationStats[q] ELSE {}]
  /\ UNCHANGED <<isRecording, removed, collected, rows, asked>>

\* liveSamples.add, to the entry found, be it in the table still or not.
Sample(t) ==
  /\ Takes(t, "sample") /\ Then(t, <<>>)
  /\ allocationStats' = IF removed[Arg(t, 2)] = Arg(t, 3)
                        THEN [allocationStats EXCEPT ![Arg(t, 2)] = @ \cup {Arg(t, 1)}]
                        ELSE allocationStats
  /\ UNCHANGED <<isRecording, removed, collected, rows, asked>>

Hooking(t) == Takes(t, "entry") \/ Takes(t, "sample")

\* An object is not collected before its hook has ended, and it shows only
\* when the object has been recorded.
Collect(o) ==
  /\ o \notin collected /\ \E p \in DOMAIN allocationStats : o \in allocationStats[p]
  /\ \A t \in Threads : ~(Hooking(t) /\ Arg(t, 1) = o)
  /\ collected' = collected \cup {o}
  /\ UNCHANGED <<todo, isRecording, allocationStats, removed, rows, asked>>

----------------------------------------------------------------------------
(* GET_MEMORY_DATA.                                                        *)

\* An object and a site, when it is recorded there and at all sites above.
RecordedAt(o, p) ==
  \A q \in Prefixes(p) \ {<<>>} : q \in DOMAIN allocationStats /\ o \in allocationStats[q]

Ask(c) ==
  /\ Takes(c, "ask") /\ Then(c, <<>>)
  /\ rows' = [rows EXCEPT ![c] = <<>>]
  /\ asked' = [asked EXCEPT ![c] =
       [live |-> {x \in Objects \X Sites : RecordedAt(x[1], x[2])}, dead |-> collected]]
  /\ UNCHANGED <<isRecording, allocationStats, removed, collected>>

\* Keys are collected under their parents.
Look(c) ==
  /\ Takes(c, "look")
  /\ \E bins \in (SUBSET Arg(c, 1)) \ {{}} :
       LET rest == Arg(c, 1) \ bins
           keys == Arg(c, 2) \cup (bins \cap DOMAIN allocationStats)
       IN Then(c, IF rest # {} THEN <<<<"look", rest, keys>>>>
                  ELSE <<<<"rows", {p \in keys : Len(p) = 1}, keys>>>>)
  /\ UNCHANGED javaVars

\* Mutant: collected objects count.
AllSamples(p) == IF p \in DOMAIN allocationStats THEN allocationStats[p] ELSE {}

\* liveTotals of the path's entry, nothing when it is gone.
LiveSamples(p) == IF p \in DOMAIN allocationStats THEN allocationStats[p] \ collected ELSE {}

\* A path whose parent has its row gets one when anything there is live; the
\* code goes down first, in the order of sizes, here any path may be next.
AppendRow(c) ==
  /\ Takes(c, "rows")
  /\ \E p \in Arg(c, 1) :
       LET keys  == Arg(c, 2)
           live  == LiveSamples(p)
           below == IF live = {} THEN {} ELSE {q \in keys : Len(q) > 1 /\ Front(q) = p}
       IN /\ Then(c, <<<<"rows", (Arg(c, 1) \ {p}) \cup below, keys>>>>)
          /\ rows' = IF live = {} THEN rows
                     ELSE [rows EXCEPT ![c] = [q \in DOMAIN @ \cup {p} |->
                                                 IF q = p THEN live ELSE @[q]]]
  /\ UNCHANGED <<isRecording, allocationStats, removed, collected, asked>>

\* Without rows, the native agent is asked.
Fallback(c) ==
  /\ Takes(c, "rows") /\ Arg(c, 1) = {}
  /\ Then(c, IF rows[c] = <<>> THEN Snapshot ELSE <<>>)
  /\ UNCHANGED javaVars

----------------------------------------------------------------------------
JavaStep ==
  \/ \E t \in Threads : New(t) \/ Entry(t) \/ Sample(t)
  \/ \E o \in Objects : Collect(o)
  \/ \E c \in Connections : Flag(c) \/ Sweep(c) \/ Ask(c) \/ Look(c) \/ AppendRow(c) \/ Fallback(c)

Meeting == (\E c \in Connections : Takes(c, "sweep")) /\ (\E t \in Threads : Hooking(t))

DataNext ==
  /\ (Next /\ UNCHANGED javaVars) \/ (JavaStep /\ UNCHANGED nativeVars)
  /\ met' = (met \/ Meeting')

DataSpec == DataInit /\ [][DataNext]_<<vars, javaVars, met>>

----------------------------------------------------------------------------
(* Properties.                                                             *)

(* A start has emptied the table in part. *)
Sweeping == \E c \in Connections : Takes(c, "sweep") /\ Arg(c, 1) # Sites

(* Unless a start met a hook, the table is a tree whenever no start is     *)
(* emptying it, and a site holds all that is live at the sites below it,   *)
(* whatever is recorded, collected or reset: nothing is counted that its   *)
(* parent does not count, and no site is left without its parent, where no *)
(* reply would show it.                                                    *)
LiveCovers ==
  ~met /\ ~Sweeping =>
         \A p \in DOMAIN allocationStats : Len(p) > 1 =>
            /\ Front(p) \in DOMAIN allocationStats
            /\ LiveSamples(p) \subseteq LiveSamples(Front(p))

(* A reply counts an object that was recorded when it was asked for and is *)
(* not collected, at each of its sites, though the rows are read at        *)
(* different times, and counts nothing that had been collected by then.    *)
RepliesLive ==
  \A c \in Connections :
    /\ \A p \in DOMAIN rows[c] : rows[c][p] \cap asked[c].dead = {}
    /\ ~Takes(c, "look") /\ ~Takes(c, "rows") =>
         \A x \in asked[c].live :
           x[1] \notin collected => x[2] \in DOMAIN rows[c] /\ x[1] \in rows[c][x[2]]
=============================================================================
