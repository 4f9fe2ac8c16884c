---------------------------- MODULE MethodHooks ----------------------------
(***************************************************************************)
(* The hooks that instrumented bytecode calls on one application thread,   *)
(* and the agent thread that starts, stops and retunes recording.          *)
(*                                                                         *)
(* Profiler.java keeps a shadow stack per thread.  A method entry is       *)
(* either sampled (it pushes a timed frame) or not (it only bumps          *)
(* unsampledDepth), and the exit hook, which is told only the method id,   *)
(* must guess which of the two it is closing.  Everything it touches is    *)
(* thread-local except recording, samplingMode and what reset() clears, so *)
(* one application thread and one controlling thread are enough.           *)
(*                                                                         *)
(* Every start also hooks allocation boundaries of the JDK (streams, URLs, *)
(* the thread pool and its workers), which run application methods.  Their *)
(* frames carry no time: a boundary reports none, and takes what its       *)
(* callees cost with it when it returns.                                   *)
(*                                                                         *)
(* The local buffers of LocalCounters and the shared MethodStats they are  *)
(* flushed into are one number here; CounterFlush.tla takes them apart.    *)
(* Not modelled: override durations (no code in the repository calls       *)
(* begin/endOverrideThreadStatus) and edges (disabled, 355).               *)
(***************************************************************************)
EXTENDS Integers, Sequences, FiniteSetsExt

CONSTANTS
  Methods,          \* ids of recorded application methods
  Traced,           \* ids of allocation boundaries, methods of the JDK
  Statements,       \* ids registered for SQL texts and for calls of JDBC interfaces
  SamplingInterval, \* SAMPLING_INTERVAL: one call in so many is timed
  FirstReading,     \* the thread CPU clock when the thread is first profiled
  MaxDepth,         \* bound: calls in progress at once
  MaxFrames,        \* bound: frames on the shadow stack, and each depth counter
  MaxClock,         \* bound: clock readings
  MaxInvocations    \* bound: recorded entries of one id

Ids == Methods \cup Traced \cup Statements

ASSUME HooksAssumption ==
  /\ Methods \cap Traced = {}
  /\ Methods \cap Statements = {}
  /\ Traced \cap Statements = {}
  /\ SamplingInterval \in Nat \ {0}
  /\ FirstReading \in Nat
  /\ MaxDepth \in Nat /\ MaxFrames \in Nat
  /\ MaxClock \in Nat /\ MaxInvocations \in Nat

VARIABLES
  calls,          \* the thread's real calls, outermost first
  stack,          \* Profiler.stack: the timed frames, outermost first
  sampledDepth,   \* LocalCounters.sampledDepth
  unsampledDepth, \* LocalCounters.unsampledDepth
  sampleCounter,  \* LocalCounters.sampleCounter
  invocations, self, total, \* LocalCounters plus MethodStats, per id
  recording,      \* JavaAgent.recording
  samplingMode,   \* Profiler.samplingMode
  instrumented,   \* a call made now runs bytecode that has the hooks
  control,        \* where the agent thread is in startRecording/stopRecording
  clock,          \* nowNano() of the thread
  ownTime, lasted, \* history: how long the calls of an id ran themselves, and lasted
  dropped         \* history: callees' time that frames took and passed on to nobody

counters == <<sampledDepth, unsampledDepth, sampleCounter>>
\* dropped belongs to what has been reported since the last reset.
stats    == <<invocations, self, total, dropped>>
agent    == <<recording, samplingMode, instrumented, control>>
history  == <<clock, ownTime, lasted>>
vars     == <<calls, stack, counters, stats, agent, history>>

Top(s) == s[Len(s)]
Pop(s) == SubSeq(s, 1, Len(s) - 1)
\* Mutant: the depth is lowered without looking.
LowerUnguarded(n) == n - 1

Lower(n) == IF n > 0 THEN n - 1 ELSE n
Zero == [id \in Ids |-> 0]

\* A call in progress; hooked: its bytecode has the hooks.
Call == [id : Ids, hooked : BOOLEAN]

\* A frame of Profiler.MethodStack; traced frames carry start 0.
Frame == [id : Ids, start : Nat, child : Int, subtract : BOOLEAN]

Push(id, start, subtract) ==
  stack' = Append(stack, [id |-> id, start |-> start, child |-> 0, subtract |-> subtract])

Init ==
  /\ calls = <<>> /\ stack = <<>>
  /\ sampledDepth = 0 /\ unsampledDepth = 0 /\ sampleCounter = 0
  /\ invocations = Zero /\ self = Zero /\ total = Zero
  /\ recording = TRUE /\ samplingMode = TRUE /\ instrumented = TRUE
  /\ control = "idle"
  /\ clock = FirstReading
  /\ ownTime = Zero /\ lasted = Zero /\ dropped = 0

----------------------------------------------------------------------------
(* The hooks of Profiler.java.  Each leaves calls, agent and history alone. *)

CountInvocation(id) ==
  /\ invocations[id] < MaxInvocations
  /\ invocations' = [invocations EXCEPT ![id] = @ + 1]

\* With sampling off the call is timed, and the call-rate monitor may switch
\* sampling on (its wall-clock window is left open).
TakeTimingSample ==
  \/ /\ ~samplingMode
     /\ samplingMode' \in BOOLEAN
     /\ UNCHANGED sampleCounter
  \/ /\ samplingMode
     /\ sampleCounter + 1 >= SamplingInterval
     /\ sampleCounter' = 0
     /\ UNCHANGED samplingMode

SkipTimingSample ==
  /\ samplingMode
  /\ sampleCounter + 1 < SamplingInterval
  /\ sampleCounter' = sampleCounter + 1
  /\ UNCHANGED samplingMode

RecordMethodEnter(m) ==
  /\ CountInvocation(m)
  /\ \/ /\ TakeTimingSample
        /\ Len(stack) < MaxFrames /\ sampledDepth < MaxFrames
        /\ sampledDepth' = sampledDepth + 1
        /\ Push(m, clock, TRUE)
        /\ UNCHANGED unsampledDepth
     \/ /\ SkipTimingSample
        /\ unsampledDepth < MaxFrames
        /\ unsampledDepth' = unsampledDepth + 1
        /\ UNCHANGED <<stack, sampledDepth>>
  /\ UNCHANGED <<self, total, dropped>>

\* A statement's frame is pushed without touching sampledDepth.
RecordSqlEnter(q) ==
  /\ CountInvocation(q)
  /\ Len(stack) < MaxFrames
  /\ Push(q, clock, FALSE)
  /\ UNCHANGED <<counters, self, total, dropped, samplingMode>>

\* Mutant: the guess ignores sampled calls in progress.
AnyUnsampled == unsampledDepth > 0

\* The first guess of recordExit: everything in progress is unsampled.
OnlyUnsampled == unsampledDepth > 0 /\ sampledDepth = 0

\* Mutant: an exit closes the top frame whoever it belongs to.
ClosesAny(id) == stack # <<>>

ClosesTop(id) == stack # <<>> /\ Top(stack).id = id

\* Mutant: the caller keeps the time of its callees.
ChargeNobody(s, duration) == s

\* The parent frame is charged the whole duration of the frame it contains, an
\* allocation boundary's too, which reports nothing and charges nobody.
ChargeParent(s, duration) ==
  IF s = <<>> THEN s ELSE [s EXCEPT ![Len(s)].child = @ + duration]

\* Mutant: the closed frame is not truncated.
ClosedInPlace(duration) == ChargeParent(stack, duration)

Closed(duration) == ChargeParent(Pop(stack), duration)

\* What the timed frames have been charged.
Charges(s) == [i \in DOMAIN s |-> IF s[i].start = 0 THEN 0 ELSE s[i].child]
Charged(s) == MapThenSumSet(LAMBDA i : Charges(s)[i], DOMAIN s)

\* What a frame without a time is charged is passed on to nobody.
Swallowed(rest, duration) ==
  IF rest # <<>> /\ Top(rest).start = 0 THEN duration ELSE 0

CloseTimedFrame(id) ==
  LET frame    == Top(stack)
      duration == clock - frame.start
      own      == IF frame.subtract THEN duration - frame.child ELSE duration
  IN  /\ self'  = [self EXCEPT ![id] = @ + (IF own < 0 THEN 0 ELSE own)]
      /\ total' = [total EXCEPT ![id] = @ + duration]
      /\ stack' = Closed(duration)
      /\ sampledDepth' = Lower(sampledDepth)
      /\ dropped' = dropped + Swallowed(Pop(stack), duration)
      /\ UNCHANGED <<unsampledDepth, invocations>>

CloseUntimedFrame ==
  /\ stack' = Pop(stack)
  /\ sampledDepth' = Lower(sampledDepth)
  /\ UNCHANGED <<unsampledDepth, stats>>

\* Mutant: an unsampled exit is ignored.
IgnoreUnsampled == UNCHANGED <<unsampledDepth, stack, sampledDepth, stats>>

CloseUnsampled ==
  /\ unsampledDepth' = Lower(unsampledDepth)
  /\ UNCHANGED <<stack, sampledDepth, stats>>

RecordExit(id) ==
  /\ \/ (OnlyUnsampled \/ ~ClosesTop(id)) /\ CloseUnsampled
     \/ ~OnlyUnsampled /\ ClosesTop(id) /\ Top(stack).start # 0 /\ CloseTimedFrame(id)
     \/ ~OnlyUnsampled /\ ClosesTop(id) /\ Top(stack).start = 0 /\ CloseUntimedFrame
  /\ UNCHANGED <<sampleCounter, samplingMode>>

RecordAllocationTraceEnter(t) ==
  /\ Len(stack) < MaxFrames
  /\ Push(t, 0, FALSE)
  /\ UNCHANGED <<counters, stats, samplingMode>>

\* Pops whatever is on top; on a mismatch cuts back to the latest t, if any.
CutBack(rest, t) ==
  LET matches == {i \in DOMAIN rest : rest[i].id = t}
  IN  IF matches = {}
      THEN stack' = rest
      ELSE \E i \in matches : /\ \A j \in matches : j <= i
                              /\ stack' = SubSeq(rest, 1, i - 1)

RecordAllocationTraceExit(t) ==
  /\ IF stack = <<>> THEN UNCHANGED stack
     ELSE IF Top(stack).id = t THEN stack' = Pop(stack)
     ELSE CutBack(Pop(stack), t)
  /\ dropped' = dropped + (Charged(stack) - Charged(stack'))
  /\ UNCHANGED <<counters, invocations, self, total, samplingMode>>

NoHook == UNCHANGED <<stack, counters, stats, samplingMode>>

----------------------------------------------------------------------------
(* The instrumented program.                                               *)

AgentElsewhere == UNCHANGED <<recording, instrumented, control>>

Hooked == calls # <<>> /\ Top(calls).hooked

EnterMethod(m) ==
  /\ Len(calls) < MaxDepth
  /\ calls' = Append(calls, [id |-> m, hooked |-> instrumented])
  /\ IF instrumented /\ recording THEN RecordMethodEnter(m) ELSE NoHook
  /\ AgentElsewhere /\ UNCHANGED history

ExitMethod ==
  /\ calls # <<>> /\ Top(calls).id \in Methods
  /\ calls' = Pop(calls)
  /\ IF Hooked /\ recording THEN RecordExit(Top(calls).id) ELSE NoHook
  /\ AgentElsewhere /\ UNCHANGED history

EnterTraced(t) ==
  /\ Len(calls) < MaxDepth
  /\ calls' = Append(calls, [id |-> t, hooked |-> instrumented])
  /\ IF instrumented /\ recording THEN RecordAllocationTraceEnter(t) ELSE NoHook
  /\ AgentElsewhere /\ UNCHANGED history

ExitTraced ==
  /\ calls # <<>> /\ Top(calls).id \in Traced
  /\ calls' = Pop(calls)
  /\ IF Hooked /\ recording
     THEN RecordAllocationTraceExit(Top(calls).id) ELSE NoHook
  /\ AgentElsewhere /\ UNCHANGED history

\* The hooks of a statement stand at its call site, in the calling method.
EnterSql(q) ==
  /\ Len(calls) < MaxDepth
  /\ Hooked /\ Top(calls).id \in Methods
  /\ calls' = Append(calls, [id |-> q, hooked |-> TRUE])
  /\ IF recording THEN RecordSqlEnter(q) ELSE NoHook
  /\ AgentElsewhere /\ UNCHANGED history

ExitSql ==
  /\ calls # <<>> /\ Top(calls).id \in Statements
  /\ calls' = Pop(calls)
  /\ IF recording THEN RecordExit(Top(calls).id) ELSE NoHook
  /\ AgentElsewhere /\ UNCHANGED history

\* An exception leaves the innermost call: no exit hook runs for it.
Unwind ==
  /\ calls # <<>>
  /\ calls' = Pop(calls)
  /\ NoHook /\ AgentElsewhere /\ UNCHANGED history

\* A method throws and catches the exception itself: the exit hook stands
\* before the throw, so it runs although the call goes on.
ThrowCaught ==
  /\ Hooked /\ Top(calls).id \in Methods
  /\ recording
  /\ RecordExit(Top(calls).id)
  /\ AgentElsewhere /\ UNCHANGED <<calls, history>>

CallsOf(id) == {k \in DOMAIN calls : calls[k].id = id}

\* The calls whose own time it is: the innermost one, and those that have called
\* an allocation boundary, for nobody charges them what the boundary calls.
Running == {k \in DOMAIN calls : k = Len(calls) \/ calls[k + 1].id \in Traced}

\* Time passes for every call in progress.
Tick ==
  /\ calls # <<>>
  /\ clock < MaxClock
  /\ clock' = clock + 1
  /\ ownTime' = [id \in Ids |-> ownTime[id] + Cardinality(CallsOf(id) \cap Running)]
  /\ lasted'  = [id \in Ids |-> lasted[id] + Cardinality(CallsOf(id))]
  /\ NoHook /\ AgentElsewhere /\ UNCHANGED calls

----------------------------------------------------------------------------
(* The agent: JavaAgent.startRecording and stopRecording hold one lock, so *)
(* their steps alternate with hooks but not with each other.  The TCP      *)
(* command SET_SAMPLING_INTERVAL takes no lock.                            *)

AgentStep(from, to) ==
  /\ control = from
  /\ control' = to
  /\ UNCHANGED <<calls, history>>

StartFlag ==
  /\ AgentStep("idle", "start_reset")
  /\ recording' = TRUE
  /\ UNCHANGED <<stack, counters, stats, samplingMode, instrumented>>

\* Profiler.reset: every statistic and depth counter, but not the stacks.
\* The counters belong to the application thread: a hook that has read one
\* before the reset writes it back after, and the zero is lost; one hook
\* writes one depth at most.
ResetStatistics ==
  /\ invocations' = Zero /\ self' = Zero /\ total' = Zero /\ dropped' = 0
  /\ sampledDepth' \in {0, sampledDepth} /\ unsampledDepth' \in {0, unsampledDepth}
  /\ 0 \in {sampledDepth', unsampledDepth'}
  /\ sampleCounter' \in {0, sampleCounter}
  /\ samplingMode' = TRUE
  /\ UNCHANGED <<stack, recording, instrumented>>

StartReset == AgentStep("start_reset", "start_retransform") /\ ResetStatistics

StartRetransform ==
  /\ \E next \in {"start_calibrate", "idle"} : AgentStep("start_retransform", next)
  /\ instrumented' = TRUE
  /\ UNCHANGED <<stack, counters, stats, samplingMode, recording>>

\* Without the native library, each JDBC probe is calibrated, between resets.
StartCalibrate ==
  /\ \E next \in {"start_calibrate", "idle"} : AgentStep("start_calibrate", next)
  /\ ResetStatistics

StopSampling ==
  /\ AgentStep("idle", "stop_flag")
  /\ samplingMode' = FALSE
  /\ UNCHANGED <<stack, counters, stats, recording, instrumented>>

StopFlag ==
  /\ AgentStep("stop_flag", "stop_restore")
  /\ recording' = FALSE
  /\ UNCHANGED <<stack, counters, stats, samplingMode, instrumented>>

StopRestore ==
  /\ AgentStep("stop_restore", "idle")
  /\ instrumented' = FALSE
  /\ UNCHANGED <<stack, counters, stats, samplingMode, recording>>

SetSamplingMode(enabled) ==
  /\ samplingMode' = enabled
  /\ UNCHANGED <<calls, stack, counters, stats, recording, instrumented, control, history>>

----------------------------------------------------------------------------
\* Method calls that return, under one recording.
CallNext ==
  \/ \E m \in Methods : EnterMethod(m)
  \/ ExitMethod
  \/ \E t \in Traced : EnterTraced(t)
  \/ ExitTraced
  \/ \E enabled \in BOOLEAN : SetSamplingMode(enabled)
  \/ Tick

SqlNext ==
  \/ \E q \in Statements : EnterSql(q)
  \/ ExitSql

\* Exceptions, and recording stopped and started under running calls.
DisturbNext ==
  \/ Unwind \/ ThrowCaught
  \/ StartFlag \/ StartReset \/ StartRetransform \/ StartCalibrate
  \/ StopSampling \/ StopFlag \/ StopRestore

SpecCalls == Init /\ [][CallNext]_vars
SpecSql   == Init /\ [][CallNext \/ SqlNext]_vars
Spec      == Init /\ [][CallNext \/ SqlNext \/ DisturbNext]_vars

----------------------------------------------------------------------------
(* The values the variables take, under every specification above.         *)
TypeOK ==
  /\ calls \in Seq(Call)
  /\ stack \in Seq(Frame)
  /\ sampledDepth \in Nat /\ unsampledDepth \in Nat /\ sampleCounter \in Nat
  /\ invocations \in [Ids -> Nat]
  /\ self \in [Ids -> Nat] /\ total \in [Ids -> Nat]
  /\ recording \in BOOLEAN /\ samplingMode \in BOOLEAN /\ instrumented \in BOOLEAN
  /\ control \in {"idle", "start_reset", "start_retransform", "start_calibrate",
                   "stop_flag", "stop_restore"}
  /\ clock \in Nat
  /\ ownTime \in [Ids -> Nat] /\ lasted \in [Ids -> Nat] /\ dropped \in Int

\* match sends each frame to a call of the same id that is still in progress,
\* in order, and no allocation boundary in progress is left out.
Embeds(match) ==
  /\ match \in [DOMAIN stack -> DOMAIN calls]
  /\ \A i, j \in DOMAIN stack : i < j => match[i] < match[j]
  /\ \A i \in DOMAIN stack : calls[match[i]].id = stack[i].id
  /\ \A k \in DOMAIN calls : calls[k].id \in Traced => \E i \in DOMAIN stack : match[i] = k

Timed == {i \in DOMAIN stack : stack[i].id \in Methods}
Untimed(match) == {k \in DOMAIN calls : \A i \in DOMAIN stack : match[i] # k}

(* Balanced: although recordExit guesses, as long as every entered method   *)
(* exits through its hook the shadow stack is a subsequence of the calls in *)
(* progress, sampledDepth counts its method frames, and unsampledDepth      *)
(* counts exactly the calls that have none (Profiler.recordExit 630-666).   *)
Balanced ==
  /\ sampledDepth = Cardinality(Timed)
  /\ \E match \in [DOMAIN stack -> DOMAIN calls] :
       /\ Embeds(match)
       /\ unsampledDepth = Cardinality(Untimed(match))

(* When the thread has left every instrumented method, nothing is left of   *)
(* the calls: no frame leaks and no depth is off by one for the next call.  *)
DrainedWhenIdle ==
  calls = <<>> => stack = <<>> /\ sampledDepth = 0 /\ unsampledDepth = 0

(* Sampling may lose time but never invents it: the total time reported for *)
(* a method is at most the time its calls were in progress, even though a   *)
(* recursive exit may close the frame of an outer call (659-683).           *)
NeverOverReported == \A id \in Ids : total[id] <= lasted[id]

(* With every call sampled (SAMPLING_INTERVAL 1) the report is exact once   *)
(* the calls have returned: total time is the time the calls lasted, SQL    *)
(* included, and self time is the time a call was innermost or inside an    *)
(* allocation boundary it had called.  So a method is not spared what its   *)
(* callees cost when a boundary of the JDK lies between: their time is      *)
(* charged to the boundary's frame and leaves with it (547-563, 684-689).   *)
ExactWhenAllSampled ==
  calls = <<>> =>
    /\ \A m \in Methods : self[m] = ownTime[m] /\ total[m] = lasted[m]
    /\ \A q \in Statements : total[q] = lasted[q]

(* Each completed SQL execution is reported with its duration: "records      *)
(* method, JDBC, SQL, and allocation statistics" (docs/architecture.md:16). *)
SqlTimed == calls = <<>> => \A q \in Statements : total[q] = lasted[q]

TimedFrames == {i \in DOMAIN stack : stack[i].start # 0}

(* Whatever exceptions, stops and restarts leave behind on the shadow stack, *)
(* frames stay nested in time: what a frame's children were charged lies     *)
(* between its start and the start of the next frame, so the clamp of self   *)
(* time to zero (675-677) never hides a negative value.                      *)
FramesNested ==
  \A i \in TimedFrames :
    /\ stack[i].child >= 0
    /\ stack[i].start + stack[i].child <= clock
    /\ \A j \in TimedFrames : i < j => stack[i].start + stack[i].child <= stack[j].start

(* A moment is the self time of a call and of its caller only if it was     *)
(* charged to a frame that passes it on to nobody: apart from that the self *)
(* times add up to at most the time the thread has run, whatever was        *)
(* unwound, restarted or leaked, and whatever statements ran in between.    *)
(* Such frames are those of the allocation boundaries every start hooks,    *)
(* and those a boundary's exit cuts off with what lies above its own        *)
(* (selfDuration 672-677, recordAllocationTraceExit 550-563).               *)
NoTimeCountedTwice ==
  MapThenSumSet(LAMBDA m : self[m], Methods) <= (clock - FirstReading) + dropped
============================================================================
