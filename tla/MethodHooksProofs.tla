------------------------- MODULE MethodHooksProofs -------------------------
(***************************************************************************)
(* Proofs about MethodHooks, for every value of its constants.             *)
(*                                                                         *)
(* First, types and the nesting of frames, under the full specification    *)
(* (exceptions, statements, restarts).  They are proved together, because  *)
(* a recorded total is a natural number only if no frame starts in the     *)
(* future.                                                                 *)
(*                                                                         *)
(* Then the balance, under SpecCalls: every entered method exits through   *)
(* its hook, in one recording.  Which frame an exit closes is a guess, so  *)
(* no frame is tied to one call.  The invariant says that some assignment  *)
(* of frames to calls in progress exists, in order and by id.  An exit     *)
(* that closes the frame of an outer call of the same method moves the     *)
(* other frames to no other call, and leaves that outer call without a     *)
(* frame in the place of the one that has returned: the number of calls    *)
(* without a frame is what it was.                                         *)
(*                                                                         *)
(* Then SpecSql, where statements run among the calls, with every call     *)
(* sampled: frames and calls are one to one, the guess is right, and what  *)
(* is reported is exact.                                                   *)
(*                                                                         *)
(* Last, under the full specification again, that all self times together  *)
(* are at most the time that has passed and what untimed frames took.      *)
(***************************************************************************)
EXTENDS MethodHooks, DataFacts, SequenceTheorems

----------------------------------------------------------------------------
(* Sequences as stacks.                                                    *)

LEMMA PopProperties ==
  ASSUME NEW S, NEW s \in Seq(S), s # <<>>
  PROVE  /\ Len(s) \in Nat \ {0}
         /\ DOMAIN s = 1 .. Len(s)
         /\ Top(s) \in S
         /\ Pop(s) \in Seq(S)
         /\ Len(Pop(s)) = Len(s) - 1
         /\ DOMAIN Pop(s) = 1 .. Len(s) - 1
         /\ \A i \in 1 .. Len(s) - 1 : Pop(s)[i] = s[i]
<1>1. Len(s) \in Nat \ {0} /\ DOMAIN s = 1 .. Len(s)
  BY EmptySeq, LenProperties
<1>2. \A i \in 1 .. Len(s) : s[i] \in S
  BY ElementOfSeq
<1>3. /\ SubSeq(s, 1, Len(s) - 1) \in Seq(S)
      /\ Len(SubSeq(s, 1, Len(s) - 1)) = IF 1 <= Len(s) - 1 THEN Len(s) - 1 - 1 + 1 ELSE 0
      /\ \A i \in 1 .. Len(s) - 1 - 1 + 1 : SubSeq(s, 1, Len(s) - 1)[i] = s[1 + i - 1]
  <2>1. 1 \in Int /\ Len(s) - 1 \in Int /\ \A i \in 1 .. Len(s) - 1 : s[i] \in S
    BY <1>1, <1>2
  <2>. QED
    BY <2>1, SubSeqProperties
<1>4. Len(Pop(s)) = Len(s) - 1 /\ \A i \in 1 .. Len(s) - 1 : Pop(s)[i] = s[i]
  BY <1>1, <1>3 DEF Pop
<1>5. DOMAIN Pop(s) = 1 .. Len(s) - 1
  BY <1>3, <1>4, LenProperties DEF Pop
<1>. QED
  BY <1>1, <1>2, <1>3, <1>4, <1>5 DEF Pop, Top

LEMMA AppendDomain ==
  ASSUME NEW S, NEW s \in Seq(S), NEW e \in S
  PROVE  /\ Append(s, e) \in Seq(S)
         /\ Len(s) \in Nat
         /\ DOMAIN s = 1 .. Len(s)
         /\ Len(Append(s, e)) = Len(s) + 1
         /\ DOMAIN Append(s, e) = 1 .. Len(s) + 1
         /\ \A i \in 1 .. Len(s) : Append(s, e)[i] = s[i]
         /\ Append(s, e)[Len(s) + 1] = e
  BY AppendProperties, LenProperties

LEMMA FrameFields ==
  ASSUME NEW s \in Seq(Frame)
  PROVE  \A i \in 1 .. Len(s) : s[i].start \in Nat /\ s[i].child \in Int
<1>1. \A f \in Frame : f.start \in Nat /\ f.child \in Int
  BY DEF Frame
<1>2. \A i \in 1 .. Len(s) : s[i] \in Frame
  BY ElementOfSeq
<1>. QED
  BY <1>1, <1>2

LEMMA ChargedFrame ==
  ASSUME NEW g \in Frame, NEW d \in Int
  PROVE  /\ [g EXCEPT !.child = @ + d] \in Frame
         /\ [g EXCEPT !.child = @ + d].id = g.id
         /\ [g EXCEPT !.child = @ + d].start = g.start
         /\ [g EXCEPT !.child = @ + d].subtract = g.subtract
         /\ [g EXCEPT !.child = @ + d].child = g.child + d
  BY DEF Frame

\* Charging the parent changes one child field and nothing else.
LEMMA ChargeParentProperties ==
  ASSUME NEW s \in Seq(Frame), NEW d \in Int
  PROVE  /\ ChargeParent(s, d) \in Seq(Frame)
         /\ Len(ChargeParent(s, d)) = Len(s)
         /\ DOMAIN ChargeParent(s, d) = DOMAIN s
         /\ \A i \in DOMAIN s :
              /\ ChargeParent(s, d)[i].id = s[i].id
              /\ ChargeParent(s, d)[i].start = s[i].start
              /\ ChargeParent(s, d)[i].subtract = s[i].subtract
              /\ ChargeParent(s, d)[i].child = IF i = Len(s) THEN s[i].child + d ELSE s[i].child
<1>1. CASE s = <<>>
  BY <1>1, EmptySeq DEF ChargeParent
<1>2. CASE s # <<>>
  <2>1. Len(s) \in 1 .. Len(s) /\ DOMAIN s = 1 .. Len(s) /\ s[Len(s)] \in Frame
    BY <1>2, PopProperties DEF Top
  <2>2. \A i \in DOMAIN s : s[i] \in Frame
    BY <2>1, ElementOfSeq
  <2> DEFINE f == [s[Len(s)] EXCEPT !.child = @ + d]
  <2>3. /\ f \in Frame
        /\ f.id = s[Len(s)].id /\ f.start = s[Len(s)].start
        /\ f.subtract = s[Len(s)].subtract
        /\ f.child = s[Len(s)].child + d
    BY <2>1, ChargedFrame
  <2>4. ChargeParent(s, d) = [s EXCEPT ![Len(s)] = f]
    BY <1>2 DEF ChargeParent
  <2>5. ChargeParent(s, d) \in Seq(Frame) /\ Len(ChargeParent(s, d)) = Len(s)
    BY <2>1, <2>3, <2>4, ExceptSeq
  <2>6. DOMAIN ChargeParent(s, d) = DOMAIN s
    BY <2>4
  <2>7. \A i \in DOMAIN s : ChargeParent(s, d)[i] = IF i = Len(s) THEN f ELSE s[i]
    BY <2>4
  <2>. QED
    BY <2>2, <2>3, <2>5, <2>6, <2>7
<1>. QED
  BY <1>1, <1>2

\* What the timed frames of a stack have been charged is a sum over its indices.
LEMMA ChargedTotal == \A s : Charged(s) = Total(Charges(s), DOMAIN s)
BY DEF Charged, Total, SumsOf, Sums, Choice, MapThenSumSet, MapThenFoldSet

LEMMA ChargesType ==
  ASSUME NEW s \in Seq(Frame)
  PROVE  /\ Len(s) \in Nat /\ DOMAIN s = 1..Len(s) /\ IsFiniteSet(DOMAIN s)
         /\ \A i \in DOMAIN s : /\ s[i].start \in Nat /\ s[i].child \in Int
                                /\ Charges(s)[i] = IF s[i].start = 0 THEN 0 ELSE s[i].child
                                /\ Charges(s)[i] \in Int
         /\ Charged(s) \in Int
<1>1. Len(s) \in Nat /\ DOMAIN s = 1..Len(s)
  BY LenProperties
<1>2. IsFiniteSet(DOMAIN s)
  BY <1>1, FS_Interval
<1>3. \A i \in DOMAIN s : s[i].start \in Nat /\ s[i].child \in Int
  BY <1>1, FrameFields
<1>4. \A i \in DOMAIN s : /\ Charges(s)[i] = IF s[i].start = 0 THEN 0 ELSE s[i].child
                          /\ Charges(s)[i] \in Int
  BY <1>3 DEF Charges
<1>5. Total(Charges(s), DOMAIN s) \in Int
  BY <1>2, <1>4, SumType DEF Total
<1>6. Charged(s) \in Int
  BY <1>5, ChargedTotal
<1>. QED
  BY <1>1, <1>2, <1>3, <1>4, <1>6

----------------------------------------------------------------------------
(* Part 1: types and nesting.  HookInv is what the hooks read and write.   *)

HookTypes ==
  /\ stack \in Seq(Frame)
  /\ sampledDepth \in Nat /\ unsampledDepth \in Nat /\ sampleCounter \in Nat
  /\ invocations \in [Ids -> Nat]
  /\ self \in [Ids -> Nat] /\ total \in [Ids -> Nat] /\ dropped \in Int
  /\ samplingMode \in BOOLEAN

HookInv == HookTypes /\ FramesNested

\* A frame pushed now starts after everything its elders were charged.
LEMMA PushKeepsNesting ==
  ASSUME stack \in Seq(Frame), FramesNested, clock \in Nat, clock' = clock,
         NEW id \in Ids, NEW start \in {0, clock}, NEW subtract \in BOOLEAN,
         Push(id, start, subtract)
  PROVE  stack' \in Seq(Frame) /\ FramesNested'
<1> DEFINE f == [id |-> id, start |-> start, child |-> 0, subtract |-> subtract]
<1>1. f \in Frame /\ f.start = start /\ f.child = 0
  BY DEF Frame
<1>2. stack' = Append(stack, f)
  BY DEF Push
<1> HIDE DEF f
<1>3. /\ stack' \in Seq(Frame)
      /\ Len(stack) \in Nat
      /\ DOMAIN stack = 1 .. Len(stack)
      /\ DOMAIN stack' = 1 .. Len(stack) + 1
      /\ \A i \in 1 .. Len(stack) : stack'[i] = stack[i]
      /\ stack'[Len(stack) + 1] = f
  BY <1>1, <1>2, AppendDomain
<1>4. \A i \in DOMAIN stack : stack[i].start \in Nat /\ stack[i].child \in Int
  BY <1>3, FrameFields
<1>5. /\ TimedFrames' \subseteq TimedFrames \cup {Len(stack) + 1}
      /\ TimedFrames \subseteq 1 .. Len(stack)
  BY <1>3 DEF TimedFrames
<1>6. ASSUME NEW i \in TimedFrames'
      PROVE  /\ stack'[i].child >= 0
             /\ stack'[i].start + stack'[i].child <= clock
             /\ i \in TimedFrames => stack'[i] = stack[i]
             /\ i \notin TimedFrames => stack'[i].start = clock
  <2>1. CASE i \in TimedFrames
    BY <1>3, <1>4, <1>5, <2>1 DEF FramesNested
  <2>2. CASE i = Len(stack) + 1
    BY <1>1, <1>3, <1>5, <1>6, <2>2 DEF TimedFrames
  <2>. QED
    BY <1>5, <2>1, <2>2
<1>7. ASSUME NEW i \in TimedFrames', NEW j \in TimedFrames', i < j
      PROVE  stack'[i].start + stack'[i].child <= stack'[j].start
  <2>1. i \in TimedFrames
    BY <1>3, <1>5, <1>7
  <2>2. CASE j \in TimedFrames
    BY <1>6, <1>7, <2>1, <2>2 DEF FramesNested
  <2>3. CASE j \notin TimedFrames
    BY <1>6, <1>7, <2>1, <2>3
  <2>. QED
    BY <2>2, <2>3
<1>8. FramesNested'
  BY <1>6, <1>7 DEF FramesNested
<1>. QED
  BY <1>3, <1>8

\* Cutting the stack back keeps what is left nested.
LEMMA PrefixKeepsNesting ==
  ASSUME stack \in Seq(Frame), FramesNested, clock \in Nat, clock' = clock,
         stack' \in Seq(Frame), Len(stack') <= Len(stack),
         \A i \in 1 .. Len(stack') : stack'[i] = stack[i]
  PROVE  FramesNested'
<1>1. DOMAIN stack = 1 .. Len(stack) /\ DOMAIN stack' = 1 .. Len(stack')
      /\ Len(stack) \in Nat /\ Len(stack') \in Nat
  BY LenProperties
<1>2. TimedFrames' \subseteq TimedFrames /\ \A i \in TimedFrames' : stack'[i] = stack[i]
  BY <1>1 DEF TimedFrames
<1>. QED
  BY <1>2 DEF FramesNested

LEMMA EnterKeepsHookInv ==
  ASSUME HookInv, clock \in Nat, clock' = clock,
         NEW m \in Methods, RecordMethodEnter(m)
  PROVE  HookInv'
<1>1. m \in Ids
  BY DEF Ids
<1>2. /\ invocations' \in [Ids -> Nat] /\ self' \in [Ids -> Nat] /\ total' \in [Ids -> Nat]
      /\ dropped' \in Int
  BY <1>1 DEF HookInv, HookTypes, RecordMethodEnter, CountInvocation
<1>3. CASE TakeTimingSample /\ sampledDepth' = sampledDepth + 1
           /\ Push(m, clock, TRUE) /\ UNCHANGED unsampledDepth
  <2>1. stack' \in Seq(Frame) /\ FramesNested'
    BY <1>1, <1>3, PushKeepsNesting DEF HookInv, HookTypes
  <2>. QED
    BY <1>2, <1>3, <2>1 DEF HookInv, HookTypes, TakeTimingSample
<1>4. CASE SkipTimingSample /\ unsampledDepth' = unsampledDepth + 1
           /\ UNCHANGED <<stack, sampledDepth>>
  <2>1. stack' = stack /\ FramesNested'
    BY <1>4 DEF HookInv, FramesNested, TimedFrames
  <2>. QED
    BY <1>2, <1>4, <2>1 DEF HookInv, HookTypes, SkipTimingSample
<1>. QED
  BY <1>3, <1>4 DEF RecordMethodEnter

LEMMA SqlEnterKeepsHookInv ==
  ASSUME HookInv, clock \in Nat, clock' = clock,
         NEW q \in Statements, RecordSqlEnter(q)
  PROVE  HookInv'
<1>1. q \in Ids
  BY DEF Ids
<1>2. stack' \in Seq(Frame) /\ FramesNested'
  BY <1>1, PushKeepsNesting DEF HookInv, HookTypes, RecordSqlEnter
<1>. QED
  BY <1>1, <1>2 DEF HookInv, HookTypes, RecordSqlEnter, CountInvocation, counters

LEMMA TraceEnterKeepsHookInv ==
  ASSUME HookInv, clock \in Nat, clock' = clock,
         NEW t \in Traced, RecordAllocationTraceEnter(t)
  PROVE  HookInv'
<1>1. t \in Ids
  BY DEF Ids
<1>2. stack' \in Seq(Frame) /\ FramesNested'
  BY <1>1, PushKeepsNesting DEF HookInv, HookTypes, RecordAllocationTraceEnter
<1>. QED
  BY <1>1, <1>2 DEF HookInv, HookTypes, RecordAllocationTraceEnter, counters, stats

\* The exit of an allocation boundary cuts the stack back.
LEMMA TraceExitIsPrefix ==
  ASSUME stack \in Seq(Frame), NEW t \in Traced, RecordAllocationTraceExit(t)
  PROVE  /\ stack' \in Seq(Frame)
         /\ Len(stack') <= Len(stack)
         /\ \A i \in 1 .. Len(stack') : stack'[i] = stack[i]
<1>1. CASE stack = <<>>
  BY <1>1, LenProperties DEF RecordAllocationTraceExit
<1>2. CASE stack # <<>>
  <2> DEFINE rest == Pop(stack)
  <2>1. /\ Len(stack) \in Nat \ {0}
        /\ rest \in Seq(Frame)
        /\ Len(rest) = Len(stack) - 1
        /\ DOMAIN rest = 1 .. Len(stack) - 1
        /\ \A i \in 1 .. Len(stack) - 1 : rest[i] = stack[i]
    BY <1>2, PopProperties
  <2>2. CASE stack' = rest
    BY <2>1, <2>2
  <2>3. ASSUME NEW n \in DOMAIN rest, stack' = SubSeq(rest, 1, n - 1)
        PROVE  /\ stack' \in Seq(Frame)
               /\ Len(stack') <= Len(stack)
               /\ \A i \in 1 .. Len(stack') : stack'[i] = stack[i]
    <3>. HIDE DEF rest
    <3>1. n \in 1 .. Len(stack) - 1 /\ 1 \in Int /\ n - 1 \in Int
      BY <2>1, <2>3
    <3>2. \A i \in 1 .. n - 1 : rest[i] \in Frame
      BY <2>1, <3>1, ElementOfSeq
    <3>3. /\ stack' \in Seq(Frame)
          /\ Len(stack') = IF 1 <= n - 1 THEN n - 1 - 1 + 1 ELSE 0
          /\ \A i \in 1 .. n - 1 - 1 + 1 : stack'[i] = rest[1 + i - 1]
      BY <2>3, <3>1, <3>2, SubSeqProperties
    <3>4. Len(stack') = n - 1 /\ \A i \in 1 .. n - 1 : stack'[i] = rest[i]
      BY <3>1, <3>3
    <3>. QED
      BY <2>1, <3>1, <3>3, <3>4
  <2>. QED
    BY <1>2, <2>2, <2>3 DEF RecordAllocationTraceExit, CutBack
<1>. QED
  BY <1>1, <1>2

LEMMA TraceExitKeepsHookInv ==
  ASSUME HookInv, clock \in Nat, clock' = clock,
         NEW t \in Traced, RecordAllocationTraceExit(t)
  PROVE  HookInv'
<1>1. stack \in Seq(Frame)
  BY DEF HookInv, HookTypes
<1>2. /\ stack' \in Seq(Frame)
      /\ Len(stack') <= Len(stack)
      /\ \A i \in 1 .. Len(stack') : stack'[i] = stack[i]
  BY <1>1, TraceExitIsPrefix
<1>3. FramesNested'
  BY <1>1, <1>2, PrefixKeepsNesting DEF HookInv, HookTypes
<1>4. dropped' \in Int
  <2>1. Charged(stack) \in Int /\ Charged(stack') \in Int
    BY <1>1, <1>2, ChargesType
  <2>. QED
    BY <2>1 DEF HookInv, HookTypes, RecordAllocationTraceExit
<1>. QED
  BY <1>2, <1>3, <1>4 DEF HookInv, HookTypes, RecordAllocationTraceExit, counters

LEMMA ExitKeepsHookInv ==
  ASSUME HookInv, clock \in Nat, clock' = clock,
         NEW id \in Ids, RecordExit(id)
  PROVE  HookInv'
<1>1. /\ stack \in Seq(Frame)
      /\ sampleCounter' \in Nat /\ samplingMode' \in BOOLEAN
      /\ \A n \in Nat : Lower(n) \in Nat
  BY DEF HookInv, HookTypes, RecordExit, Lower
<1>2. CASE CloseUnsampled
  BY <1>1, <1>2 DEF HookInv, HookTypes, FramesNested, TimedFrames, CloseUnsampled, stats
<1> DEFINE rest == Pop(stack)
           duration == clock - Top(stack).start
<1>3. ASSUME ClosesTop(id)
      PROVE  /\ Len(stack) \in Nat \ {0}
             /\ DOMAIN stack = 1 .. Len(stack)
             /\ Top(stack) = stack[Len(stack)] /\ Top(stack) \in Frame
             /\ rest \in Seq(Frame)
             /\ Len(rest) = Len(stack) - 1
             /\ DOMAIN rest = 1 .. Len(stack) - 1
             /\ \A i \in 1 .. Len(stack) - 1 : rest[i] = stack[i]
  BY <1>1, <1>3, PopProperties DEF ClosesTop, Top
<1>4. CASE ClosesTop(id) /\ CloseUntimedFrame
  <2>1. stack' = rest
    BY <1>4 DEF CloseUntimedFrame
  <2>2. /\ stack' \in Seq(Frame)
        /\ Len(stack') <= Len(stack)
        /\ \A i \in 1 .. Len(stack') : stack'[i] = stack[i]
    BY <1>3, <1>4, <2>1
  <2>3. FramesNested'
    BY <1>1, <2>2, PrefixKeepsNesting DEF HookInv
  <2>. QED
    BY <1>1, <1>4, <2>2, <2>3 DEF HookInv, HookTypes, CloseUntimedFrame, stats
<1>5. CASE ClosesTop(id) /\ Top(stack).start # 0 /\ CloseTimedFrame(id)
  <2>0. stack' = ChargeParent(rest, duration)
    BY <1>5 DEF CloseTimedFrame, Closed
  <2>1. \A i \in 1 .. Len(stack) : stack[i].start \in Nat /\ stack[i].child \in Int
    BY <1>1, FrameFields
  <2>2. Len(stack) \in TimedFrames /\ duration = clock - stack[Len(stack)].start
    BY <1>3, <1>5 DEF TimedFrames
  <2>. HIDE DEF rest, duration
  <2>3. stack[Len(stack)].child >= 0 /\ stack[Len(stack)].start + stack[Len(stack)].child <= clock
    BY <2>2 DEF HookInv, FramesNested
  <2>4. Len(stack) \in 1 .. Len(stack)
    BY <1>3, <1>5
  <2>5. duration \in Nat
    BY <2>1, <2>2, <2>3, <2>4
  <2>6. rest \in Seq(Frame) /\ duration \in Int
    BY <1>3, <1>5, <2>5
  <2>7. /\ stack' \in Seq(Frame)
        /\ DOMAIN stack' = 1 .. Len(stack) - 1
        /\ \A i \in 1 .. Len(stack) - 1 :
             /\ stack'[i].start = stack[i].start
             /\ stack'[i].child = IF i = Len(stack) - 1 THEN stack[i].child + duration
                                                        ELSE stack[i].child
    <3>1. /\ DOMAIN rest = 1 .. Len(stack) - 1 /\ Len(rest) = Len(stack) - 1
          /\ \A i \in 1 .. Len(stack) - 1 : rest[i] = stack[i]
      BY <1>3, <1>5
    <3>2. /\ stack' \in Seq(Frame)
          /\ DOMAIN stack' = DOMAIN rest
          /\ \A i \in DOMAIN rest :
               /\ stack'[i].start = rest[i].start
               /\ stack'[i].child = IF i = Len(rest) THEN rest[i].child + duration
                                                     ELSE rest[i].child
      BY <2>0, <2>6, ChargeParentProperties
    <3>. QED
      BY <3>1, <3>2
  <2>8. FramesNested'
    <3>1. \A i \in TimedFrames' : i \in TimedFrames /\ i \in 1 .. Len(stack) - 1
      <4>1. DOMAIN stack = 1 .. Len(stack) /\ Len(stack) \in Nat
        BY <1>3, <1>5
      <4>2. ASSUME NEW i \in DOMAIN stack', stack'[i].start # 0
            PROVE  i \in DOMAIN stack /\ stack[i].start # 0 /\ i \in 1 .. Len(stack) - 1
        <5>1. i \in 1 .. Len(stack) - 1
          BY <2>7, <4>2, Zenon
        <5>2. stack'[i].start = stack[i].start
          BY <2>7, <5>1, Zenon
        <5>. QED
          BY <4>1, <4>2, <5>1, <5>2
      <4>. QED
        BY <4>2 DEF TimedFrames
    <3>2. ASSUME NEW i \in TimedFrames'
          PROVE  /\ stack[i].child >= 0
                 /\ stack[i].start + stack[i].child <= stack[Len(stack)].start
      <4>1. i \in TimedFrames /\ i < Len(stack)
        BY <1>3, <1>5, <3>1
      <4>. QED
        BY <2>2, <4>1 DEF HookInv, FramesNested
    <3>3. ASSUME NEW i \in TimedFrames'
          PROVE  /\ stack'[i].child >= 0
                 /\ stack'[i].start + stack'[i].child <= clock
      <4>1. /\ i \in 1 .. Len(stack) - 1
            /\ stack[i].start \in Nat /\ stack[i].child \in Int
            /\ stack[Len(stack)].start \in Nat /\ stack[Len(stack)].child \in Int
        BY <1>3, <1>5, <2>1, <2>4, <3>1
      <4>2. /\ stack'[i].start = stack[i].start
            /\ stack'[i].child = stack[i].child \/ stack'[i].child = stack[i].child + duration
        BY <2>7, <4>1
      <4>3. duration = clock - stack[Len(stack)].start
        BY <2>2
      <4>4. stack[i].child + duration >= 0 /\ stack[i].start + (stack[i].child + duration) <= clock
        <5>1. stack[i].child >= 0 /\ stack[i].start + stack[i].child <= stack[Len(stack)].start
          BY <3>2
        <5>2. PICK a \in Nat, c \in Int, b \in Nat :
                a = stack[i].start /\ c = stack[i].child /\ b = stack[Len(stack)].start
          BY <4>1, Zenon
        <5>3. c >= 0 /\ a + c <= b /\ duration = clock - b
          BY <4>3, <5>1, <5>2, Zenon
        <5>4. c + duration >= 0 /\ a + (c + duration) <= clock
          BY <2>5, <5>3
        <5>. QED
          BY <5>2, <5>4, Zenon
      <4>5. stack[i].start + stack[i].child <= clock
        BY <2>3, <3>2, <4>1
      <4>6. CASE stack'[i].child = stack[i].child
        BY <3>2, <4>2, <4>5, <4>6, Zenon
      <4>7. CASE stack'[i].child = stack[i].child + duration
        BY <4>2, <4>4, <4>7, Zenon
      <4>. QED
        BY <4>2, <4>6, <4>7
    <3>4. ASSUME NEW i \in TimedFrames', NEW j \in TimedFrames', i < j
          PROVE  stack'[i].start + stack'[i].child <= stack'[j].start
      <4>1. stack[i].start + stack[i].child <= stack[j].start
        BY <3>1, <3>4 DEF HookInv, FramesNested
      <4>2. i # Len(stack) - 1
        BY <1>3, <1>5, <3>1, <3>4
      <4>. QED
        BY <2>7, <3>1, <4>1, <4>2
    <3>. QED
      BY <3>3, <3>4 DEF FramesNested
  <2>9. self' \in [Ids -> Nat] /\ total' \in [Ids -> Nat]
    <3> DEFINE own == IF Top(stack).subtract THEN duration - Top(stack).child ELSE duration
    <3>1. (IF own < 0 THEN 0 ELSE own) \in Nat
      BY <1>3, <1>5, <2>1, <2>4, <2>5
    <3>2. /\ self' = [self EXCEPT ![id] = @ + (IF own < 0 THEN 0 ELSE own)]
          /\ total' = [total EXCEPT ![id] = @ + duration]
      BY <1>5 DEF CloseTimedFrame, duration
    <3>. HIDE DEF own
    <3>. QED
      BY <2>5, <3>1, <3>2 DEF HookInv, HookTypes
  <2>10. dropped' \in Int
    BY <1>5, <2>5 DEF HookInv, HookTypes, CloseTimedFrame, Swallowed, duration
  <2>. QED
    BY <1>1, <1>5, <2>7, <2>8, <2>9, <2>10 DEF HookInv, HookTypes, CloseTimedFrame
<1>. QED
  BY <1>2, <1>4, <1>5 DEF RecordExit

LEMMA NoHookKeepsHookInv ==
  ASSUME HookInv, clock' = clock, NoHook
  PROVE  HookInv'
  BY DEF HookInv, HookTypes, FramesNested, TimedFrames, NoHook, counters, stats

----------------------------------------------------------------------------
(* The inductive invariant of part 1 and the steps that keep it.           *)

IInv == TypeOK /\ FramesNested

AgentTypes ==
  /\ recording \in BOOLEAN /\ instrumented \in BOOLEAN
  /\ control \in {"idle", "start_reset", "start_retransform", "start_calibrate",
                   "stop_flag", "stop_restore"}
  /\ clock \in Nat
  /\ ownTime \in [Ids -> Nat] /\ lasted \in [Ids -> Nat]

LEMMA IInvParts == IInv <=> calls \in Seq(Call) /\ HookInv /\ AgentTypes
  BY DEF IInv, TypeOK, HookInv, HookTypes, AgentTypes

LEMMA IInvPartsNext == IInv' <=> calls' \in Seq(Call) /\ HookInv' /\ AgentTypes'
  BY DEF IInv, TypeOK, HookInv, HookTypes, AgentTypes, FramesNested, TimedFrames

LEMMA CallTop ==
  ASSUME calls \in Seq(Call), calls # <<>>
  PROVE  Pop(calls) \in Seq(Call) /\ Top(calls).id \in Ids
<1>1. Pop(calls) \in Seq(Call) /\ Top(calls) \in Call
  BY PopProperties
<1>. QED
  BY <1>1 DEF Call

LEMMA CallPushed ==
  ASSUME calls \in Seq(Call), NEW id \in Ids, NEW hooked \in BOOLEAN
  PROVE  Append(calls, [id |-> id, hooked |-> hooked]) \in Seq(Call)
<1>1. [id |-> id, hooked |-> hooked] \in Call
  BY DEF Call
<1>. QED
  BY <1>1, AppendDomain

\* Time only passes for the calls in progress, so every count stays a number.
LEMMA TickKeepsIInv == IInv /\ Tick => IInv'
<1>. SUFFICES ASSUME IInv, Tick PROVE IInv'
  OBVIOUS
<1>1. calls \in Seq(Call) /\ HookInv /\ AgentTypes
  BY IInvParts
<1>2. ASSUME NEW id \in Ids
      PROVE  Cardinality(CallsOf(id)) \in Nat /\ Cardinality(CallsOf(id) \cap Running) \in Nat
  <2>1. IsFiniteSet(DOMAIN calls)
    BY <1>1, LenProperties, FS_Interval
  <2>2. CallsOf(id) \subseteq DOMAIN calls /\ CallsOf(id) \cap Running \subseteq DOMAIN calls
    BY DEF CallsOf
  <2>3. IsFiniteSet(CallsOf(id)) /\ IsFiniteSet(CallsOf(id) \cap Running)
    BY <2>1, <2>2, FS_Subset
  <2>. QED
    BY <2>3, FS_CardinalityType
<1>3. ownTime' \in [Ids -> Nat]
  <2>1. ASSUME NEW id \in Ids PROVE ownTime[id] + Cardinality(CallsOf(id) \cap Running) \in Nat
    <3>1. PICK a \in Nat, b \in Nat :
            a = ownTime[id] /\ b = Cardinality(CallsOf(id) \cap Running)
      BY <1>1, <1>2, Zenon DEF AgentTypes
    <3>. QED
      BY <3>1
  <2>. QED
    BY <2>1 DEF Tick
<1>4. lasted' \in [Ids -> Nat]
  <2>1. ASSUME NEW id \in Ids PROVE lasted[id] + Cardinality(CallsOf(id)) \in Nat
    <3>1. PICK a \in Nat, b \in Nat : a = lasted[id] /\ b = Cardinality(CallsOf(id))
      BY <1>1, <1>2, Zenon DEF AgentTypes
    <3>. QED
      BY <3>1
  <2>. QED
    BY <2>1 DEF Tick
<1>5. clock' \in Nat /\ clock' = clock + 1
  BY <1>1 DEF Tick, AgentTypes
<1>6. FramesNested'
  <2>1. stack' = stack /\ TimedFrames' = TimedFrames
    BY DEF Tick, NoHook, TimedFrames
  <2>2. \A i \in TimedFrames : stack[i].start \in Nat /\ stack[i].child \in Int
    <3>1. DOMAIN stack = 1 .. Len(stack)
      BY <1>1, LenProperties DEF HookInv, HookTypes
    <3>. QED
      BY <1>1, <3>1, FrameFields DEF HookInv, HookTypes, TimedFrames
  <2>3. \A i \in TimedFrames : stack[i].start + stack[i].child <= clock + 1
    <3>1. ASSUME NEW i \in TimedFrames
          PROVE  stack[i].start + stack[i].child <= clock + 1
      <4>1. stack[i].start + stack[i].child <= clock
        BY <1>1 DEF HookInv, FramesNested
      <4>. QED
        BY <1>1, <2>2, <4>1 DEF AgentTypes
    <3>. QED
      BY <3>1
  <2>. QED
    BY <1>1, <1>5, <2>1, <2>3 DEF HookInv, FramesNested
<1>7. HookTypes'
  BY <1>1 DEF HookInv, HookTypes, Tick, NoHook, counters, stats
<1>8. calls' \in Seq(Call) /\ AgentTypes'
  BY <1>1, <1>3, <1>4, <1>5 DEF AgentTypes, Tick, AgentElsewhere
<1>. QED
  BY <1>6, <1>7, <1>8, IInvPartsNext DEF HookInv

LEMMA CallStepKeepsIInv == IInv /\ CallNext => IInv'
<1>. SUFFICES ASSUME IInv, CallNext PROVE IInv'
  OBVIOUS
<1>1. calls \in Seq(Call) /\ HookInv /\ AgentTypes
  BY IInvParts
<1>2. instrumented \in BOOLEAN /\ clock \in Nat
  BY <1>1 DEF AgentTypes
<1>3. ASSUME AgentElsewhere, UNCHANGED history
      PROVE  AgentTypes' /\ clock' = clock
  BY <1>1, <1>3 DEF AgentTypes, AgentElsewhere, history
<1>4. ASSUME NEW m \in Methods, EnterMethod(m) PROVE IInv'
  <2>1. calls' \in Seq(Call)
    BY <1>1, <1>2, <1>4, CallPushed DEF EnterMethod, Ids
  <2>2. AgentTypes' /\ clock' = clock
    BY <1>3, <1>4 DEF EnterMethod
  <2>3. HookInv'
    BY <1>1, <1>2, <1>4, <2>2, EnterKeepsHookInv, NoHookKeepsHookInv DEF EnterMethod
  <2>. QED
    BY <2>1, <2>2, <2>3, IInvPartsNext
<1>5. ASSUME ExitMethod PROVE IInv'
  <2>1. calls' \in Seq(Call) /\ Top(calls).id \in Ids
    BY <1>1, <1>5, CallTop DEF ExitMethod
  <2>2. AgentTypes' /\ clock' = clock
    BY <1>3, <1>5 DEF ExitMethod
  <2>3. HookInv'
    BY <1>1, <1>2, <1>5, <2>1, <2>2, ExitKeepsHookInv, NoHookKeepsHookInv DEF ExitMethod
  <2>. QED
    BY <2>1, <2>2, <2>3, IInvPartsNext
<1>6. ASSUME NEW t \in Traced, EnterTraced(t) PROVE IInv'
  <2>1. calls' \in Seq(Call)
    BY <1>1, <1>2, <1>6, CallPushed DEF EnterTraced, Ids
  <2>2. AgentTypes' /\ clock' = clock
    BY <1>3, <1>6 DEF EnterTraced
  <2>3. HookInv'
    BY <1>1, <1>2, <1>6, <2>2, TraceEnterKeepsHookInv, NoHookKeepsHookInv DEF EnterTraced
  <2>. QED
    BY <2>1, <2>2, <2>3, IInvPartsNext
<1>7. ASSUME ExitTraced PROVE IInv'
  <2>1. calls' \in Seq(Call) /\ Top(calls).id \in Traced
    BY <1>1, <1>7, CallTop DEF ExitTraced
  <2>2. AgentTypes' /\ clock' = clock
    BY <1>3, <1>7 DEF ExitTraced
  <2>3. HookInv'
    BY <1>1, <1>2, <1>7, <2>1, <2>2, TraceExitKeepsHookInv, NoHookKeepsHookInv DEF ExitTraced
  <2>. QED
    BY <2>1, <2>2, <2>3, IInvPartsNext
<1>8. ASSUME NEW enabled \in BOOLEAN, SetSamplingMode(enabled) PROVE IInv'
  <2>1. HookInv'
    BY <1>1, <1>8 DEF SetSamplingMode, HookInv, HookTypes, FramesNested, TimedFrames, counters,
                      stats, history
  <2>2. calls' \in Seq(Call) /\ AgentTypes'
    BY <1>1, <1>8 DEF SetSamplingMode, AgentTypes, history
  <2>. QED
    BY <2>1, <2>2, IInvPartsNext
<1>. QED
  BY <1>4, <1>5, <1>6, <1>7, <1>8, TickKeepsIInv DEF CallNext

LEMMA SqlStepKeepsIInv == IInv /\ SqlNext => IInv'
<1>. SUFFICES ASSUME IInv, SqlNext PROVE IInv'
  OBVIOUS
<1>1. calls \in Seq(Call) /\ HookInv /\ AgentTypes /\ clock \in Nat
  BY IInvParts DEF AgentTypes
<1>2. ASSUME AgentElsewhere, UNCHANGED history
      PROVE  AgentTypes' /\ clock' = clock
  BY <1>1, <1>2 DEF AgentTypes, AgentElsewhere, history
<1>3. ASSUME NEW q \in Statements, EnterSql(q) PROVE IInv'
  <2>1. calls' \in Seq(Call)
    BY <1>1, <1>3, CallPushed DEF EnterSql, Ids
  <2>2. AgentTypes' /\ clock' = clock
    BY <1>2, <1>3 DEF EnterSql
  <2>3. HookInv'
    BY <1>1, <1>3, <2>2, SqlEnterKeepsHookInv, NoHookKeepsHookInv DEF EnterSql
  <2>. QED
    BY <2>1, <2>2, <2>3, IInvPartsNext
<1>4. ASSUME ExitSql PROVE IInv'
  <2>1. calls' \in Seq(Call) /\ Top(calls).id \in Ids
    BY <1>1, <1>4, CallTop DEF ExitSql
  <2>2. AgentTypes' /\ clock' = clock
    BY <1>2, <1>4 DEF ExitSql
  <2>3. HookInv'
    BY <1>1, <1>4, <2>1, <2>2, ExitKeepsHookInv, NoHookKeepsHookInv DEF ExitSql
  <2>. QED
    BY <2>1, <2>2, <2>3, IInvPartsNext
<1>. QED
  BY <1>3, <1>4 DEF SqlNext

\* A reset forgets the statistics but neither the frames nor the calls.
LEMMA DisturbStepKeepsIInv == IInv /\ DisturbNext => IInv'
<1>. SUFFICES ASSUME IInv, DisturbNext PROVE IInv'
  OBVIOUS
<1>1. calls \in Seq(Call) /\ HookInv /\ AgentTypes /\ clock \in Nat
  BY IInvParts DEF AgentTypes
<1>2. ASSUME AgentElsewhere, UNCHANGED history
      PROVE  AgentTypes' /\ clock' = clock
  BY <1>1, <1>2 DEF AgentTypes, AgentElsewhere, history
<1>3. CASE Unwind
  <2>1. calls' \in Seq(Call)
    BY <1>1, <1>3, CallTop DEF Unwind
  <2>2. AgentTypes' /\ clock' = clock
    BY <1>2, <1>3 DEF Unwind
  <2>3. HookInv'
    BY <1>1, <1>3, <2>2, NoHookKeepsHookInv DEF Unwind
  <2>. QED
    BY <2>1, <2>2, <2>3, IInvPartsNext
<1>4. CASE ThrowCaught
  <2>1. calls' = calls /\ UNCHANGED history
    BY <1>4 DEF ThrowCaught, history
  <2>2. AgentTypes' /\ clock' = clock
    BY <1>2, <1>4, <2>1 DEF ThrowCaught
  <2>3. Top(calls).id \in Ids
    BY <1>4 DEF ThrowCaught, Ids
  <2>4. HookInv'
    BY <1>1, <1>4, <2>2, <2>3, ExitKeepsHookInv DEF ThrowCaught
  <2>. QED
    BY <1>1, <2>1, <2>2, <2>4, IInvPartsNext
<1>5. ASSUME NEW from, NEW to, AgentStep(from, to), UNCHANGED stack
      PROVE  calls' \in Seq(Call) /\ UNCHANGED history /\ FramesNested'
  BY <1>1, <1>5 DEF AgentStep, HookInv, FramesNested, TimedFrames, history
<1>6. CASE StartReset \/ StartCalibrate
  <2>1. ResetStatistics
    BY <1>6 DEF StartReset, StartCalibrate
  <2>2. PICK from, to : AgentStep(from, to) /\ to \in {"start_retransform", "start_calibrate", "idle"}
    BY <1>6 DEF StartReset, StartCalibrate
  <2>3. Zero \in [Ids -> Nat]
    BY DEF Zero
  <2>4. HookTypes'
    BY <1>1, <2>1, <2>3 DEF ResetStatistics, HookInv, HookTypes
  <2>5. AgentTypes'
    BY <1>1, <2>1, <2>2 DEF ResetStatistics, AgentStep, AgentTypes, history
  <2>6. calls' \in Seq(Call) /\ FramesNested'
    BY <1>5, <2>1, <2>2 DEF ResetStatistics
  <2>. QED
    BY <2>4, <2>5, <2>6, IInvPartsNext DEF HookInv
<1>7. CASE StartRetransform
  <2>1. PICK to : AgentStep("start_retransform", to) /\ to \in {"start_calibrate", "idle"}
    BY <1>7 DEF StartRetransform
  <2>2. HookTypes'
    BY <1>1, <1>7 DEF StartRetransform, HookInv, HookTypes, counters, stats
  <2>3. AgentTypes'
    BY <1>1, <1>7, <2>1 DEF StartRetransform, AgentStep, AgentTypes, history
  <2>4. calls' \in Seq(Call) /\ FramesNested'
    BY <1>5, <1>7, <2>1 DEF StartRetransform
  <2>. QED
    BY <2>2, <2>3, <2>4, IInvPartsNext DEF HookInv
<1>8. CASE StartFlag \/ StopSampling \/ StopFlag \/ StopRestore
  <2>1. HookTypes'
    BY <1>1, <1>8 DEF StartFlag, StopSampling, StopFlag, StopRestore,
                      HookInv, HookTypes, counters, stats
  <2>2. AgentTypes'
    BY <1>1, <1>8 DEF StartFlag, StopSampling, StopFlag, StopRestore,
                      AgentStep, AgentTypes, history
  <2>3. calls' \in Seq(Call) /\ FramesNested'
    BY <1>5, <1>8 DEF StartFlag, StopSampling, StopFlag, StopRestore
  <2>. QED
    BY <2>1, <2>2, <2>3, IInvPartsNext DEF HookInv
<1>. QED
  BY <1>3, <1>4, <1>6, <1>7, <1>8 DEF DisturbNext

LEMMA InitIInv == Init => IInv
<1>1. Zero \in [Ids -> Nat]
  BY DEF Zero
<1>2. Init => TypeOK
  BY <1>1, HooksAssumption, EmptySeq DEF Init, TypeOK
<1>3. Init => FramesNested
  BY EmptySeq DEF Init, FramesNested, TimedFrames
<1>. QED
  BY <1>2, <1>3 DEF IInv

\* The profiler's state keeps its types: no counter goes negative and no
\* recorded time does, across exceptions, stops and restarts.
THEOREM TypesHold == Spec => []TypeOK
<1>1. IInv /\ UNCHANGED vars => IInv'
  BY DEF IInv, TypeOK, FramesNested, TimedFrames, vars, counters, stats, agent, history
<1>2. IInv /\ [CallNext \/ SqlNext \/ DisturbNext]_vars => IInv'
  BY <1>1, CallStepKeepsIInv, SqlStepKeepsIInv, DisturbStepKeepsIInv
<1>3. IInv => TypeOK
  BY DEF IInv
<1>. QED
  BY InitIInv, <1>2, <1>3, PTL DEF Spec

\* Frames stay nested in time (Profiler.recordExit 666-688), so the clamp of
\* self time to zero never hides a negative value.
THEOREM NestingHolds == Spec => []FramesNested
<1>1. IInv /\ UNCHANGED vars => IInv'
  BY DEF IInv, TypeOK, FramesNested, TimedFrames, vars, counters, stats, agent, history
<1>2. IInv /\ [CallNext \/ SqlNext \/ DisturbNext]_vars => IInv'
  BY <1>1, CallStepKeepsIInv, SqlStepKeepsIInv, DisturbStepKeepsIInv
<1>3. IInv => FramesNested
  BY DEF IInv
<1>. QED
  BY InitIInv, <1>2, <1>3, PTL DEF Spec

----------------------------------------------------------------------------
(* The balance.                                                            *)

\* One recording, no statements: every call in progress has the hooks.
OneRecording ==
  /\ recording /\ instrumented
  /\ \A k \in DOMAIN calls : calls[k].hooked /\ calls[k].id \in Methods \cup Traced

BalanceInv == IInv /\ OneRecording /\ Balanced

----------------------------------------------------------------------------
(* Assignments of frames to calls.                                         *)

LEMMA Domains ==
  ASSUME calls \in Seq(Call), stack \in Seq(Frame)
  PROVE  /\ Len(calls) \in Nat /\ DOMAIN calls = 1..Len(calls)
         /\ Len(stack) \in Nat /\ DOMAIN stack = 1..Len(stack)
         /\ \A k \in DOMAIN calls : calls[k].id \in Ids
         /\ \A i \in DOMAIN stack : stack[i].id \in Ids
<1>1. /\ Len(calls) \in Nat /\ DOMAIN calls = 1..Len(calls)
      /\ Len(stack) \in Nat /\ DOMAIN stack = 1..Len(stack)
  BY LenProperties
<1>2. /\ \A k \in 1..Len(calls) : calls[k] \in Call
      /\ \A i \in 1..Len(stack) : stack[i] \in Frame
  BY ElementOfSeq
<1>. QED
  BY <1>1, <1>2 DEF Call, Frame

LEMMA FiniteParts ==
  ASSUME calls \in Seq(Call), stack \in Seq(Frame)
  PROVE  /\ IsFiniteSet(Timed) /\ Cardinality(Timed) \in Nat
         /\ \A match : IsFiniteSet(Untimed(match)) /\ Cardinality(Untimed(match)) \in Nat
<1>1. IsFiniteSet(DOMAIN stack) /\ IsFiniteSet(DOMAIN calls)
  BY Domains, FS_Interval
<1>2. Timed \in SUBSET DOMAIN stack /\ \A match : Untimed(match) \in SUBSET DOMAIN calls
  BY DEF Timed, Untimed
<1>. QED
  BY <1>1, <1>2, FS_Subset, FS_CardinalityType

\* The frame on top is that of the innermost call, or this one has none.
LEMMA LastMatch ==
  ASSUME calls \in Seq(Call), stack \in Seq(Frame), calls # <<>>, NEW match, Embeds(match)
  PROVE  \/ Len(calls) \in Untimed(match)
         \/ /\ stack # <<>> /\ match[Len(stack)] = Len(calls)
            /\ Top(stack).id = Top(calls).id
<1>1. Len(calls) \in Nat \ {0} /\ DOMAIN calls = 1..Len(calls)
  BY PopProperties
<1>2. ASSUME NEW i \in DOMAIN stack, match[i] = Len(calls) PROVE i = Len(stack)
  <2>1. /\ i \in 1..Len(stack) /\ Len(stack) \in DOMAIN stack /\ Len(stack) \in Nat
        /\ match[Len(stack)] \in 1..Len(calls)
    BY <1>1, <1>2, Domains DEF Embeds
  <2>2. i < Len(stack) => match[i] < match[Len(stack)]
    BY <2>1 DEF Embeds
  <2>. QED
    BY <1>1, <1>2, <2>1, <2>2
<1>3. CASE \E i \in DOMAIN stack : match[i] = Len(calls)
  <2>1. PICK i \in DOMAIN stack : match[i] = Len(calls)
    BY <1>3
  <2>2. i = Len(stack) /\ stack # <<>>
    BY <1>2, <2>1, Domains, EmptySeq
  <2>. QED
    BY <2>1, <2>2 DEF Embeds, Top
<1>4. CASE \A i \in DOMAIN stack : match[i] # Len(calls)
  BY <1>1, <1>4 DEF Untimed
<1>. QED
  BY <1>3, <1>4

LEMMA PushBoth ==
  ASSUME calls \in Seq(Call), stack \in Seq(Frame), NEW match, Embeds(match),
         NEW c \in Call, NEW f \in Frame, f.id = c.id,
         calls' = Append(calls, c), stack' = Append(stack, f)
  PROVE  \E next \in [DOMAIN stack' -> DOMAIN calls'] :
           Embeds(next)' /\ Untimed(next)' = Untimed(match)
<1> DEFINE n == Len(stack) + 1
<1>0. PICK next : next = [i \in 1..n |-> IF i = n THEN Len(calls) + 1 ELSE match[i]]
  OBVIOUS
<1>1. /\ Len(calls) \in Nat /\ DOMAIN calls = 1..Len(calls)
      /\ DOMAIN calls' = 1..(Len(calls) + 1)
      /\ \A k \in DOMAIN calls : calls'[k] = calls[k]
      /\ calls'[Len(calls) + 1] = c
  BY AppendDomain
<1>2. /\ Len(stack) \in Nat /\ DOMAIN stack = 1..Len(stack) /\ DOMAIN stack' = 1..n
      /\ \A i \in DOMAIN stack : stack'[i] = stack[i]
      /\ stack'[n] = f
  BY AppendDomain
<1>3. \A i \in DOMAIN stack : next[i] = match[i] /\ match[i] \in 1..Len(calls) /\ i # n
  BY <1>0, <1>1, <1>2 DEF Embeds
<1>4. next[n] = Len(calls) + 1 /\ n \in DOMAIN stack' /\ DOMAIN stack' = DOMAIN stack \cup {n}
  BY <1>0, <1>2
<1>5. next \in [DOMAIN stack' -> DOMAIN calls']
  <2>1. ASSUME NEW i \in DOMAIN stack' PROVE next[i] \in DOMAIN calls'
    <3>1. CASE i = n
      BY <1>1, <1>4, <3>1
    <3>2. CASE i # n
      BY <1>1, <1>3, <1>4, <3>2
    <3>. QED
      BY <3>1, <3>2
  <2>. QED
    BY <1>0, <1>2, <2>1
<1>6. \A i, j \in DOMAIN stack' : i < j => next[i] < next[j]
  <2>. SUFFICES ASSUME NEW i \in DOMAIN stack', NEW j \in DOMAIN stack', i < j
                PROVE  next[i] < next[j]
    OBVIOUS
  <2>1. i \in DOMAIN stack
    BY <1>2
  <2>2. CASE j = n
    BY <1>1, <1>3, <1>4, <2>1, <2>2
  <2>3. CASE j # n
    BY <1>3, <1>4, <2>1, <2>3 DEF Embeds
  <2>. QED
    BY <2>2, <2>3
<1>7. \A i \in DOMAIN stack' : calls'[next[i]].id = stack'[i].id
  BY <1>1, <1>2, <1>3, <1>4 DEF Embeds
<1>8. \A k \in DOMAIN calls' : calls'[k].id \in Traced => \E i \in DOMAIN stack' : next[i] = k
  <2>. SUFFICES ASSUME NEW k \in DOMAIN calls', calls'[k].id \in Traced
                PROVE  \E i \in DOMAIN stack' : next[i] = k
    OBVIOUS
  <2>1. CASE k = Len(calls) + 1
    BY <1>4, <2>1
  <2>2. CASE k # Len(calls) + 1
    <3>1. k \in DOMAIN calls /\ calls[k].id \in Traced
      BY <1>1, <2>2
    <3>. QED
      BY <1>3, <1>4, <3>1 DEF Embeds
  <2>. QED
    BY <2>1, <2>2
<1>9. Untimed(next)' = Untimed(match)
  <2>1. \A k \in DOMAIN calls' :
          (\A i \in DOMAIN stack' : next[i] # k) <=> k \in Untimed(match)
    <3>. SUFFICES ASSUME NEW k \in DOMAIN calls'
                  PROVE  (\A i \in DOMAIN stack' : next[i] # k) <=> k \in Untimed(match)
      OBVIOUS
    <3>1. CASE k = Len(calls) + 1
      BY <1>1, <1>4, <3>1 DEF Untimed
    <3>2. CASE k # Len(calls) + 1
      <4>1. k \in DOMAIN calls
        BY <1>1, <3>2
      <4>. QED
        BY <1>3, <1>4, <3>2, <4>1 DEF Untimed
    <3>. QED
      BY <3>1, <3>2
  <2>2. \A k \in Untimed(match) : k \in DOMAIN calls'
    BY <1>1 DEF Untimed
  <2>. QED
    BY <2>1, <2>2 DEF Untimed
<1>. QED
  BY <1>5, <1>6, <1>7, <1>8, <1>9 DEF Embeds

\* A method that is not sampled: a call without a frame.
LEMMA PushCall ==
  ASSUME calls \in Seq(Call), stack \in Seq(Frame), NEW match, Embeds(match),
         NEW c \in Call, c.id \notin Traced, calls' = Append(calls, c), stack' = stack
  PROVE  /\ match \in [DOMAIN stack' -> DOMAIN calls'] /\ Embeds(match)'
         /\ Untimed(match)' = Untimed(match) \cup {Len(calls) + 1}
         /\ Len(calls) + 1 \notin Untimed(match)
<1>1. /\ Len(calls) \in Nat /\ DOMAIN calls = 1..Len(calls)
      /\ DOMAIN calls' = DOMAIN calls \cup {Len(calls) + 1}
      /\ Len(calls) + 1 \notin DOMAIN calls
      /\ \A k \in DOMAIN calls : calls'[k] = calls[k]
      /\ calls'[Len(calls) + 1] = c
  BY AppendDomain
<1>2. \A i \in DOMAIN stack : match[i] \in DOMAIN calls /\ match[i] # Len(calls) + 1
  BY <1>1 DEF Embeds
<1>3. match \in [DOMAIN stack' -> DOMAIN calls']
  BY <1>1 DEF Embeds
<1>4. Embeds(match)'
  BY <1>1, <1>2, <1>3 DEF Embeds
<1>5. Untimed(match)' = Untimed(match) \cup {Len(calls) + 1}
  BY <1>1, <1>2 DEF Untimed
<1>. QED
  BY <1>1, <1>3, <1>4, <1>5 DEF Untimed

\* A call without a frame returns.
LEMMA PopCall ==
  ASSUME calls \in Seq(Call), stack \in Seq(Frame), NEW match, Embeds(match),
         calls # <<>>, Len(calls) \in Untimed(match), calls' = Pop(calls), stack' = stack
  PROVE  /\ match \in [DOMAIN stack' -> DOMAIN calls'] /\ Embeds(match)'
         /\ Untimed(match)' = Untimed(match) \ {Len(calls)}
<1>1. /\ Len(calls) \in Nat \ {0} /\ DOMAIN calls = 1..Len(calls)
      /\ DOMAIN calls' = 1..(Len(calls) - 1)
      /\ \A k \in DOMAIN calls' : calls'[k] = calls[k]
  BY PopProperties
<1>2. \A i \in DOMAIN stack : match[i] \in DOMAIN calls'
  BY <1>1 DEF Embeds, Untimed
<1>3. match \in [DOMAIN stack' -> DOMAIN calls']
  BY <1>2 DEF Embeds
<1>4. Embeds(match)'
  BY <1>1, <1>2, <1>3 DEF Embeds
<1>5. Untimed(match)' = Untimed(match) \ {Len(calls)}
  <2>1. \A k : k \in DOMAIN calls' <=> k \in DOMAIN calls /\ k # Len(calls)
    BY <1>1
  <2>. QED
    BY <2>1 DEF Untimed
<1>. QED
  BY <1>3, <1>4, <1>5

\* The innermost call returns and the frame on top goes, its own or one of an
\* outer call of the same id: as many calls as before are without a frame.
LEMMA PopBoth ==
  ASSUME calls \in Seq(Call), stack \in Seq(Frame), NEW match, Embeds(match),
         calls # <<>>, stack # <<>>, Top(stack).id = Top(calls).id, calls' = Pop(calls),
         stack' \in Seq(Frame), Len(stack') = Len(stack) - 1,
         \A i \in 1..Len(stack') : stack'[i].id = stack[i].id
  PROVE  \E next \in [DOMAIN stack' -> DOMAIN calls'] :
           Embeds(next)' /\ Cardinality(Untimed(next)') = Cardinality(Untimed(match))
<1> DEFINE n == Len(stack)
           last == Len(calls)
<1>0. PICK next : next = [i \in 1..(n - 1) |-> match[i]]
  OBVIOUS
<1>1. /\ last \in Nat \ {0} /\ DOMAIN calls = 1..last /\ DOMAIN calls' = 1..(last - 1)
      /\ \A k \in DOMAIN calls' : calls'[k] = calls[k]
  BY PopProperties
<1>2. /\ n \in Nat \ {0} /\ DOMAIN stack = 1..n /\ DOMAIN stack' = 1..(n - 1)
      /\ \A i \in DOMAIN stack' : stack'[i].id = stack[i].id
  BY PopProperties, LenProperties, SMTT(30)
<1>3. /\ match[n] \in 1..last /\ calls[match[n]].id = Top(stack).id
      /\ \A i \in DOMAIN stack' : match[i] \in 1..last /\ match[i] < match[n]
  BY <1>1, <1>2 DEF Embeds, Top
<1>4. \A i \in DOMAIN stack' : next[i] = match[i] /\ next[i] \in DOMAIN calls' /\ i \in DOMAIN stack
  BY <1>0, <1>1, <1>2, <1>3
<1>5. next \in [DOMAIN stack' -> DOMAIN calls']
  BY <1>0, <1>2, <1>4
<1>6. match[n] = last \/ (last \in Untimed(match) /\ Top(stack).id \notin Traced)
  <2>1. CASE last \in Untimed(match)
    <3>1. calls[last].id \notin Traced
      BY <1>1, <2>1 DEF Embeds, Untimed
    <3>. QED
      BY <2>1, <3>1 DEF Top
  <2>. QED
    BY <2>1, LastMatch
<1>7. Embeds(next)'
  <2>1. \A i, j \in DOMAIN stack' : i < j => next[i] < next[j]
    BY <1>4 DEF Embeds
  <2>2. \A i \in DOMAIN stack' : calls'[next[i]].id = stack'[i].id
    BY <1>1, <1>2, <1>4 DEF Embeds
  <2>3. ASSUME NEW k \in DOMAIN calls', calls'[k].id \in Traced
        PROVE  \E i \in DOMAIN stack' : next[i] = k
    <3>1. k \in DOMAIN calls /\ k # last /\ calls[k].id \in Traced
      BY <1>1, <2>3
    <3>2. PICK i \in DOMAIN stack : match[i] = k
      BY <3>1 DEF Embeds
    <3>3. i # n
      BY <1>3, <1>6, <3>1, <3>2
    <3>. QED
      BY <1>2, <1>4, <3>2, <3>3
  <2>. QED
    BY <1>5, <2>1, <2>2, <2>3 DEF Embeds
<1>8. /\ DOMAIN calls = DOMAIN calls' \cup {last} /\ last \notin DOMAIN calls'
      /\ DOMAIN stack = DOMAIN stack' \cup {n}
  BY <1>1, <1>2
<1>9. IsFiniteSet(Untimed(match)) /\ Cardinality(Untimed(match)) \in Nat
  BY FiniteParts
<1>10. CASE match[n] = last
  <2>1. \A k \in DOMAIN calls' :
          (\A i \in DOMAIN stack' : next[i] # k) <=> (\A i \in DOMAIN stack : match[i] # k)
    BY <1>4, <1>8, <1>10
  <2>2. \A k \in DOMAIN calls : k \in Untimed(match) => k # last
    BY <1>8, <1>10 DEF Untimed
  <2>3. Untimed(next)' = Untimed(match)
    <3>1. \A k : k \in Untimed(match) =>
                   k \in DOMAIN calls' /\ \A i \in DOMAIN stack : match[i] # k
      BY <1>8, <2>2 DEF Untimed
    <3>2. \A k \in DOMAIN calls' : k \in Untimed(match) <=> k \in Untimed(next)'
      BY <1>8, <2>1 DEF Untimed
    <3>3. \A k : k \in Untimed(next)' => k \in DOMAIN calls'
      BY DEF Untimed
    <3>. QED
      BY <3>1, <3>2, <3>3
  <2>. QED
    BY <1>5, <1>7, <2>3
<1>11. CASE match[n] # last
  <2> DEFINE rest == Untimed(match) \ {last}
  <2>1. last \in Untimed(match) /\ match[n] \notin Untimed(match)
    BY <1>6, <1>8, <1>11 DEF Untimed
  <2>2. match[n] \in DOMAIN calls' /\ \A i \in DOMAIN stack' : next[i] # match[n]
    BY <1>1, <1>3, <1>4, <1>11
  <2>3. Untimed(next)' = rest \cup {match[n]}
    <3>1. ASSUME NEW k \in DOMAIN calls'
          PROVE  (\A i \in DOMAIN stack' : next[i] # k) <=> k \in rest \cup {match[n]}
      <4>1. CASE k = match[n]
        BY <2>2, <4>1
      <4>2. CASE k # match[n]
        <5>1. (\A i \in DOMAIN stack' : next[i] # k) <=> \A i \in DOMAIN stack : match[i] # k
          BY <1>4, <1>8, <4>2
        <5>2. k \in DOMAIN calls /\ k # last
          BY <1>8
        <5>. QED
          BY <4>2, <5>1, <5>2 DEF Untimed
      <4>. QED
        BY <4>1, <4>2
    <3>2. \A k \in rest \cup {match[n]} : k \in DOMAIN calls'
      BY <1>8, <2>2 DEF Untimed
    <3>. HIDE DEF rest
    <3>. QED
      BY <3>1, <3>2 DEF Untimed
  <2>4. /\ IsFiniteSet(rest) /\ Cardinality(rest) = Cardinality(Untimed(match)) - 1
        /\ match[n] \notin rest
    BY <1>9, <2>1, FS_RemoveElement
  <2>5. Cardinality(rest \cup {match[n]}) = Cardinality(rest) + 1
    BY <2>4, FS_AddElement
  <2>6. Cardinality(Untimed(next)') = Cardinality(Untimed(match))
    BY <1>9, <2>3, <2>4, <2>5
  <2>. QED
    BY <1>5, <1>7, <2>6
<1>. QED
  BY <1>10, <1>11

----------------------------------------------------------------------------
(* Frames of methods.                                                      *)

LEMMA TimedPushed ==
  ASSUME stack \in Seq(Frame), NEW f \in Frame, stack' = Append(stack, f)
  PROVE  Cardinality(Timed)' = IF f.id \in Methods THEN Cardinality(Timed) + 1
                                                   ELSE Cardinality(Timed)
<1>1. /\ Len(stack) \in Nat /\ DOMAIN stack = 1..Len(stack)
      /\ DOMAIN stack' = 1..(Len(stack) + 1)
      /\ \A i \in DOMAIN stack : stack'[i] = stack[i]
      /\ stack'[Len(stack) + 1] = f
  BY AppendDomain
<1>2. IsFiniteSet(Timed) /\ Len(stack) + 1 \notin Timed
  <2>1. IsFiniteSet(DOMAIN stack) /\ Timed \in SUBSET DOMAIN stack
    BY <1>1, FS_Interval DEF Timed
  <2>. QED
    BY <1>1, <2>1, FS_Subset
<1>3. Timed' = IF f.id \in Methods THEN Timed \cup {Len(stack) + 1} ELSE Timed
  BY <1>1 DEF Timed
<1>. QED
  BY <1>2, <1>3, FS_AddElement

LEMMA TimedPopped ==
  ASSUME stack \in Seq(Frame), stack # <<>>,
         stack' \in Seq(Frame), Len(stack') = Len(stack) - 1,
         \A i \in 1..Len(stack') : stack'[i].id = stack[i].id
  PROVE  /\ Cardinality(Timed) \in Nat
         /\ Top(stack).id \in Methods =>
              Cardinality(Timed) > 0 /\ Cardinality(Timed)' = Cardinality(Timed) - 1
         /\ Top(stack).id \notin Methods => Cardinality(Timed)' = Cardinality(Timed)
<1>1. /\ Len(stack) \in Nat \ {0} /\ DOMAIN stack = 1..Len(stack)
      /\ DOMAIN stack' = 1..(Len(stack) - 1)
      /\ \A i \in DOMAIN stack' : stack'[i].id = stack[i].id
  BY PopProperties, LenProperties
<1>2. IsFiniteSet(Timed) /\ Cardinality(Timed) \in Nat
  <2>1. IsFiniteSet(DOMAIN stack) /\ Timed \in SUBSET DOMAIN stack
    BY <1>1, FS_Interval DEF Timed
  <2>. QED
    BY <2>1, FS_Subset, FS_CardinalityType
<1>3. Timed' = Timed \ {Len(stack)} /\ (Len(stack) \in Timed <=> Top(stack).id \in Methods)
  BY <1>1 DEF Timed, Top
<1>4. Cardinality(Timed)' = IF Len(stack) \in Timed THEN Cardinality(Timed) - 1
                                                    ELSE Cardinality(Timed)
  BY <1>2, <1>3, FS_RemoveElement
<1>5. Len(stack) \in Timed => Cardinality(Timed) # 0
  BY <1>2, FS_EmptySet
<1>. QED
  BY <1>2, <1>3, <1>4, <1>5

----------------------------------------------------------------------------
(* The steps of the calls.                                                 *)

LEMMA EnterMethodBalances ==
  ASSUME BalanceInv, NEW m \in Methods, EnterMethod(m)
  PROVE  Balanced'
<1>1. /\ calls \in Seq(Call) /\ stack \in Seq(Frame) /\ clock \in Nat
      /\ sampledDepth \in Nat /\ unsampledDepth \in Nat
  BY DEF BalanceInv, IInv, TypeOK
<1> DEFINE c == [id |-> m, hooked |-> instrumented]
           f == [id |-> m, start |-> clock, child |-> 0, subtract |-> TRUE]
<1>2. c \in Call /\ c.id = m /\ f \in Frame /\ f.id = m /\ m \notin Traced
  BY <1>1, HooksAssumption DEF BalanceInv, OneRecording, Call, Frame, Ids
<1>3. calls' = Append(calls, c) /\ RecordMethodEnter(m)
  BY DEF EnterMethod, BalanceInv, OneRecording
<1>4. sampledDepth = Cardinality(Timed)
  BY DEF BalanceInv, Balanced
<1>5. PICK match : Embeds(match) /\ unsampledDepth = Cardinality(Untimed(match))
  BY DEF BalanceInv, Balanced
<1>6. CASE stack' = Append(stack, f) /\ sampledDepth' = sampledDepth + 1
           /\ unsampledDepth' = unsampledDepth
  <2>1. PICK next \in [DOMAIN stack' -> DOMAIN calls'] :
          Embeds(next)' /\ Untimed(next)' = Untimed(match)
    BY <1>1, <1>2, <1>3, <1>5, <1>6, PushBoth
  <2>2. Cardinality(Timed)' = Cardinality(Timed) + 1
    BY <1>1, <1>2, <1>6, TimedPushed
  <2>. QED
    BY <1>4, <1>5, <1>6, <2>1, <2>2 DEF Balanced
<1>7. CASE stack' = stack /\ sampledDepth' = sampledDepth
           /\ unsampledDepth' = unsampledDepth + 1
  <2>1. /\ match \in [DOMAIN stack' -> DOMAIN calls'] /\ Embeds(match)'
        /\ Untimed(match)' = Untimed(match) \cup {Len(calls) + 1}
        /\ Len(calls) + 1 \notin Untimed(match)
    BY <1>1, <1>2, <1>3, <1>5, <1>7, PushCall
  <2>2. Cardinality(Untimed(match)') = Cardinality(Untimed(match)) + 1
    BY <1>1, <2>1, FiniteParts, FS_AddElement
  <2>3. Timed' = Timed
    BY <1>7 DEF Timed
  <2>. QED
    BY <1>4, <1>5, <1>7, <2>1, <2>2, <2>3 DEF Balanced
<1>. QED
  BY <1>3, <1>6, <1>7 DEF RecordMethodEnter, Push

LEMMA EnterTracedBalances ==
  ASSUME BalanceInv, NEW t \in Traced, EnterTraced(t)
  PROVE  Balanced'
<1>1. calls \in Seq(Call) /\ stack \in Seq(Frame)
  BY DEF BalanceInv, IInv, TypeOK
<1> DEFINE c == [id |-> t, hooked |-> instrumented]
           f == [id |-> t, start |-> 0, child |-> 0, subtract |-> FALSE]
<1>2. c \in Call /\ c.id = t /\ f \in Frame /\ f.id = t /\ t \notin Methods
  BY <1>1, HooksAssumption DEF BalanceInv, OneRecording, Call, Frame, Ids
<1>3. /\ calls' = Append(calls, c) /\ stack' = Append(stack, f)
      /\ UNCHANGED <<sampledDepth, unsampledDepth>>
  BY DEF EnterTraced, RecordAllocationTraceEnter, Push, counters, BalanceInv, OneRecording
<1>4. PICK match : Embeds(match) /\ unsampledDepth = Cardinality(Untimed(match))
  BY DEF BalanceInv, Balanced
<1>5. PICK next \in [DOMAIN stack' -> DOMAIN calls'] :
        Embeds(next)' /\ Untimed(next)' = Untimed(match)
  BY <1>1, <1>2, <1>3, <1>4, PushBoth
<1>6. Cardinality(Timed)' = Cardinality(Timed)
  BY <1>1, <1>2, <1>3, TimedPushed
<1>. QED
  BY <1>3, <1>4, <1>5, <1>6 DEF BalanceInv, Balanced

\* The ids, the starts and the length of what is left when a frame is closed.
LEMMA ClosedIds ==
  ASSUME stack \in Seq(Frame), stack # <<>>, NEW d \in Int,
         stack' = Closed(d) \/ stack' = Pop(stack)
  PROVE  /\ stack' \in Seq(Frame) /\ Len(stack') = Len(stack) - 1
         /\ \A i \in 1..Len(stack') : stack'[i].id = stack[i].id /\ stack'[i].start = stack[i].start
<1>1. /\ Pop(stack) \in Seq(Frame) /\ Len(Pop(stack)) = Len(stack) - 1
      /\ DOMAIN Pop(stack) = 1..(Len(stack) - 1)
      /\ \A i \in 1..(Len(stack) - 1) : Pop(stack)[i] = stack[i]
  BY PopProperties
<1>2. CASE stack' = Closed(d)
  BY <1>1, <1>2, ChargeParentProperties, SMTT(30) DEF Closed
<1>3. CASE stack' = Pop(stack)
  BY <1>1, <1>3
<1>. QED
  BY <1>2, <1>3

LEMMA ExitMethodBalances ==
  ASSUME BalanceInv, ExitMethod
  PROVE  Balanced'
<1>1. /\ calls \in Seq(Call) /\ stack \in Seq(Frame) /\ clock \in Nat
      /\ sampledDepth \in Nat /\ unsampledDepth \in Nat
  BY DEF BalanceInv, IInv, TypeOK
<1> DEFINE m == Top(calls).id
<1>2. calls # <<>> /\ m \in Methods /\ calls' = Pop(calls)
  BY DEF ExitMethod
<1>3. Hooked /\ recording
  <2>1. Len(calls) \in DOMAIN calls
    BY <1>1, <1>2, PopProperties
  <2>. QED
    BY <1>2, <2>1 DEF BalanceInv, OneRecording, Hooked, Top
<1>4. RecordExit(m)
  BY <1>3 DEF ExitMethod
<1>5. sampledDepth = Cardinality(Timed)
  BY DEF BalanceInv, Balanced
<1>6. PICK match : Embeds(match) /\ unsampledDepth = Cardinality(Untimed(match))
  BY DEF BalanceInv, Balanced
<1>7. /\ IsFiniteSet(Timed) /\ IsFiniteSet(Untimed(match))
      /\ Cardinality(Untimed(match)) \in Nat
  BY <1>1, FiniteParts
<1>8. CASE (OnlyUnsampled \/ ~ClosesTop(m)) /\ CloseUnsampled
  <2>1. Len(calls) \in Untimed(match)
    <3>1. CASE OnlyUnsampled
      <4>1. Timed = {}
        BY <1>5, <1>7, <3>1, FS_EmptySet DEF OnlyUnsampled
      <4>2. stack # <<>> => Len(stack) \in DOMAIN stack
        BY <1>1, PopProperties
      <4>3. stack # <<>> => Top(stack).id # m
        BY <1>2, <4>1, <4>2 DEF Timed, Top
      <4>. QED
        BY <1>1, <1>2, <1>6, <4>3, LastMatch
    <3>2. CASE ~ClosesTop(m)
      BY <1>1, <1>2, <1>6, <3>2, LastMatch DEF ClosesTop
    <3>. QED
      BY <1>8, <3>1, <3>2
  <2>2. /\ match \in [DOMAIN stack' -> DOMAIN calls'] /\ Embeds(match)'
        /\ Untimed(match)' = Untimed(match) \ {Len(calls)}
    BY <1>1, <1>2, <1>6, <1>8, <2>1, PopCall DEF CloseUnsampled
  <2>3. Cardinality(Untimed(match)') = Cardinality(Untimed(match)) - 1
    BY <1>7, <2>1, <2>2, FS_RemoveElement
  <2>4. unsampledDepth' = unsampledDepth - 1
    <3>1. Cardinality(Untimed(match)) # 0
      BY <1>7, <2>1, FS_EmptySet
    <3>. QED
      BY <1>6, <1>7, <1>8, <3>1 DEF CloseUnsampled, Lower
  <2>5. Timed' = Timed /\ sampledDepth' = sampledDepth
    BY <1>8 DEF Timed, CloseUnsampled
  <2>. QED
    BY <1>5, <1>6, <2>2, <2>3, <2>4, <2>5 DEF Balanced
<1>9. CASE ClosesTop(m) /\ (CloseTimedFrame(m) \/ CloseUntimedFrame)
  <2>1. stack # <<>> /\ Top(stack).id = m
    BY <1>9 DEF ClosesTop
  <2>2. /\ stack' \in Seq(Frame) /\ Len(stack') = Len(stack) - 1
        /\ \A i \in 1..Len(stack') : stack'[i].id = stack[i].id
    <3>1. clock - Top(stack).start \in Int
      <4>1. Top(stack) \in Frame
        BY <1>1, <2>1, PopProperties
      <4>. QED
        BY <1>1, <4>1 DEF Frame
    <3>2. stack' = Closed(clock - Top(stack).start) \/ stack' = Pop(stack)
      BY <1>9 DEF CloseTimedFrame, CloseUntimedFrame
    <3>. QED
      BY <1>1, <2>1, <3>1, <3>2, ClosedIds
  <2>3. PICK next \in [DOMAIN stack' -> DOMAIN calls'] :
          Embeds(next)' /\ Cardinality(Untimed(next)') = Cardinality(Untimed(match))
    BY <1>1, <1>2, <1>6, <2>1, <2>2, PopBoth
  <2>4. Cardinality(Timed) > 0 /\ Cardinality(Timed)' = Cardinality(Timed) - 1
    BY <1>1, <1>2, <2>1, <2>2, TimedPopped
  <2>5. sampledDepth' = sampledDepth - 1 /\ unsampledDepth' = unsampledDepth
    BY <1>5, <1>9, <2>4 DEF CloseTimedFrame, CloseUntimedFrame, Lower
  <2>. QED
    BY <1>5, <1>6, <2>3, <2>4, <2>5 DEF Balanced
<1>. QED
  BY <1>4, <1>8, <1>9 DEF RecordExit

\* An allocation boundary that exits finds its own frame on top.
LEMMA TracedExitPopsOwn ==
  ASSUME BalanceInv, ExitTraced
  PROVE  /\ calls # <<>> /\ Top(calls).id \in Traced /\ calls' = Pop(calls)
         /\ stack # <<>> /\ Top(stack).id = Top(calls).id /\ stack' = Pop(stack)
         /\ UNCHANGED <<sampledDepth, unsampledDepth>>
<1>1. calls \in Seq(Call) /\ stack \in Seq(Frame)
  BY DEF BalanceInv, IInv, TypeOK
<1> DEFINE t == Top(calls).id
<1>2. calls # <<>> /\ t \in Traced /\ calls' = Pop(calls) /\ Len(calls) \in DOMAIN calls
  BY <1>1, PopProperties DEF ExitTraced
<1>3. RecordAllocationTraceExit(t)
  BY <1>2 DEF ExitTraced, BalanceInv, OneRecording, Hooked, Top
<1>4. PICK match : Embeds(match) /\ unsampledDepth = Cardinality(Untimed(match))
  BY DEF BalanceInv, Balanced
<1>5. stack # <<>> /\ Top(stack).id = t
  <2>1. Len(calls) \notin Untimed(match)
    BY <1>2, <1>4 DEF Embeds, Untimed, Top
  <2>. QED
    BY <1>1, <1>2, <1>4, <2>1, LastMatch
<1>. QED
  BY <1>2, <1>3, <1>5 DEF RecordAllocationTraceExit, counters

LEMMA ExitTracedBalances ==
  ASSUME BalanceInv, ExitTraced
  PROVE  Balanced'
<1>1. calls \in Seq(Call) /\ stack \in Seq(Frame)
  BY DEF BalanceInv, IInv, TypeOK
<1> DEFINE t == Top(calls).id
<1>2. /\ calls # <<>> /\ t \in Traced /\ calls' = Pop(calls)
      /\ stack # <<>> /\ Top(stack).id = t /\ stack' = Pop(stack)
      /\ UNCHANGED <<sampledDepth, unsampledDepth>>
  BY TracedExitPopsOwn
<1>4. PICK match : Embeds(match) /\ unsampledDepth = Cardinality(Untimed(match))
  BY DEF BalanceInv, Balanced
<1>5. /\ stack' \in Seq(Frame) /\ Len(stack') = Len(stack) - 1
      /\ \A i \in 1..Len(stack') : stack'[i].id = stack[i].id
  BY <1>1, <1>2, ClosedIds
<1>6. PICK next \in [DOMAIN stack' -> DOMAIN calls'] :
        Embeds(next)' /\ Cardinality(Untimed(next)') = Cardinality(Untimed(match))
  BY <1>1, <1>2, <1>4, <1>5, PopBoth
<1>7. t \notin Methods
  BY <1>2, HooksAssumption
<1>8. Cardinality(Timed)' = Cardinality(Timed)
  BY <1>1, <1>2, <1>5, <1>7, TimedPopped
<1>. QED
  BY <1>2, <1>4, <1>6, <1>8 DEF BalanceInv, Balanced

\* What leaves calls, frames and depths alone leaves them balanced.
LEMMA SameDepthsBalance ==
  ASSUME BalanceInv, UNCHANGED <<calls, stack, sampledDepth, unsampledDepth>>
  PROVE  Balanced'
<1>1. PICK match : /\ match \in [DOMAIN stack -> DOMAIN calls]
                   /\ Embeds(match) /\ unsampledDepth = Cardinality(Untimed(match))
  BY DEF BalanceInv, Balanced
<1>2. Embeds(match)' /\ Untimed(match)' = Untimed(match) /\ Timed' = Timed
  BY <1>1 DEF Embeds, Untimed, Timed
<1>. QED
  BY <1>1, <1>2 DEF BalanceInv, Balanced

LEMMA OneRecordingStays ==
  ASSUME BalanceInv, CallNext
  PROVE  OneRecording'
<1>1. calls \in Seq(Call)
  BY DEF BalanceInv, IInv, TypeOK
<1>2. recording /\ instrumented /\ UNCHANGED <<recording, instrumented>>
  BY DEF BalanceInv, OneRecording, CallNext, EnterMethod, ExitMethod, EnterTraced, ExitTraced,
         SetSamplingMode, Tick, AgentElsewhere
<1>3. CASE UNCHANGED calls
  BY <1>2, <1>3 DEF BalanceInv, OneRecording
<1>4. CASE calls # <<>> /\ calls' = Pop(calls)
  <2>1. DOMAIN calls' \subseteq DOMAIN calls /\ \A k \in DOMAIN calls' : calls'[k] = calls[k]
    BY <1>1, <1>4, PopProperties
  <2>. QED
    BY <1>2, <2>1 DEF BalanceInv, OneRecording
<1>5. ASSUME NEW id \in Methods \cup Traced,
             calls' = Append(calls, [id |-> id, hooked |-> instrumented])
      PROVE  OneRecording'
  <2> DEFINE c == [id |-> id, hooked |-> instrumented]
  <2>1. c \in Call /\ c.id \in Methods \cup Traced /\ c.hooked
    BY <1>2 DEF Call, Ids, BalanceInv, IInv, TypeOK
  <2>2. DOMAIN calls' = DOMAIN calls \cup {Len(calls) + 1} /\ calls'[Len(calls) + 1] = c
        /\ \A k \in DOMAIN calls : calls'[k] = calls[k]
    <3>1. /\ Len(calls) \in Nat /\ DOMAIN calls = 1..Len(calls)
          /\ DOMAIN calls' = 1..(Len(calls) + 1) /\ calls'[Len(calls) + 1] = c
          /\ \A k \in 1..Len(calls) : calls'[k] = calls[k]
      BY <1>1, <1>5, <2>1, AppendDomain
    <3>. QED
      BY <3>1
  <2>. QED
    BY <1>2, <2>1, <2>2 DEF BalanceInv, OneRecording
<1>. QED
  BY <1>3, <1>4, <1>5 DEF CallNext, EnterMethod, ExitMethod, EnterTraced, ExitTraced,
                          SetSamplingMode, Tick

LEMMA CallStepKeepsBalance ==
  ASSUME BalanceInv, [CallNext]_vars
  PROVE  BalanceInv'
<1>1. CASE CallNext
  <2>1. IInv' /\ OneRecording'
    BY <1>1, CallStepKeepsIInv, OneRecordingStays DEF BalanceInv
  <2>2. ASSUME NEW enabled \in BOOLEAN, SetSamplingMode(enabled) PROVE Balanced'
    BY <2>2, SameDepthsBalance DEF SetSamplingMode, counters
  <2>3. ASSUME Tick PROVE Balanced'
    BY <2>3, SameDepthsBalance DEF Tick, NoHook, counters
  <2>4. Balanced'
    BY <1>1, <2>2, <2>3, EnterMethodBalances, ExitMethodBalances, EnterTracedBalances,
       ExitTracedBalances DEF CallNext
  <2>. QED
    BY <2>1, <2>4 DEF BalanceInv
<1>2. CASE UNCHANGED vars
  <2>1. IInv'
    BY <1>2 DEF BalanceInv, IInv, TypeOK, FramesNested, TimedFrames, vars, counters, stats,
                agent, history
  <2>2. Balanced'
    BY <1>2, SameDepthsBalance DEF vars, counters
  <2>3. OneRecording'
    BY <1>2 DEF BalanceInv, OneRecording, vars, agent
  <2>. QED
    BY <2>1, <2>2, <2>3 DEF BalanceInv
<1>. QED
  BY <1>1, <1>2

LEMMA InitBalanceInv == Init => BalanceInv
<1>. SUFFICES ASSUME Init PROVE BalanceInv
  OBVIOUS
<1>1. calls = <<>> /\ stack = <<>> /\ DOMAIN calls = {} /\ DOMAIN stack = {}
  BY DEF Init
<1>2. PICK match : match = [i \in {} |-> i]
  OBVIOUS
<1>3. Timed = {} /\ Untimed(match) = {} /\ Embeds(match)
  BY <1>1, <1>2 DEF Timed, Untimed, Embeds
<1>4. Balanced
  BY <1>1, <1>2, <1>3, FS_EmptySet DEF Balanced, Init
<1>5. OneRecording
  BY <1>1 DEF OneRecording, Init
<1>. QED
  BY <1>4, <1>5, InitIInv DEF BalanceInv

LEMMA BalanceHolds == SpecCalls => []BalanceInv
BY InitBalanceInv, CallStepKeepsBalance, PTL DEF SpecCalls

----------------------------------------------------------------------------
\* The depths count what they say through any calls and recursion, sampled or not,
\* although each exit guesses which call it closes (Profiler.recordExit 630-666).
THEOREM BalancedHolds == SpecCalls => []Balanced
<1>1. BalanceInv => Balanced
  BY DEF BalanceInv
<1>. QED
  BY <1>1, BalanceHolds, PTL

\* A thread that has left every instrumented method starts the next call from
\* nothing: no frame, no depth (Profiler.recordExit 630-666).
THEOREM DrainedHolds == SpecCalls => []DrainedWhenIdle
<1>1. ASSUME BalanceInv PROVE DrainedWhenIdle
  <2>. SUFFICES ASSUME calls = <<>>
                PROVE  stack = <<>> /\ sampledDepth = 0 /\ unsampledDepth = 0
    BY DEF DrainedWhenIdle
  <2>1. PICK match : Embeds(match) /\ unsampledDepth = Cardinality(Untimed(match))
    BY <1>1 DEF BalanceInv, Balanced
  <2>2. DOMAIN stack = {} /\ Untimed(match) = {}
    BY <2>1 DEF Embeds, Untimed
  <2>3. stack = <<>>
    BY <1>1, <2>2, PopProperties DEF BalanceInv, IInv, TypeOK
  <2>4. Timed = {}
    BY <2>2 DEF Timed
  <2>. QED
    BY <1>1, <2>1, <2>2, <2>3, <2>4, FS_EmptySet DEF BalanceInv, Balanced
<1>. QED
  BY <1>1, BalanceHolds, PTL

----------------------------------------------------------------------------
(* Reported time.  What the frames of a method will still report when they *)
(* close is a set of moments, one pair for each frame and each moment since *)
(* it started, so that it can be counted.                                  *)

FramesOf(id) == {i \in DOMAIN stack : stack[i].id = id}

Pending(id) == {p \in FramesOf(id) \X (0..(clock - 1)) : stack[p[1]].start <= p[2]}

StartedBefore == \A i \in DOMAIN stack : stack[i].start <= clock

\* Trace boundaries and statements are not timed here.
TimeInv ==
  /\ StartedBefore
  /\ \A m \in Methods : total[m] + Cardinality(Pending(m)) <= lasted[m]
  /\ \A id \in Ids \ Methods : total[id] = 0

LEMMA FinitePending ==
  ASSUME stack \in Seq(Frame), clock \in Nat, NEW id
  PROVE  IsFiniteSet(FramesOf(id)) /\ IsFiniteSet(Pending(id)) /\ Cardinality(Pending(id)) \in Nat
<1>1. IsFiniteSet(DOMAIN stack)
  <2>1. DOMAIN stack = 1..Len(stack) /\ Len(stack) \in Nat
    BY LenProperties
  <2>. QED
    BY <2>1, FS_Interval
<1>2. IsFiniteSet(FramesOf(id))
  <2>1. FramesOf(id) \in SUBSET DOMAIN stack
    BY DEF FramesOf
  <2>. QED
    BY <1>1, <2>1, FS_Subset
<1>3. IsFiniteSet(0..(clock - 1))
  BY FS_Interval
<1>4. IsFiniteSet(FramesOf(id) \X (0..(clock - 1)))
  BY <1>2, <1>3, FS_Product
<1>5. Pending(id) \in SUBSET (FramesOf(id) \X (0..(clock - 1)))
  BY DEF Pending
<1>. QED
  BY <1>2, <1>4, <1>5, FS_Subset, FS_CardinalityType

\* A method has no more frames than calls in progress.
LEMMA FramesAreCalls ==
  ASSUME calls \in Seq(Call), stack \in Seq(Frame), Balanced, NEW id
  PROVE  /\ Cardinality(FramesOf(id)) \in Nat /\ Cardinality(CallsOf(id)) \in Nat
         /\ Cardinality(FramesOf(id)) <= Cardinality(CallsOf(id))
<1>1. PICK match : Embeds(match)
  BY DEF Balanced
<1>2. IsFiniteSet(DOMAIN calls) /\ IsFiniteSet(DOMAIN stack)
  BY Domains, FS_Interval
<1>3. IsFiniteSet(CallsOf(id)) /\ IsFiniteSet(FramesOf(id))
  <2>1. CallsOf(id) \in SUBSET DOMAIN calls /\ FramesOf(id) \in SUBSET DOMAIN stack
    BY DEF CallsOf, FramesOf
  <2>. QED
    BY <1>2, <2>1, FS_Subset
<1> DEFINE own == [i \in FramesOf(id) |-> match[i]]
<1>4. own \in Injection(FramesOf(id), CallsOf(id))
  <2>1. own \in [FramesOf(id) -> CallsOf(id)]
    BY <1>1 DEF Embeds, FramesOf, CallsOf
  <2>2. \A i, j \in FramesOf(id) : own[i] = own[j] => i = j
    <3>1. \A i, j \in DOMAIN stack : i # j => match[i] # match[j]
      <4>1. /\ \A i \in DOMAIN stack : i \in Nat /\ match[i] \in Nat
            /\ \A i, j \in DOMAIN stack : i < j => match[i] < match[j]
        BY <1>1, Domains DEF Embeds
      <4>. QED
        BY <4>1
    <3>. QED
      BY <3>1 DEF FramesOf
  <2>. QED
    BY <2>1, <2>2 DEF Injection, IsInjective
<1>. QED
  BY <1>3, <1>4, FS_Injection, FS_CardinalityType

\* A frame that is pushed has nothing pending yet.
LEMMA PushKeepsPending ==
  ASSUME stack \in Seq(Frame), clock \in Nat, clock' = clock, StartedBefore,
         NEW f \in Frame, f.start \in {0, clock}, stack' = Append(stack, f)
  PROVE  /\ StartedBefore'
         /\ \A m : m # f.id \/ f.start = clock => Pending(m)' = Pending(m)
<1>1. /\ Len(stack) \in Nat /\ DOMAIN stack = 1..Len(stack)
      /\ DOMAIN stack' = 1..(Len(stack) + 1)
      /\ \A i \in 1..Len(stack) : stack'[i] = stack[i]
      /\ stack'[Len(stack) + 1] = f
  BY AppendDomain
<1>2. /\ DOMAIN stack' = DOMAIN stack \cup {Len(stack) + 1}
      /\ Len(stack) + 1 \notin DOMAIN stack
  BY <1>1
<1>3. StartedBefore'
  BY <1>1, <1>2 DEF StartedBefore
<1>4. ASSUME NEW m, m # f.id \/ f.start = clock PROVE Pending(m)' = Pending(m)
  <2>1. ASSUME NEW i, NEW tau \in 0..(clock - 1)
        PROVE  /\ i \in FramesOf(m)' /\ stack'[i].start <= tau
                    => i \in FramesOf(m) /\ stack[i].start <= tau
               /\ i \in FramesOf(m) => i \in FramesOf(m)' /\ stack'[i].start = stack[i].start
    BY <1>1, <1>2, <1>4 DEF FramesOf
  <2>. QED
    BY <2>1 DEF Pending
<1>. QED
  BY <1>3, <1>4

\* A frame that is closed takes with it what was pending of it.
LEMMA PopKeepsPending ==
  ASSUME stack \in Seq(Frame), stack # <<>>, clock \in Nat, clock' = clock, StartedBefore,
         stack' \in Seq(Frame), Len(stack') = Len(stack) - 1,
         \A i \in 1..Len(stack') : stack'[i].id = stack[i].id /\ stack'[i].start = stack[i].start
  PROVE  /\ StartedBefore'
         /\ \A m : Pending(m)' \subseteq Pending(m)
         /\ Top(stack).start <= clock
         /\ \A m : m # Top(stack).id => Pending(m)' = Pending(m)
         /\ \A m : m = Top(stack).id =>
              Cardinality(Pending(m)') + (clock - Top(stack).start) = Cardinality(Pending(m))
<1> DEFINE n == Len(stack)
<1>1. /\ n \in Nat \ {0} /\ DOMAIN stack = 1..n /\ DOMAIN stack' = 1..(n - 1)
      /\ \A i \in DOMAIN stack' : /\ i \in DOMAIN stack /\ i # n
                                  /\ stack'[i].id = stack[i].id
                                  /\ stack'[i].start = stack[i].start
      /\ \A i \in DOMAIN stack : i # n => i \in DOMAIN stack'
      /\ Top(stack) = stack[n] /\ n \in DOMAIN stack
  BY PopProperties, LenProperties DEF Top
<1>. HIDE DEF n
<1>2. StartedBefore' /\ Top(stack).start <= clock
  BY <1>1 DEF StartedBefore
<1>3. \A m : Pending(m)' \subseteq Pending(m)
  <2>1. \A m : \A i \in FramesOf(m)' :
          i \in FramesOf(m) /\ stack'[i].start = stack[i].start
    BY <1>1 DEF FramesOf
  <2>. QED
    BY <2>1 DEF Pending
<1>4. ASSUME NEW m, m = Top(stack).id
      PROVE  Cardinality(Pending(m)') + (clock - Top(stack).start) = Cardinality(Pending(m))
  <2> DEFINE since == Top(stack).start
             moments == since..(clock - 1)
             gone == {n} \X moments
  <2>1. since \in Nat /\ since <= clock
    <3>1. \A i \in DOMAIN stack : stack[i].start \in Nat
      BY LenProperties, FrameFields
    <3>. QED
      BY <1>1, <1>2, <3>1
  <2>. HIDE DEF since
  <2>2. /\ IsFiniteSet(gone) /\ Cardinality(gone) = clock - since
    <3>1. IsFiniteSet(moments) /\ Cardinality(moments) = clock - since
      <4>1. since \in Int /\ clock - 1 \in Int
        BY <2>1
      <4>2. IsFiniteSet(moments)
            /\ Cardinality(moments) = IF since > clock - 1 THEN 0 ELSE clock - 1 - since + 1
        BY <4>1, FS_Interval
      <4>. QED
        BY <2>1, <4>2
    <3>2. IsFiniteSet({n}) /\ Cardinality({n}) = 1
      BY FS_Singleton
    <3>. HIDE DEF moments
    <3>3. IsFiniteSet(gone) /\ Cardinality(gone) = Cardinality({n}) * Cardinality(moments)
      BY <3>1, <3>2, FS_Product
    <3>. QED
      BY <2>1, <3>1, <3>2, <3>3
  <2>3. gone \subseteq Pending(m)
    BY <1>1, <1>4, <2>1 DEF Pending, FramesOf, since
  <2>4. Pending(m)' = Pending(m) \ gone
    <3>1. \A i : i \in FramesOf(m)' <=> i \in FramesOf(m) /\ i # n
      BY <1>1 DEF FramesOf
    <3>2. \A p : p \in Pending(m)' <=> p \in Pending(m) /\ p[1] # n
      BY <1>1, <3>1 DEF Pending, FramesOf
    <3>3. \A p \in Pending(m) : p \in gone <=> p[1] = n
      BY <1>1, <2>1 DEF Pending, since
    <3>. QED
      BY <3>2, <3>3
  <2>5. IsFiniteSet(Pending(m)) /\ Cardinality(Pending(m)) \in Nat
    BY FinitePending
  <2>. HIDE DEF gone
  <2>6. Pending(m) \cap gone = gone
    BY <2>3
  <2>7. Cardinality(Pending(m) \ gone) = Cardinality(Pending(m)) - Cardinality(Pending(m) \cap gone)
    BY <2>5, FS_Difference
  <2>8. Cardinality(Pending(m)') = Cardinality(Pending(m)) - Cardinality(gone)
    BY <2>4, <2>6, <2>7
  <2>9. Cardinality(Pending(m)') + (clock - since) = Cardinality(Pending(m))
    BY <2>1, <2>2, <2>5, <2>8
  <2>. QED
    BY <2>9 DEF since
<1>5. ASSUME NEW m, m # Top(stack).id PROVE Pending(m)' = Pending(m)
  <2>1. FramesOf(m)' = FramesOf(m)
    <3>1. \A i : i \in FramesOf(m)' <=> i \in FramesOf(m)
      BY <1>1, <1>5 DEF FramesOf
    <3>. QED
      BY <3>1
  <2>2. \A i \in FramesOf(m) : stack'[i].start = stack[i].start
    BY <1>1, <1>5 DEF FramesOf
  <2>. QED
    BY <2>1, <2>2 DEF Pending
<1>. QED
  BY <1>2, <1>3, <1>4, <1>5

\* A moment passes: one more is pending for each frame.
LEMMA TickAddsPending ==
  ASSUME stack \in Seq(Frame), clock \in Nat, StartedBefore, stack' = stack, clock' = clock + 1,
         NEW m
  PROVE  /\ Cardinality(FramesOf(m)) \in Nat /\ Cardinality(Pending(m)) \in Nat
         /\ Cardinality(Pending(m)') = Cardinality(Pending(m)) + Cardinality(FramesOf(m))
<1> DEFINE now == FramesOf(m) \X {clock}
<1>1. \A i \in DOMAIN stack : stack[i].start \in Nat /\ stack[i].start <= clock
  <2>1. \A i \in DOMAIN stack : stack[i].start \in Nat
    BY LenProperties, FrameFields
  <2>. QED
    BY <2>1 DEF StartedBefore
<1>2. /\ IsFiniteSet(FramesOf(m)) /\ IsFiniteSet(Pending(m))
      /\ Cardinality(Pending(m)) \in Nat /\ Cardinality(FramesOf(m)) \in Nat
  BY FinitePending, FS_CardinalityType
<1>3. IsFiniteSet(now) /\ Cardinality(now) = Cardinality(FramesOf(m))
  <2>1. IsFiniteSet({clock}) /\ Cardinality({clock}) = 1
    BY FS_Singleton
  <2>2. IsFiniteSet(now) /\ Cardinality(now) = Cardinality(FramesOf(m)) * Cardinality({clock})
    BY <1>2, <2>1, FS_Product
  <2>. QED
    BY <1>2, <2>1, <2>2
<1>4. Pending(m)' = Pending(m) \cup now
  <2>1. 0..(clock' - 1) = (0..(clock - 1)) \cup {clock}
    OBVIOUS
  <2>2. FramesOf(m)' = FramesOf(m) /\ \A i \in FramesOf(m) : stack[i].start <= clock
    BY <1>1 DEF FramesOf
  <2>3. \A p : p \in Pending(m)' <=> p \in Pending(m) \cup now
    BY <2>1, <2>2 DEF Pending
  <2>. QED
    BY <2>3
<1>5. Pending(m) \cap now = {}
  BY DEF Pending
<1>. HIDE DEF now
<1>6. Cardinality(Pending(m) \cup now)
        = Cardinality(Pending(m)) + Cardinality(now) - Cardinality(Pending(m) \cap now)
  BY <1>2, <1>3, FS_Union
<1>7. Cardinality(Pending(m) \cap now) = 0
  BY <1>5, FS_EmptySet
<1>. QED
  BY <1>2, <1>3, <1>4, <1>6, <1>7

\* One more for each call too, and there are no fewer of them.
LEMMA TickKeepsTime ==
  ASSUME BalanceInv, TimeInv, Tick
  PROVE  TimeInv'
<1>1. /\ calls \in Seq(Call) /\ stack \in Seq(Frame) /\ clock \in Nat
      /\ total \in [Ids -> Nat] /\ lasted \in [Ids -> Nat] /\ Balanced
  BY DEF BalanceInv, IInv, TypeOK
<1>2. /\ stack' = stack /\ total' = total /\ clock' = clock + 1
      /\ lasted' = [id \in Ids |-> lasted[id] + Cardinality(CallsOf(id))]
  BY DEF Tick, NoHook, stats
<1>3. \A i \in DOMAIN stack : stack[i].start \in Nat /\ stack[i].start <= clock
  <2>1. \A i \in DOMAIN stack : stack[i].start \in Nat
    BY <1>1, LenProperties, FrameFields
  <2>. QED
    BY <2>1 DEF TimeInv, StartedBefore
<1>4. StartedBefore'
  BY <1>1, <1>2, <1>3 DEF StartedBefore
<1>5. ASSUME NEW m \in Methods
      PROVE  total'[m] + Cardinality(Pending(m)') <= lasted'[m]
  <2>1. /\ Cardinality(FramesOf(m)) \in Nat /\ Cardinality(CallsOf(m)) \in Nat
        /\ Cardinality(FramesOf(m)) <= Cardinality(CallsOf(m))
    BY <1>1, FramesAreCalls
  <2>2. /\ Cardinality(Pending(m)) \in Nat
        /\ Cardinality(Pending(m)') = Cardinality(Pending(m)) + Cardinality(FramesOf(m))
    BY <1>1, <1>2, TickAddsPending DEF TimeInv
  <2>3. /\ total[m] \in Nat /\ lasted[m] \in Nat
        /\ lasted'[m] = lasted[m] + Cardinality(CallsOf(m))
        /\ total[m] + Cardinality(Pending(m)) <= lasted[m]
    BY <1>1, <1>2 DEF Ids, TimeInv
  <2>. QED
    BY <1>2, <2>1, <2>2, <2>3
<1>6. \A id \in Ids \ Methods : total'[id] = 0
  BY <1>2 DEF TimeInv
<1>. QED
  BY <1>4, <1>5, <1>6 DEF TimeInv

\* A frame is pushed and nothing is reported.
LEMMA PushKeepsTime ==
  ASSUME BalanceInv, TimeInv, UNCHANGED <<total, clock, lasted>>,
         NEW f \in Frame, f.start \in {0, clock}, f.start = clock \/ f.id \notin Methods,
         stack' = Append(stack, f)
  PROVE  TimeInv'
<1>1. stack \in Seq(Frame) /\ clock \in Nat /\ StartedBefore
  BY DEF BalanceInv, IInv, TypeOK, TimeInv
<1>2. StartedBefore' /\ \A m \in Methods : Pending(m)' = Pending(m)
  BY <1>1, PushKeepsPending
<1>. QED
  BY <1>2 DEF TimeInv

\* Frames, reports and the clock are left alone.
LEMMA SameTimes ==
  ASSUME TimeInv, UNCHANGED <<stack, total, clock, lasted>>
  PROVE  TimeInv'
<1>1. \A m : Pending(m)' = Pending(m)
  BY DEF Pending, FramesOf
<1>2. StartedBefore'
  BY DEF TimeInv, StartedBefore
<1>. QED
  BY <1>1, <1>2 DEF TimeInv

\* A frame is closed and reports its duration, or nothing.
LEMMA CloseKeepsTime ==
  ASSUME BalanceInv, TimeInv, UNCHANGED <<clock, lasted>>, stack # <<>>,
         stack' = Closed(clock - Top(stack).start) \/ stack' = Pop(stack),
         \/ UNCHANGED total
         \/ /\ Top(stack).id \in Methods
            /\ total' = [total EXCEPT ![Top(stack).id] = @ + (clock - Top(stack).start)]
  PROVE  TimeInv'
<1>1. /\ stack \in Seq(Frame) /\ clock \in Nat /\ StartedBefore
      /\ total \in [Ids -> Nat] /\ lasted \in [Ids -> Nat]
  BY DEF BalanceInv, IInv, TypeOK, TimeInv
<1>2. Top(stack).start \in Nat
  <2>1. Top(stack) \in Frame
    BY <1>1, PopProperties
  <2>. QED
    BY <2>1 DEF Frame
<1>3. /\ stack' \in Seq(Frame) /\ Len(stack') = Len(stack) - 1
      /\ \A i \in 1..Len(stack') : stack'[i].id = stack[i].id /\ stack'[i].start = stack[i].start
  <2>1. clock - Top(stack).start \in Int
    BY <1>1, <1>2
  <2>. QED
    BY <1>1, <2>1, ClosedIds
<1>4. /\ StartedBefore' /\ Top(stack).start <= clock
      /\ \A m \in Methods : Pending(m)' \subseteq Pending(m)
      /\ \A m \in Methods : m = Top(stack).id =>
           Cardinality(Pending(m)') + (clock - Top(stack).start) = Cardinality(Pending(m))
  BY <1>1, <1>3, PopKeepsPending
<1>5. ASSUME NEW m \in Methods
      PROVE  total'[m] + Cardinality(Pending(m)') <= lasted'[m]
  <2>1. IsFiniteSet(Pending(m)) /\ Cardinality(Pending(m)) \in Nat
    BY <1>1, FinitePending
  <2>2. Cardinality(Pending(m)') \in Nat /\ Cardinality(Pending(m)') <= Cardinality(Pending(m))
    BY <1>4, <2>1, FS_Subset, FS_CardinalityType
  <2>3. /\ total[m] \in Nat /\ lasted[m] \in Nat /\ lasted' = lasted
        /\ total[m] + Cardinality(Pending(m)) <= lasted[m]
    BY <1>1 DEF Ids, TimeInv
  <2>4. CASE total'[m] = total[m]
    BY <2>1, <2>2, <2>3, <2>4
  <2>5. CASE m = Top(stack).id /\ total'[m] = total[m] + (clock - Top(stack).start)
    BY <1>1, <1>2, <1>4, <2>1, <2>2, <2>3, <2>5
  <2>6. total'[m] = total[m]
        \/ (m = Top(stack).id /\ total'[m] = total[m] + (clock - Top(stack).start))
    BY <1>1, <2>3 DEF Ids
  <2>. QED
    BY <2>4, <2>5, <2>6
<1>6. \A id \in Ids \ Methods : total'[id] = 0
  BY <1>1 DEF TimeInv
<1>. QED
  BY <1>4, <1>5, <1>6 DEF TimeInv

LEMMA CallStepKeepsTime ==
  ASSUME BalanceInv, TimeInv, [CallNext]_vars
  PROVE  TimeInv'
<1>1. /\ calls \in Seq(Call) /\ stack \in Seq(Frame) /\ clock \in Nat
      /\ recording /\ instrumented
  BY DEF BalanceInv, IInv, TypeOK, OneRecording
<1>2. ASSUME NEW m \in Methods, EnterMethod(m) PROVE TimeInv'
  <2> DEFINE f == [id |-> m, start |-> clock, child |-> 0, subtract |-> TRUE]
  <2>1. f \in Frame /\ f.start = clock
    BY <1>1 DEF Frame, Ids
  <2>2. RecordMethodEnter(m) /\ UNCHANGED <<total, clock, lasted>>
    BY <1>1, <1>2 DEF EnterMethod, RecordMethodEnter, history
  <2>3. stack' = Append(stack, f) \/ stack' = stack
    BY <2>2 DEF RecordMethodEnter, Push
  <2>4. CASE stack' = Append(stack, f)
    BY <2>1, <2>2, <2>4, PushKeepsTime
  <2>5. CASE stack' = stack
    BY <2>2, <2>5, SameTimes
  <2>. QED
    BY <2>3, <2>4, <2>5
<1>3. ASSUME NEW t \in Traced, EnterTraced(t) PROVE TimeInv'
  <2> DEFINE f == [id |-> t, start |-> 0, child |-> 0, subtract |-> FALSE]
  <2>1. f \in Frame /\ f.start = 0 /\ f.id \notin Methods
    BY HooksAssumption DEF Frame, Ids
  <2>2. stack' = Append(stack, f) /\ UNCHANGED <<total, clock, lasted>>
    BY <1>1, <1>3 DEF EnterTraced, RecordAllocationTraceEnter, Push, stats, history
  <2>. HIDE DEF f
  <2>. QED
    BY <2>1, <2>2, PushKeepsTime
<1>4. ASSUME ExitMethod PROVE TimeInv'
  <2>1. /\ UNCHANGED <<clock, lasted>> /\ Top(calls).id \in Methods
        /\ NoHook \/ RecordExit(Top(calls).id)
    BY <1>4 DEF ExitMethod, history
  <2>2. CASE UNCHANGED <<stack, total>>
    BY <2>1, <2>2, SameTimes
  <2>3. CASE ClosesTop(Top(calls).id)
             /\ (CloseTimedFrame(Top(calls).id) \/ CloseUntimedFrame)
    <3>1. stack # <<>> /\ Top(stack).id \in Methods /\ Top(stack).id = Top(calls).id
      BY <2>1, <2>3 DEF ClosesTop
    <3>2. CASE CloseTimedFrame(Top(calls).id)
      BY <2>1, <3>1, <3>2, CloseKeepsTime DEF CloseTimedFrame
    <3>3. CASE CloseUntimedFrame
      BY <2>1, <3>1, <3>3, CloseKeepsTime DEF CloseUntimedFrame, stats
    <3>. QED
      BY <2>3, <3>2, <3>3
  <2>. QED
    BY <2>1, <2>2, <2>3 DEF NoHook, RecordExit, CloseUnsampled, stats
<1>5. ASSUME ExitTraced PROVE TimeInv'
  <2>1. UNCHANGED <<total, clock, lasted>>
    BY <1>5 DEF ExitTraced, RecordAllocationTraceExit, NoHook, stats, history
  <2>2. stack # <<>> /\ stack' = Pop(stack)
    BY <1>5, TracedExitPopsOwn
  <2>. QED
    BY <2>1, <2>2, CloseKeepsTime
<1>6. ASSUME NEW enabled \in BOOLEAN, SetSamplingMode(enabled) PROVE TimeInv'
  BY <1>6, SameTimes DEF SetSamplingMode, stats, history
<1>7. CASE UNCHANGED vars
  BY <1>7, SameTimes DEF vars, stats, history
<1>. QED
  BY <1>2, <1>3, <1>4, <1>5, <1>6, <1>7, TickKeepsTime DEF CallNext

LEMMA TimeHolds == SpecCalls => [](BalanceInv /\ TimeInv)
<1>1. Init => BalanceInv /\ TimeInv
  <2>. SUFFICES ASSUME Init PROVE TimeInv
    BY InitBalanceInv
  <2>1. DOMAIN stack = {} /\ total = Zero /\ lasted = Zero
    BY DEF Init
  <2>2. \A m : Pending(m) = {}
    BY <2>1 DEF Pending, FramesOf
  <2>3. \A m : Cardinality(Pending(m)) = 0
    BY <2>2, FS_EmptySet
  <2>4. \A id \in Ids : total[id] = 0 /\ lasted[id] = 0
    BY <2>1 DEF Zero
  <2>5. Methods \subseteq Ids
    BY DEF Ids
  <2>. QED
    BY <2>1, <2>3, <2>4, <2>5 DEF TimeInv, StartedBefore
<1>2. ASSUME BalanceInv, TimeInv, [CallNext]_vars PROVE BalanceInv' /\ TimeInv'
  BY <1>2, CallStepKeepsBalance, CallStepKeepsTime
<1>. QED
  BY <1>1, <1>2, PTL DEF SpecCalls

\* However the calls are sampled, nested and recursive, no method is reported
\* more time than its calls were in progress, although an exit may report the
\* duration of an outer call in place of its own (Profiler.recordExit 659-683).
THEOREM NeverOverReportedHolds == SpecCalls => []NeverOverReported
<1>1. ASSUME BalanceInv, TimeInv PROVE NeverOverReported
  <2>1. /\ stack \in Seq(Frame) /\ clock \in Nat
        /\ total \in [Ids -> Nat] /\ lasted \in [Ids -> Nat]
    BY <1>1 DEF BalanceInv, IInv, TypeOK
  <2>2. ASSUME NEW m \in Methods PROVE total[m] <= lasted[m]
    <3>1. Cardinality(Pending(m)) \in Nat /\ total[m] \in Nat /\ lasted[m] \in Nat
      BY <2>1, FinitePending DEF Ids
    <3>. QED
      BY <1>1, <3>1 DEF TimeInv
  <2>3. ASSUME NEW id \in Ids \ Methods PROVE total[id] <= lasted[id]
    BY <1>1, <2>1, <2>3 DEF TimeInv
  <2>. QED
    BY <2>2, <2>3 DEF NeverOverReported
<1>. QED
  BY <1>1, TimeHolds, PTL

----------------------------------------------------------------------------
(* Every call sampled, statements included.  A frame then stands for each  *)
(* call in progress, and the guess of an exit is always right.  What is    *)
(* not reported yet is counted again: of the total time of a frame, its    *)
(* pending moments; of its own time, what lies between its start and the   *)
(* next frame's (or now) and is not charged to it as a callee's.  A frame  *)
(* of an allocation boundary has no time, and its caller's own goes on.    *)

EndOf(i)   == IF i < Len(stack) /\ stack[i + 1].id \notin Traced THEN stack[i + 1].start ELSE clock
OwnTime(i) == EndOf(i) - (stack[i].start + stack[i].child)
Own(id)    == {p \in FramesOf(id) \X (1..clock) : p[2] <= OwnTime(p[1])}

Mirrors ==
  /\ recording /\ instrumented /\ unsampledDepth = 0 /\ clock > 0
  /\ Len(stack) = Len(calls)
  /\ \A i \in DOMAIN stack :
       /\ calls[i].hooked /\ calls[i].id = stack[i].id
       /\ IF stack[i].id \in Traced THEN stack[i].start = 0
          ELSE stack[i].start > 0 /\ stack[i].start <= clock
       /\ stack[i].subtract <=> stack[i].id \in Methods

ReportsExact ==
  /\ \A id \in Ids \ Traced : total[id] + Cardinality(Pending(id)) = lasted[id]
  /\ \A m \in Methods : self[m] + Cardinality(Own(m)) = ownTime[m]

ExactInv == IInv /\ Mirrors /\ ReportsExact

\* The frames that have a time of their own.
Clocked == {i \in DOMAIN stack : stack[i].id \notin Traced}

LEMMA MirrorFacts ==
  ASSUME IInv, Mirrors
  PROVE  /\ calls \in Seq(Call) /\ stack \in Seq(Frame) /\ clock \in Nat \ {0}
         /\ Len(stack) \in Nat /\ DOMAIN stack = 1..Len(stack) /\ DOMAIN calls = 1..Len(stack)
         /\ StartedBefore
         /\ \A i \in DOMAIN stack :
              /\ stack[i] \in Frame /\ stack[i].id \in Ids
              /\ stack[i].start \in Nat /\ stack[i].child \in Int
         /\ \A i \in Clocked : /\ i \in DOMAIN stack
                               /\ stack[i].start \in Nat \ {0} /\ stack[i].child \in Nat
                               /\ OwnTime(i) \in 0..clock
<1>1. /\ calls \in Seq(Call) /\ stack \in Seq(Frame) /\ clock \in Nat \ {0} /\ FramesNested
  BY DEF IInv, TypeOK, Mirrors
<1>2. Len(stack) \in Nat /\ DOMAIN stack = 1..Len(stack) /\ DOMAIN calls = 1..Len(stack)
  BY <1>1, LenProperties DEF Mirrors
<1>3. \A i \in DOMAIN stack : stack[i] \in Frame
  BY <1>1, <1>2, ElementOfSeq
<1>4. \A i \in DOMAIN stack : /\ stack[i].id \in Ids
                              /\ stack[i].start \in Nat /\ stack[i].child \in Int
  <2>1. \A f \in Frame : f.id \in Ids /\ f.start \in Nat /\ f.child \in Int
    BY DEF Frame
  <2>. QED
    BY <1>3, <2>1
<1>5. TimedFrames = Clocked /\ StartedBefore
  BY <1>1, <1>4 DEF TimedFrames, Clocked, Mirrors, StartedBefore
<1>6. ASSUME NEW i \in Clocked
      PROVE  /\ stack[i].start \in Nat \ {0} /\ stack[i].child \in Nat
             /\ OwnTime(i) \in 0..clock
  <2>1. /\ stack[i].child >= 0 /\ stack[i].start + stack[i].child <= clock
        /\ \A j \in Clocked : i < j => stack[i].start + stack[i].child <= stack[j].start
    BY <1>1, <1>5 DEF FramesNested
  <2>2. EndOf(i) \in Nat /\ EndOf(i) <= clock /\ stack[i].start + stack[i].child <= EndOf(i)
    <3>1. CASE i < Len(stack) /\ stack[i + 1].id \notin Traced
      <4>1. i + 1 \in Clocked /\ i < i + 1
        BY <1>2, <3>1 DEF Clocked
      <4>. QED
        BY <1>4, <2>1, <3>1, <4>1 DEF EndOf, Mirrors, Clocked
    <3>2. CASE ~(i < Len(stack) /\ stack[i + 1].id \notin Traced)
      BY <1>1, <2>1, <3>2 DEF EndOf
    <3>. QED
      BY <3>1, <3>2
  <2>3. stack[i].start \in Nat \ {0} /\ stack[i].child \in Int /\ stack[i].child >= 0
    BY <1>4, <1>5, <2>1 DEF TimedFrames
  <2>4. PICK a \in Nat \ {0}, c \in Int, e \in Nat :
          /\ a = stack[i].start /\ c = stack[i].child /\ e = EndOf(i)
          /\ c >= 0 /\ a + c <= e /\ e <= clock
    BY <2>2, <2>3
  <2>5. c \in Nat /\ e - (a + c) \in 0..clock
    BY <1>1, <2>4
  <2>. QED
    BY <2>4, <2>5, Zenon DEF OwnTime
<1>7. \A i \in Clocked : i \in DOMAIN stack
  BY DEF Clocked
<1>. QED
  BY <1>1, <1>2, <1>3, <1>4, <1>5, <1>6, <1>7

LEMMA FiniteOwn ==
  ASSUME IInv, Mirrors, NEW id
  PROVE  IsFiniteSet(Own(id)) /\ Cardinality(Own(id)) \in Nat
<1>1. IsFiniteSet(FramesOf(id)) /\ IsFiniteSet(1..clock)
  BY MirrorFacts, FinitePending, FS_Interval
<1>2. IsFiniteSet(FramesOf(id) \X (1..clock))
  BY <1>1, FS_Product
<1>3. Own(id) \in SUBSET (FramesOf(id) \X (1..clock))
  BY DEF Own
<1>. QED
  BY <1>2, <1>3, FS_Subset, FS_CardinalityType

\* A call begins, and its frame: nothing is owed to it yet.
LEMMA EnterKeepsExact ==
  ASSUME ExactInv, NEW c \in Call, c.hooked, NEW f \in Frame, f.id = c.id,
         f.start = IF f.id \in Traced THEN 0 ELSE clock,
         f.child = 0, f.subtract <=> f.id \in Methods,
         calls' = Append(calls, c), stack' = Append(stack, f),
         UNCHANGED <<self, total, recording, instrumented, unsampledDepth, history>>
  PROVE  Mirrors' /\ ReportsExact'
<1> DEFINE n == Len(stack) + 1
<1>1. /\ calls \in Seq(Call) /\ stack \in Seq(Frame) /\ clock \in Nat \ {0} /\ StartedBefore
      /\ Len(stack) \in Nat /\ DOMAIN stack = 1..Len(stack) /\ DOMAIN calls = 1..Len(stack)
      /\ Len(calls) = Len(stack) /\ clock' = clock
      /\ Mirrors /\ ReportsExact
  BY MirrorFacts DEF ExactInv, Mirrors, history
<1>2. /\ DOMAIN stack' = DOMAIN stack \cup {n} /\ n \notin DOMAIN stack
      /\ Len(stack') = n /\ Len(calls') = n
      /\ \A i \in DOMAIN stack : stack'[i] = stack[i] /\ calls'[i] = calls[i]
      /\ stack'[n] = f /\ calls'[n] = c
  <2>1. /\ Len(stack') = n /\ DOMAIN stack' = 1..n /\ stack'[n] = f
        /\ \A i \in 1..Len(stack) : stack'[i] = stack[i]
    BY <1>1, AppendDomain
  <2>2. /\ Len(calls') = n /\ calls'[n] = c
        /\ \A i \in 1..Len(calls) : calls'[i] = calls[i]
    BY <1>1, AppendDomain
  <2>. QED
    BY <1>1, <2>1, <2>2
<1>3. Mirrors'
  <2>1. ASSUME NEW i \in DOMAIN stack'
        PROVE  /\ calls'[i].hooked /\ calls'[i].id = stack'[i].id
               /\ IF stack'[i].id \in Traced THEN stack'[i].start = 0
                  ELSE stack'[i].start > 0 /\ stack'[i].start <= clock'
               /\ stack'[i].subtract <=> stack'[i].id \in Methods
    <3>1. CASE i = n
      BY <1>1, <1>2, <3>1
    <3>2. CASE i \in DOMAIN stack
      BY <1>1, <1>2, <3>2 DEF Mirrors
    <3>. QED
      BY <1>2, <3>1, <3>2
  <2>. QED
    BY <1>1, <1>2, <2>1 DEF Mirrors
<1>4. \A id : id \notin Traced => Pending(id)' = Pending(id)
  BY <1>1, PushKeepsPending
<1>5. /\ \A i \in DOMAIN stack : OwnTime(i)' = OwnTime(i)
      /\ f.id \notin Traced => \A i : i = n => OwnTime(i)' = 0
  <2>1. ASSUME NEW i \in DOMAIN stack PROVE OwnTime(i)' = OwnTime(i)
    <3>1. i < Len(stack') /\ i \in 1..Len(stack)
      BY <1>1, <1>2
    <3>2. EndOf(i)' = EndOf(i)
      <4>1. CASE i < Len(stack)
        <5>1. i + 1 \in DOMAIN stack
          BY <1>1, <4>1
        <5>. QED
          BY <1>1, <1>2, <3>1, <4>1, <5>1 DEF EndOf
      <4>2. CASE ~(i < Len(stack))
        <5>1. i + 1 = n
          BY <1>1, <3>1, <4>2
        <5>. QED
          BY <1>1, <1>2, <3>1, <4>2, <5>1 DEF EndOf
      <4>. QED
        BY <4>1, <4>2
    <3>. QED
      BY <1>2, <3>2 DEF OwnTime
  <2>2. ASSUME NEW i, i = n, f.id \notin Traced PROVE OwnTime(i)' = 0
    <3>1. EndOf(i)' = clock' /\ stack'[i].start = clock /\ stack'[i].child = 0
      BY <1>1, <1>2, <2>2 DEF EndOf
    <3>. QED
      BY <1>1, <3>1 DEF OwnTime
  <2>. QED
    BY <2>1, <2>2
<1>6. ASSUME NEW id, id \notin Traced PROVE Own(id)' = Own(id)
  <2>1. ASSUME NEW i, NEW k \in 1..clock
        PROVE  /\ i \in FramesOf(id)' /\ k <= OwnTime(i)' => i \in FramesOf(id) /\ k <= OwnTime(i)
               /\ i \in FramesOf(id) /\ k <= OwnTime(i) => i \in FramesOf(id)' /\ k <= OwnTime(i)'
    <3>1. i \in DOMAIN stack => /\ i \in DOMAIN stack' /\ stack'[i] = stack[i]
                                /\ OwnTime(i)' = OwnTime(i)
      BY <1>2, <1>5
    <3>2. i \in DOMAIN stack' /\ i \notin DOMAIN stack /\ stack'[i].id = id => OwnTime(i)' = 0
      BY <1>2, <1>5, <1>6
    <3>. QED
      BY <1>1, <3>1, <3>2 DEF FramesOf
  <2>. QED
    BY <1>1, <2>1 DEF Own
<1>7. \A m \in Methods : m \notin Traced
  BY HooksAssumption
<1>. QED
  BY <1>1, <1>3, <1>4, <1>6, <1>7 DEF ReportsExact, history

\* The innermost call returns and its own frame is closed and reported.
LEMMA ExitClosesOwn ==
  ASSUME ExactInv, calls # <<>>, Top(calls).id \notin Traced, RecordExit(Top(calls).id)
  PROVE  /\ stack # <<>> /\ Top(stack).id = Top(calls).id
         /\ CloseTimedFrame(Top(calls).id)
<1>1. /\ Mirrors /\ calls \in Seq(Call) /\ stack \in Seq(Frame) /\ Len(stack) \in Nat
      /\ DOMAIN stack = 1..Len(stack) /\ Len(calls) = Len(stack)
      /\ \A i \in Clocked : stack[i].start \in Nat \ {0}
  BY MirrorFacts DEF ExactInv, Mirrors
<1>2. Len(stack) \in DOMAIN stack /\ stack # <<>>
  <2>1. Len(calls) # 0
    BY <1>1, PopProperties
  <2>. QED
    BY <1>1, <2>1, EmptySeq
<1>3. Top(stack).id = Top(calls).id /\ Top(stack).start # 0
  <2>1. Top(stack).id = Top(calls).id
    BY <1>1, <1>2 DEF Mirrors, Top
  <2>2. Len(stack) \in Clocked
    BY <1>2, <2>1 DEF Clocked, Top
  <2>. QED
    BY <1>1, <2>1, <2>2 DEF Top
<1>4. ~OnlyUnsampled /\ ClosesTop(Top(calls).id)
  BY <1>1, <1>2, <1>3 DEF OnlyUnsampled, ClosesTop, Mirrors
<1>. QED
  BY <1>2, <1>3, <1>4 DEF RecordExit

\* What is left when the frame on top has been closed and charged to its caller.
LEMMA ClosedFrames ==
  ASSUME ExactInv, stack # <<>>, stack' = Closed(clock - Top(stack).start)
  PROVE  /\ stack' \in Seq(Frame) /\ Len(stack) \in Nat \ {0} /\ Len(stack') = Len(stack) - 1
         /\ DOMAIN stack = 1..Len(stack) /\ DOMAIN stack' = 1..(Len(stack) - 1)
         /\ Top(stack) = stack[Len(stack)]
         /\ \A i \in DOMAIN stack' :
              /\ stack'[i].id = stack[i].id /\ stack'[i].start = stack[i].start
              /\ stack'[i].subtract = stack[i].subtract
              /\ stack'[i].child = IF i = Len(stack) - 1
                                   THEN stack[i].child + (clock - Top(stack).start)
                                   ELSE stack[i].child
<1>1. /\ stack \in Seq(Frame) /\ clock \in Nat
      /\ \A i \in DOMAIN stack : stack[i].start \in Nat
  BY MirrorFacts DEF ExactInv
<1>2. /\ Len(stack) \in Nat \ {0} /\ DOMAIN stack = 1..Len(stack)
      /\ Pop(stack) \in Seq(Frame) /\ Len(Pop(stack)) = Len(stack) - 1
      /\ DOMAIN Pop(stack) = 1..(Len(stack) - 1)
      /\ \A i \in 1..(Len(stack) - 1) : Pop(stack)[i] = stack[i]
  BY <1>1, PopProperties
<1>3. Top(stack) = stack[Len(stack)] /\ clock - Top(stack).start \in Int
  BY <1>1, <1>2 DEF Top
<1> DEFINE d == clock - Top(stack).start
<1>4. /\ stack' \in Seq(Frame) /\ Len(stack') = Len(stack) - 1
      /\ DOMAIN stack' = 1..(Len(stack) - 1)
      /\ \A i \in DOMAIN stack' :
           /\ stack'[i].id = Pop(stack)[i].id /\ stack'[i].start = Pop(stack)[i].start
           /\ stack'[i].subtract = Pop(stack)[i].subtract
           /\ stack'[i].child = IF i = Len(stack) - 1 THEN Pop(stack)[i].child + d
                                                      ELSE Pop(stack)[i].child
  <2>1. PICK rest \in Seq(Frame), charge \in Int : rest = Pop(stack) /\ charge = d
    BY <1>2, <1>3
  <2>2. stack' = ChargeParent(rest, charge)
    BY <2>1 DEF Closed
  <2>3. Len(rest) = Len(stack) - 1 /\ DOMAIN rest = 1..(Len(stack) - 1)
    BY <1>2, <2>1
  <2>4. PICK next : next = ChargeParent(rest, charge)
    OBVIOUS
  <2>5. /\ next \in Seq(Frame) /\ Len(next) = Len(rest) /\ DOMAIN next = DOMAIN rest
        /\ \A i \in DOMAIN rest :
             /\ next[i].id = rest[i].id /\ next[i].start = rest[i].start
             /\ next[i].subtract = rest[i].subtract
             /\ next[i].child = IF i = Len(rest) THEN rest[i].child + charge ELSE rest[i].child
    BY <2>1, <2>4, ChargeParentProperties
  <2>6. stack' = next
    BY <2>2, <2>4
  <2>. HIDE DEF d
  <2>7. ASSUME NEW i \in DOMAIN stack'
        PROVE  /\ stack'[i].id = Pop(stack)[i].id /\ stack'[i].start = Pop(stack)[i].start
               /\ stack'[i].subtract = Pop(stack)[i].subtract
               /\ stack'[i].child = IF i = Len(stack) - 1 THEN Pop(stack)[i].child + d
                                                          ELSE Pop(stack)[i].child
    BY <2>1, <2>3, <2>5, <2>6
  <2>8. stack' \in Seq(Frame) /\ Len(stack') = Len(stack) - 1 /\ DOMAIN stack' = 1..(Len(stack) - 1)
    BY <2>3, <2>5, <2>6
  <2>. QED
    BY <2>7, <2>8
<1>5. ASSUME NEW i \in DOMAIN stack'
      PROVE  /\ stack'[i].id = stack[i].id /\ stack'[i].start = stack[i].start
             /\ stack'[i].subtract = stack[i].subtract
             /\ stack'[i].child = IF i = Len(stack) - 1 THEN stack[i].child + d
                                                        ELSE stack[i].child
  <2>1. Pop(stack)[i] = stack[i]
    BY <1>2, <1>4
  <2>. HIDE DEF d
  <2>. QED
    BY <1>4, <2>1
<1>6. stack' \in Seq(Frame) /\ Len(stack') = Len(stack) - 1 /\ DOMAIN stack' = 1..(Len(stack) - 1)
  BY <1>4
<1>7. Len(stack) \in Nat \ {0} /\ DOMAIN stack = 1..Len(stack) /\ Top(stack) = stack[Len(stack)]
  BY <1>2, <1>3
<1>. QED
  BY <1>5, <1>6, <1>7

LEMMA ChargedMoves ==
  ASSUME NEW x \in Nat, NEW a \in Nat, NEW b \in Int, NEW e \in Nat
  PROVE  x - (a + (b + (x - e))) = e - (a + b)
OBVIOUS

\* A frame that is closed changes what no other frame has of its own: the end of
\* its caller's time moves on by the duration that its caller is charged.
LEMMA PopKeepsOwn ==
  ASSUME ExactInv, stack # <<>>, stack' = Closed(clock - Top(stack).start), clock' = clock,
         Top(stack).id \notin Traced
  PROVE  /\ \A id : Own(id)' \subseteq Own(id)
         /\ \A id : id # Top(stack).id => Own(id)' = Own(id)
         /\ OwnTime(Len(stack)) = clock - Top(stack).start - Top(stack).child
         /\ \A id : id = Top(stack).id =>
              Cardinality(Own(id)') + OwnTime(Len(stack)) = Cardinality(Own(id))
<1>0. /\ Len(stack) \in Nat \ {0} /\ clock \in Nat
      /\ \A i \in DOMAIN stack : stack[i].start \in Nat /\ stack[i].child \in Int
      /\ \A i \in Clocked : OwnTime(i) \in 0..clock
  BY MirrorFacts, ClosedFrames, Zenon DEF ExactInv
<1>n. PICK n \in Nat \ {0} : n = Len(stack)
  BY <1>0
<1>1. /\ n \in Nat \ {0} /\ Len(stack') = n - 1 /\ Top(stack) = stack[n]
      /\ DOMAIN stack = 1..n /\ DOMAIN stack' = 1..(n - 1)
      /\ \A i \in DOMAIN stack' :
           /\ stack'[i].id = stack[i].id /\ stack'[i].start = stack[i].start
           /\ stack'[i].child = IF i = n - 1
                                THEN stack[i].child + (clock - stack[n].start)
                                ELSE stack[i].child
  BY <1>n, ClosedFrames
<1>2. /\ clock \in Nat /\ n \in DOMAIN stack
      /\ \A i \in DOMAIN stack : stack[i].start \in Nat /\ stack[i].child \in Int
      /\ OwnTime(n) \in 0..clock
  <2>1. n \in DOMAIN stack
    BY <1>1
  <2>2. n \in Clocked
    BY <1>1, <2>1 DEF Clocked
  <2>. QED
    BY <1>0, <2>1, <2>2
<1>3. ASSUME NEW i \in DOMAIN stack' PROVE OwnTime(i)' = OwnTime(i)
  <2>1. i \in DOMAIN stack /\ i < n /\ i + 1 \in DOMAIN stack
    BY <1>1
  <2>2. CASE i = n - 1
    <3>1. EndOf(i)' = clock /\ i + 1 = n /\ EndOf(i) = stack[n].start
      <4>1. i + 1 = n /\ i < Len(stack) /\ ~(i < Len(stack'))
        <5>1. i + 1 = n /\ ~(i < n - 1)
          BY <1>n, <2>2
        <5>. QED
          BY <1>1, <1>n, <2>1, <5>1
      <4>2. stack[i + 1].id \notin Traced
        <5>1. stack[n].id \notin Traced
          BY <1>1
        <5>. QED
          BY <4>1, <5>1
      <4>. QED
        BY <4>1, <4>2 DEF EndOf
    <3>2. /\ OwnTime(i)' = clock - (stack[i].start + (stack[i].child + (clock - stack[n].start)))
          /\ OwnTime(i) = stack[n].start - (stack[i].start + stack[i].child)
      BY <1>1, <2>2, <3>1 DEF OwnTime
    <3>3. PICK a \in Nat, b \in Int, e \in Nat :
            a = stack[i].start /\ b = stack[i].child /\ e = stack[n].start
      BY <1>2, <2>1, Zenon
    <3>4. clock - (a + (b + (clock - e))) = e - (a + b)
      BY <1>2, ChargedMoves
    <3>. QED
      BY <3>2, <3>3, <3>4, Zenon
  <2>3. CASE i # n - 1
    <3>1. EndOf(i)' = EndOf(i)
      <4>1. i < n - 1 /\ i + 1 \in DOMAIN stack'
        BY <1>1, <2>1, <2>3
      <4>. QED
        BY <1>1, <1>n, <2>1, <4>1 DEF EndOf
    <3>. QED
      BY <1>1, <2>3, <3>1 DEF OwnTime
  <2>. QED
    BY <2>2, <2>3
<1>4. \A i : i \in DOMAIN stack' <=> i \in DOMAIN stack /\ i # n
  BY <1>1
<1>5. \A id : \A p : p \in Own(id)' <=> p \in Own(id) /\ p[1] # n
  <2>1. \A id : \A i : i \in FramesOf(id)' <=> i \in FramesOf(id) /\ i # n
    BY <1>1, <1>4 DEF FramesOf
  <2>2. \A id : \A i \in FramesOf(id)' : OwnTime(i)' = OwnTime(i)
    BY <1>3 DEF FramesOf
  <2>. QED
    BY <2>1, <2>2 DEF Own
<1>6. ASSUME NEW id, id # Top(stack).id PROVE Own(id)' = Own(id)
  <2>1. n \notin FramesOf(id)
    BY <1>1, <1>6 DEF FramesOf
  <2>2. \A p \in Own(id) : p[1] \in FramesOf(id)
    BY DEF Own
  <2>3. \A p : p \in Own(id)' <=> p \in Own(id)
    BY <1>5, <2>1, <2>2
  <2>4. \A p \in Own(id)' : p \in Own(id)
    BY <2>3
  <2>5. \A p \in Own(id) : p \in Own(id)'
    BY <2>3
  <2>. QED
    BY <2>4, <2>5
<1>7. OwnTime(n) = clock - stack[n].start - stack[n].child
  <2>1. OwnTime(n) = clock - (stack[n].start + stack[n].child)
    BY <1>n DEF OwnTime, EndOf
  <2>. QED
    BY <1>2, <2>1
<1>8. ASSUME NEW id, id = Top(stack).id
      PROVE  Cardinality(Own(id)') + OwnTime(n) = Cardinality(Own(id))
  <2>0. PICK time \in 0..clock : time = OwnTime(n)
    BY <1>2
  <2> DEFINE gone == {n} \X (1..time)
  <2>1. IsFiniteSet(gone) /\ Cardinality(gone) = time
    <3>0. time \in Nat
      BY <1>0, <2>0
    <3>1. /\ IsFiniteSet(1..time) /\ Cardinality(1..time) = time
          /\ IsFiniteSet({n}) /\ Cardinality({n}) = 1
      <4>1. IsFiniteSet(1..time)
            /\ Cardinality(1..time) = IF 1 > time THEN 0 ELSE time - 1 + 1
        BY <3>0, FS_Interval
      <4>2. (IF 1 > time THEN 0 ELSE time - 1 + 1) = time
        BY <3>0
      <4>. QED
        BY <4>1, <4>2, FS_Singleton
    <3>2. IsFiniteSet(gone) /\ Cardinality(gone) = Cardinality({n}) * Cardinality(1..time)
      BY <3>1, FS_Product
    <3>. QED
      BY <3>0, <3>1, <3>2
  <2>2. \A p : p \in gone <=> p \in Own(id) /\ p[1] = n
    <3>1. n \in FramesOf(id)
      BY <1>1, <1>2, <1>8 DEF FramesOf
    <3>2. \A k : k \in 1..time <=> k \in 1..clock /\ k <= OwnTime(n)
      BY <1>2, <2>0
    <3>. QED
      BY <3>1, <3>2 DEF Own
  <2>3. Own(id)' = Own(id) \ gone /\ Own(id) \cap gone = gone
    BY <1>5, <2>2
  <2>4. IsFiniteSet(Own(id)) /\ Cardinality(Own(id)) \in Nat
    BY FiniteOwn DEF ExactInv
  <2>. HIDE DEF gone
  <2>5. Cardinality(Own(id) \ gone) = Cardinality(Own(id)) - Cardinality(Own(id) \cap gone)
    BY <2>4, FS_Difference
  <2>6. Cardinality(Own(id)') = Cardinality(Own(id)) - time
    BY <2>1, <2>3, <2>5
  <2>. QED
    BY <2>0, <2>4, <2>6
<1>9. \A id : Own(id)' \subseteq Own(id)
  BY <1>5
<1>. QED
  BY <1>1, <1>6, <1>7, <1>8, <1>9, <1>n

\* An allocation boundary returns: nothing of its own was counted, and its
\* caller's own time, which has not stopped, ends now as it did before.
LEMMA TracedExitKeepsExact ==
  ASSUME ExactInv, calls # <<>>, calls' = Pop(calls), Top(calls).id \in Traced,
         RecordAllocationTraceExit(Top(calls).id),
         UNCHANGED <<recording, instrumented, history>>
  PROVE  Mirrors' /\ ReportsExact'
<1>1. /\ calls \in Seq(Call) /\ stack \in Seq(Frame) /\ clock \in Nat /\ StartedBefore
      /\ Len(calls) = Len(stack) /\ Mirrors /\ ReportsExact
      /\ UNCHANGED <<self, total, unsampledDepth, clock, ownTime, lasted>>
  BY MirrorFacts DEF ExactInv, Mirrors, RecordAllocationTraceExit, counters, history
<1>n. PICK n \in Nat \ {0} : n = Len(calls) /\ Top(calls) = calls[n] /\ n \in DOMAIN calls
  BY <1>1, PopProperties DEF Top
<1>2. /\ stack # <<>> /\ DOMAIN stack = 1..n /\ Len(stack) = n /\ Top(stack) = stack[n]
      /\ Top(stack).id = Top(calls).id
  <2>1. stack # <<>> /\ DOMAIN stack = 1..n
    BY <1>1, <1>n, LenProperties, EmptySeq
  <2>2. Top(stack) = stack[n] /\ Len(stack) = n
    BY <1>1, <1>n DEF Top
  <2>3. stack[n].id = calls[n].id
    BY <1>1, <1>n, <2>1 DEF Mirrors
  <2>. QED
    BY <1>n, <2>1, <2>2, <2>3
<1>3. stack' = Pop(stack)
  BY <1>2 DEF RecordAllocationTraceExit
<1>4. /\ stack' \in Seq(Frame) /\ Len(stack') = n - 1 /\ DOMAIN stack' = 1..(n - 1)
      /\ \A i \in 1..(n - 1) : stack'[i] = stack[i]
      /\ Len(calls') = n - 1 /\ \A i \in 1..(n - 1) : calls'[i] = calls[i]
  BY <1>1, <1>n, <1>2, <1>3, PopProperties
<1>5. Mirrors'
  <2>1. \A i \in DOMAIN stack' : /\ i \in DOMAIN stack /\ calls'[i] = calls[i]
                                 /\ stack'[i] = stack[i]
    BY <1>2, <1>4
  <2>. QED
    BY <1>1, <1>4, <2>1 DEF Mirrors
<1>6. ASSUME NEW id, id \notin Traced
      PROVE  Pending(id)' = Pending(id) /\ Own(id)' = Own(id)
  <2>1. Pending(id)' = Pending(id)
    BY <1>1, <1>2, <1>4, <1>6, PopKeepsPending
  <2>2. \A i \in DOMAIN stack' : i \in DOMAIN stack /\ i # n /\ OwnTime(i)' = OwnTime(i)
    <3>1. ASSUME NEW i \in DOMAIN stack' PROVE EndOf(i)' = EndOf(i)
      <4>1. i \in Nat /\ i < n /\ i + 1 \in 1..n
        BY <1>4
      <4>2. CASE i = n - 1
        BY <1>1, <1>2, <1>4, <4>1, <4>2 DEF EndOf
      <4>3. CASE i # n - 1
        <5>1. i + 1 \in 1..(n - 1)
          BY <4>1, <4>3
        <5>. QED
          BY <1>1, <1>2, <1>4, <4>1, <5>1 DEF EndOf
      <4>. QED
        BY <4>2, <4>3
    <3>. QED
      BY <1>2, <1>4, <3>1 DEF OwnTime
  <2>3. FramesOf(id)' = FramesOf(id)
    <3>1. \A i : i \in DOMAIN stack <=> i \in DOMAIN stack' \/ i = n
      BY <1>2, <1>4
    <3>. QED
      BY <1>2, <1>4, <1>6, <3>1 DEF FramesOf
  <2>4. \A i \in FramesOf(id) : OwnTime(i)' = OwnTime(i)
    BY <2>2, <2>3 DEF FramesOf
  <2>. QED
    BY <1>1, <2>1, <2>3, <2>4 DEF Own
<1>7. \A m \in Methods : m \notin Traced
  BY HooksAssumption
<1>. QED
  BY <1>1, <1>5, <1>6, <1>7 DEF ReportsExact

LEMMA ExitKeepsExact ==
  ASSUME ExactInv, calls # <<>>, calls' = Pop(calls), Top(calls).id \notin Traced,
         RecordExit(Top(calls).id),
         UNCHANGED <<recording, instrumented, history>>
  PROVE  Mirrors' /\ ReportsExact'
<1> DEFINE id == Top(calls).id
           duration == clock - Top(stack).start
<1>1. /\ stack # <<>> /\ Top(stack).id = id /\ CloseTimedFrame(id)
      /\ stack' = Closed(duration) /\ unsampledDepth' = unsampledDepth
      /\ UNCHANGED <<clock, ownTime, lasted>>
  BY ExitClosesOwn DEF CloseTimedFrame, history
<1>2. /\ calls \in Seq(Call) /\ stack \in Seq(Frame) /\ clock \in Nat \ {0} /\ StartedBefore
      /\ DOMAIN calls = DOMAIN stack /\ Len(calls) = Len(stack) /\ Mirrors /\ ReportsExact
      /\ self \in [Ids -> Nat] /\ total \in [Ids -> Nat]
      /\ ownTime \in [Ids -> Nat] /\ lasted \in [Ids -> Nat]
  BY MirrorFacts DEF ExactInv, Mirrors, IInv, TypeOK
<1>3. /\ stack' \in Seq(Frame) /\ Len(stack) \in Nat \ {0} /\ Len(stack') = Len(stack) - 1
      /\ DOMAIN stack = 1..Len(stack) /\ DOMAIN stack' = 1..(Len(stack) - 1)
      /\ Top(stack) = stack[Len(stack)]
      /\ \A i \in DOMAIN stack' :
           /\ stack'[i].id = stack[i].id /\ stack'[i].start = stack[i].start
           /\ stack'[i].subtract = stack[i].subtract
  BY <1>1, ClosedFrames
<1>4. Mirrors'
  <2>1. /\ Len(calls') = Len(stack) - 1
        /\ \A i \in 1..(Len(stack) - 1) : calls'[i] = calls[i]
    BY <1>2, PopProperties
  <2>2. \A i \in DOMAIN stack' : i \in DOMAIN stack /\ calls'[i] = calls[i]
    BY <1>3, <2>1
  <2>3. ASSUME NEW i \in DOMAIN stack'
        PROVE  /\ calls'[i].hooked /\ calls'[i].id = stack'[i].id
               /\ IF stack'[i].id \in Traced THEN stack'[i].start = 0
                  ELSE stack'[i].start > 0 /\ stack'[i].start <= clock
               /\ stack'[i].subtract <=> stack'[i].id \in Methods
    BY <1>2, <1>3, <2>2 DEF Mirrors
  <2>4. recording' /\ instrumented' /\ unsampledDepth' = 0 /\ clock' = clock /\ clock > 0
    BY <1>1, <1>2 DEF Mirrors
  <2>5. Len(stack') = Len(calls')
    BY <1>3, <2>1
  <2>. QED
    BY <2>3, <2>4, <2>5 DEF Mirrors
<1>5. Len(stack) \in DOMAIN stack /\ Top(stack).start \in Nat \ {0} /\ Top(stack).child \in Nat
      /\ id \in Ids /\ OwnTime(Len(stack)) \in 0..clock
      /\ (Top(stack).subtract <=> id \in Methods)
  <2>0. Len(stack) \in DOMAIN stack
    BY <1>3
  <2>1. PICK n \in DOMAIN stack : n = Len(stack) /\ Top(stack) = stack[n] /\ stack[n].id = id
    BY <1>1, <1>3, <2>0, Zenon
  <2>2. /\ stack[n].id \in Ids /\ stack[n].start \in Nat \ {0} /\ stack[n].child \in Nat
        /\ OwnTime(n) \in 0..clock
    <3>1. n \in Clocked
      BY <1>1, <2>1 DEF Clocked
    <3>. QED
      BY <2>1, <3>1, MirrorFacts DEF ExactInv
  <2>3. stack[n].subtract <=> stack[n].id \in Methods
    BY <1>2, <2>1 DEF Mirrors
  <2>. HIDE DEF id
  <2>. QED
    BY <2>1, <2>2, <2>3
<1>6. ASSUME NEW m \in Ids \ Traced PROVE total'[m] + Cardinality(Pending(m)') = lasted'[m]
  <2>1. /\ \A i \in 1..Len(stack') : stack'[i].id = stack[i].id /\ stack'[i].start = stack[i].start
        /\ clock \in Nat /\ clock' = clock
    BY <1>1, <1>2, <1>3
  <2>2. /\ m # Top(stack).id => Pending(m)' = Pending(m)
        /\ m = Top(stack).id =>
             Cardinality(Pending(m)') + duration = Cardinality(Pending(m))
        /\ Top(stack).start <= clock
    BY <1>1, <1>2, <1>3, <2>1, PopKeepsPending
  <2>3. Cardinality(Pending(m)) \in Nat /\ Cardinality(Pending(m)') \in Nat
    <3>1. IsFiniteSet(Pending(m)) /\ Pending(m)' \subseteq Pending(m)
      BY <1>1, <1>2, <1>3, <2>1, FinitePending, PopKeepsPending
    <3>. QED
      BY <3>1, FS_Subset, FS_CardinalityType
  <2>4. total' = [total EXCEPT ![id] = @ + duration]
    BY <1>1 DEF CloseTimedFrame
  <2>5. total'[m] = IF m = id THEN total[m] + duration ELSE total[m]
    BY <1>2, <1>5, <2>4
  <2>6. total[m] + Cardinality(Pending(m)) = lasted[m] /\ duration \in Nat /\ total[m] \in Nat
    BY <1>2, <1>5, <2>2 DEF ReportsExact
  <2>. HIDE DEF id, duration
  <2>7. CASE m = id
    BY <1>1, <2>2, <2>3, <2>5, <2>6, <2>7
  <2>8. CASE m # id
    BY <1>1, <2>2, <2>5, <2>6, <2>8
  <2>. QED
    BY <2>7, <2>8
<1>7. ASSUME NEW m \in Methods PROVE self'[m] + Cardinality(Own(m)') = ownTime'[m]
  <2>1. /\ m # id => Own(m)' = Own(m)
        /\ OwnTime(Len(stack)) = duration - Top(stack).child
        /\ m = id => Cardinality(Own(m)') + OwnTime(Len(stack)) = Cardinality(Own(m))
        /\ Own(m)' \subseteq Own(m) /\ IsFiniteSet(Own(m))
    BY <1>1, FiniteOwn, PopKeepsOwn DEF ExactInv
  <2>2. /\ m \in Ids /\ self[m] \in Nat /\ self[m] + Cardinality(Own(m)) = ownTime[m]
        /\ Cardinality(Own(m)) \in Nat
    BY <1>2, FiniteOwn DEF ReportsExact, Ids, ExactInv
  <2> DEFINE own == IF Top(stack).subtract THEN duration - Top(stack).child ELSE duration
  <2>3. self' = [self EXCEPT ![id] = @ + (IF own < 0 THEN 0 ELSE own)]
    BY <1>1 DEF CloseTimedFrame
  <2>4. m = id => own = OwnTime(Len(stack))
    BY <1>5, <2>1
  <2>. HIDE DEF own, id, duration
  <2>5. PICK time \in Nat : time = OwnTime(Len(stack))
    BY <1>2, <1>5
  <2>6. CASE m # id
    <3>1. self'[m] = self[m]
      BY <1>2, <2>2, <2>3, <2>6
    <3>. QED
      BY <1>1, <2>1, <2>2, <2>6, <3>1
  <2>7. CASE m = id
    <3>1. own = time /\ ~(own < 0)
      BY <2>4, <2>5, <2>7
    <3>2. self'[m] = self[m] + time
      BY <1>2, <2>2, <2>3, <2>7, <3>1
    <3>3. Cardinality(Own(m)') + time = Cardinality(Own(m))
      BY <2>1, <2>5, <2>7
    <3>4. Cardinality(Own(m)') \in Nat
      BY <2>1, FS_Subset, FS_CardinalityType
    <3>. QED
      BY <1>1, <2>2, <2>5, <3>2, <3>3, <3>4
  <2>. QED
    BY <2>6, <2>7
<1>. QED
  BY <1>4, <1>6, <1>7 DEF ReportsExact

\* A moment passes in all calls that are in progress, and of the frames' own time
\* for those that no charge of a callee will take it from.
LEMMA TickKeepsExact ==
  ASSUME ExactInv, Tick
  PROVE  Mirrors' /\ ReportsExact'
<1>1. /\ calls \in Seq(Call) /\ stack \in Seq(Frame) /\ clock \in Nat \ {0} /\ StartedBefore
      /\ DOMAIN stack = 1..Len(stack) /\ DOMAIN calls = DOMAIN stack
      /\ Len(stack) \in Nat \ {0} /\ Len(calls) = Len(stack) /\ Mirrors /\ ReportsExact
      /\ \A i \in DOMAIN stack : stack[i].start \in Nat /\ stack[i].child \in Int
      /\ \A i \in Clocked : OwnTime(i) \in 0..clock
  <2>1. Len(calls) \in Nat \ {0}
    BY PopProperties DEF ExactInv, IInv, TypeOK, Tick
  <2>. QED
    BY <2>1, MirrorFacts DEF ExactInv, Mirrors
<1>2. PICK n \in Nat \ {0} : n = Len(stack)
  BY <1>1
<1>3. /\ UNCHANGED <<calls, stack, self, total, recording, instrumented, unsampledDepth>>
      /\ clock' = clock + 1
      /\ ownTime' = [id \in Ids |-> ownTime[id] + Cardinality(CallsOf(id) \cap Running)]
      /\ lasted' = [id \in Ids |-> lasted[id] + Cardinality(CallsOf(id))]
  BY <1>1, <1>2 DEF Tick, NoHook, counters, stats, AgentElsewhere
<1>4. Mirrors'
  <2>1. \A i \in DOMAIN stack : stack[i].id \notin Traced => stack[i].start <= clock + 1
    BY <1>1 DEF Mirrors
  <2>. QED
    BY <1>1, <1>3, <2>1 DEF Mirrors
<1>5. /\ self \in [Ids -> Nat] /\ total \in [Ids -> Nat]
      /\ ownTime \in [Ids -> Nat] /\ lasted \in [Ids -> Nat]
  BY DEF ExactInv, IInv, TypeOK
<1>6. ASSUME NEW id \in Ids \ Traced PROVE total'[id] + Cardinality(Pending(id)') = lasted'[id]
  <2>1. CallsOf(id) = FramesOf(id)
    BY <1>1 DEF CallsOf, FramesOf, Mirrors
  <2>2. /\ Cardinality(Pending(id)) \in Nat /\ Cardinality(FramesOf(id)) \in Nat
        /\ Cardinality(Pending(id)') = Cardinality(Pending(id)) + Cardinality(FramesOf(id))
    BY <1>1, <1>3, TickAddsPending
  <2>3. /\ total[id] \in Nat /\ lasted[id] \in Nat
        /\ total[id] + Cardinality(Pending(id)) = lasted[id]
        /\ lasted'[id] = lasted[id] + Cardinality(FramesOf(id))
    BY <1>1, <1>3, <1>5, <2>1 DEF ReportsExact
  <2>. QED
    BY <1>3, <2>2, <2>3
<1>7. ASSUME NEW i \in DOMAIN stack
      PROVE  OwnTime(i)' = IF i \in Running THEN OwnTime(i) + 1 ELSE OwnTime(i)
  <2>1. i \in Running <=> ~(i < Len(stack) /\ stack[i + 1].id \notin Traced)
    <3>1. i = Len(calls) \/ (i < Len(stack) /\ i + 1 \in DOMAIN stack)
      BY <1>1
    <3>. QED
      BY <1>1, <3>1 DEF Running, Mirrors
  <2>2. PICK a \in Nat, b \in Int : a = stack[i].start /\ b = stack[i].child
    BY <1>1
  <2>3. CASE i \in Running
    <3>1. EndOf(i)' = clock + 1 /\ EndOf(i) = clock
      BY <1>3, <2>1, <2>3 DEF EndOf
    <3>2. OwnTime(i)' = (clock + 1) - (a + b) /\ OwnTime(i) = clock - (a + b)
      BY <1>3, <2>2, <3>1 DEF OwnTime
    <3>3. clock \in Nat
      BY <1>1
    <3>4. (clock + 1) - (a + b) = (clock - (a + b)) + 1
      BY <2>2, <3>3
    <3>. QED
      BY <2>3, <3>2, <3>4
  <2>4. CASE i \notin Running
    BY <1>3, <2>1, <2>4 DEF OwnTime, EndOf
  <2>. QED
    BY <2>3, <2>4
<1>8. ASSUME NEW id, id \notin Traced
      PROVE  /\ \A i \in FramesOf(id) : i \in DOMAIN stack /\ OwnTime(i) \in 0..clock
             /\ FramesOf(id) \cap Running = CallsOf(id) \cap Running
  <2>1. \A i \in FramesOf(id) : i \in Clocked
    BY <1>8 DEF FramesOf, Clocked
  <2>2. CallsOf(id) = FramesOf(id)
    BY <1>1 DEF CallsOf, FramesOf, Mirrors
  <2>. QED
    BY <1>1, <2>1, <2>2 DEF Clocked
<1>9. ASSUME NEW id, id \notin Traced
      PROVE  Own(id)' = Own(id) \cup {<<i, OwnTime(i) + 1>> : i \in FramesOf(id) \cap Running}
  <2>1. ASSUME NEW i \in FramesOf(id), NEW k
        PROVE  k \in 1..(clock + 1) /\ k <= OwnTime(i)'
                 <=> \/ k \in 1..clock /\ k <= OwnTime(i)
                     \/ i \in Running /\ k = OwnTime(i) + 1
    <3>1. i \in DOMAIN stack /\ OwnTime(i) \in 0..clock
      BY <1>8, <1>9
    <3>2. PICK own \in 0..clock : own = OwnTime(i)
      BY <3>1
    <3>3. OwnTime(i)' = IF i \in Running THEN own + 1 ELSE own
      BY <1>7, <3>1, <3>2
    <3>. QED
      BY <1>1, <3>2, <3>3
  <2>2. FramesOf(id)' = FramesOf(id)
    BY <1>3 DEF FramesOf
  <2>3. ASSUME NEW p
        PROVE  p \in Own(id)' <=> \/ p \in Own(id)
                                  \/ \E i \in FramesOf(id) \cap Running : p = <<i, OwnTime(i) + 1>>
    <3>1. p \in Own(id)' <=> \E i \in FramesOf(id), k \in 1..(clock + 1) :
                               p = <<i, k>> /\ k <= OwnTime(i)'
      BY <1>3, <2>2 DEF Own
    <3>2. p \in Own(id) <=> \E i \in FramesOf(id), k \in 1..clock : p = <<i, k>> /\ k <= OwnTime(i)
      BY DEF Own
    <3>3. \A i \in FramesOf(id) \cap Running : OwnTime(i) + 1 \in 1..(clock + 1)
      BY <1>1, <1>8, <1>9
    <3>. QED
      BY <2>1, <3>1, <3>2, <3>3
  <2>. QED
    BY <2>3
<1>10. ASSUME NEW m \in Methods PROVE self'[m] + Cardinality(Own(m)') = ownTime'[m]
  <2> DEFINE run == FramesOf(m) \cap Running
             new == {<<i, OwnTime(i) + 1>> : i \in run}
  <2>0. m \notin Traced
    BY HooksAssumption
  <2>1. /\ IsFiniteSet(Own(m)) /\ Cardinality(Own(m)) \in Nat /\ m \in Ids
        /\ self[m] + Cardinality(Own(m)) = ownTime[m] /\ self[m] \in Nat /\ ownTime[m] \in Nat
    BY <1>1, <1>5, FiniteOwn DEF ReportsExact, Ids, ExactInv
  <2>2. IsFiniteSet(run)
    <3>1. IsFiniteSet(FramesOf(m)) /\ run \subseteq FramesOf(m)
      BY <1>1, FinitePending
    <3>. QED
      BY <3>1, FS_Subset
  <2>3. IsFiniteSet(new) /\ Cardinality(new) = Cardinality(run) /\ Cardinality(run) \in Nat
    <3> DEFINE next == [i \in run |-> <<i, OwnTime(i) + 1>>]
    <3>1. next \in Bijection(run, new)
      <4>1. next \in [run -> new] /\ \A p \in new : \E i \in run : next[i] = p
        OBVIOUS
      <4>2. \A i, j \in run : next[i] = next[j] => i = j
        OBVIOUS
      <4>. QED
        BY <4>1, <4>2 DEF Bijection, Injection, Surjection, IsInjective
    <3>. HIDE DEF next, new, run
    <3>2. ExistsBijection(run, new)
      BY <3>1 DEF ExistsBijection
    <3>3. IsFiniteSet(new) /\ Cardinality(new) = Cardinality(run)
      BY <2>2, <3>2, FS_Bijection
    <3>. QED
      BY <2>2, <3>3, FS_CardinalityType
  <2>4. Own(m)' = Own(m) \cup new
    BY <1>9, <2>0
  <2>5. Own(m) \cap new = {}
    <3>1. \A i \in run : ~(OwnTime(i) + 1 <= OwnTime(i))
      BY <1>8, <2>0
    <3>. QED
      BY <3>1 DEF Own
  <2>6. ownTime'[m] = ownTime[m] + Cardinality(run)
    BY <1>3, <1>8, <2>0, <2>1
  <2>. HIDE DEF new, run
  <2>7. Cardinality(Own(m) \cup new)
          = Cardinality(Own(m)) + Cardinality(new) - Cardinality(Own(m) \cap new)
    BY <2>1, <2>3, FS_Union
  <2>8. Cardinality(Own(m) \cap new) = 0
    BY <2>5, FS_EmptySet
  <2>. QED
    BY <1>3, <2>1, <2>3, <2>4, <2>6, <2>7, <2>8
<1>. QED
  BY <1>4, <1>6, <1>10 DEF ReportsExact

\* What exactness is proved from: every call is sampled, and the clock does not read
\* 0, which marks a frame without a time.
AllSampled == SamplingInterval = 1 /\ FirstReading > 0

LEMMA ExactStep ==
  ASSUME AllSampled, ExactInv, [CallNext \/ SqlNext]_vars
  PROVE  ExactInv'
<1>1. /\ calls \in Seq(Call) /\ stack \in Seq(Frame) /\ clock \in Nat \ {0} /\ sampleCounter \in Nat
      /\ recording /\ instrumented /\ DOMAIN calls = DOMAIN stack /\ DOMAIN calls = 1..Len(calls)
      /\ \A i \in DOMAIN calls : calls[i].hooked
  BY MirrorFacts, LenProperties DEF ExactInv, Mirrors, IInv, TypeOK
<1>2. IInv'
  <2>1. CASE CallNext \/ SqlNext
    BY <2>1, CallStepKeepsIInv, SqlStepKeepsIInv DEF ExactInv
  <2>2. CASE UNCHANGED vars
    BY <2>2 DEF ExactInv, IInv, TypeOK, FramesNested, TimedFrames, vars, counters, stats,
                agent, history
  <2>. QED
    BY <2>1, <2>2
<1>. SUFFICES Mirrors' /\ ReportsExact'
  BY <1>2 DEF ExactInv
<1>3. ASSUME UNCHANGED <<calls, stack, self, total, recording, instrumented, unsampledDepth, history>>
      PROVE  Mirrors' /\ ReportsExact'
  <2>1. \A id : Pending(id)' = Pending(id) /\ Own(id)' = Own(id)
    BY <1>3 DEF Pending, Own, OwnTime, EndOf, FramesOf, history
  <2>2. Mirrors'
    BY <1>3 DEF ExactInv, Mirrors, history
  <2>. QED
    BY <1>3, <2>1, <2>2 DEF ExactInv, ReportsExact, history
<1>0. \A id \in Methods \cup Statements : id \notin Traced
  BY HooksAssumption
<1>4. ASSUME NEW m \in Methods, EnterMethod(m) PROVE Mirrors' /\ ReportsExact'
  <2> DEFINE c == [id |-> m, hooked |-> instrumented]
             f == [id |-> m, start |-> clock, child |-> 0, subtract |-> TRUE]
  <2>1. /\ c \in Call /\ c.hooked /\ f \in Frame /\ f.id = c.id /\ f.start = clock /\ f.child = 0
        /\ f.id \in Methods /\ f.subtract = TRUE
    BY <1>1 DEF Call, Frame, Ids
  <2>2. ~SkipTimingSample
    BY <1>1 DEF SkipTimingSample, AllSampled
  <2>3. /\ calls' = Append(calls, c) /\ stack' = Append(stack, f)
        /\ UNCHANGED <<self, total, recording, instrumented, unsampledDepth, history>>
    BY <1>1, <1>4, <2>2 DEF EnterMethod, RecordMethodEnter, Push, AgentElsewhere
  <2>. HIDE DEF c, f
  <2>4. /\ f.subtract <=> f.id \in Methods
        /\ f.start = IF f.id \in Traced THEN 0 ELSE clock
    BY <1>0, <2>1
  <2>. QED
    BY <2>1, <2>3, <2>4, EnterKeepsExact
<1>5. ASSUME NEW q \in Statements, EnterSql(q) PROVE Mirrors' /\ ReportsExact'
  <2> DEFINE c == [id |-> q, hooked |-> TRUE]
             f == [id |-> q, start |-> clock, child |-> 0, subtract |-> FALSE]
  <2>1. /\ c \in Call /\ c.hooked /\ f \in Frame /\ f.id = c.id /\ f.start = clock /\ f.child = 0
        /\ f.id \notin Methods /\ f.subtract = FALSE /\ f.id \in Statements
    BY <1>1, HooksAssumption DEF Call, Frame, Ids
  <2>2. /\ calls' = Append(calls, c) /\ stack' = Append(stack, f)
        /\ UNCHANGED <<self, total, recording, instrumented, unsampledDepth, history>>
    BY <1>1, <1>5 DEF EnterSql, RecordSqlEnter, Push, AgentElsewhere, counters
  <2>. HIDE DEF c, f
  <2>3. /\ f.subtract <=> f.id \in Methods
        /\ f.start = IF f.id \in Traced THEN 0 ELSE clock
    BY <1>0, <2>1
  <2>. QED
    BY <2>1, <2>2, <2>3, EnterKeepsExact
<1>6. CASE ExitMethod \/ ExitSql
  <2>1. calls # <<>> /\ calls' = Pop(calls) /\ UNCHANGED <<recording, instrumented, history>>
    BY <1>6 DEF ExitMethod, ExitSql, AgentElsewhere
  <2>2. Hooked
    <3>1. Len(calls) \in DOMAIN calls
      BY <1>1, <2>1, PopProperties
    <3>. QED
      BY <1>1, <2>1, <3>1 DEF Hooked, Top
  <2>3. RecordExit(Top(calls).id)
    BY <1>1, <1>6, <2>2 DEF ExitMethod, ExitSql
  <2>4. Top(calls).id \notin Traced
    BY <1>0, <1>6 DEF ExitMethod, ExitSql
  <2>. QED
    BY <2>1, <2>3, <2>4, ExitKeepsExact
<1>7. CASE Tick
  BY <1>7, TickKeepsExact
<1>8. CASE UNCHANGED vars \/ \E enabled \in BOOLEAN : SetSamplingMode(enabled)
  BY <1>3, <1>8 DEF SetSamplingMode, vars, counters, stats, agent, history
<1>9. ASSUME NEW b \in Traced, EnterTraced(b) PROVE Mirrors' /\ ReportsExact'
  <2> DEFINE c == [id |-> b, hooked |-> instrumented]
             f == [id |-> b, start |-> 0, child |-> 0, subtract |-> FALSE]
  <2>1. /\ c \in Call /\ c.hooked /\ f \in Frame /\ f.id = c.id /\ f.start = 0 /\ f.child = 0
        /\ f.id \notin Methods /\ f.subtract = FALSE /\ f.id \in Traced
    BY <1>1, HooksAssumption DEF Call, Frame, Ids
  <2>2. /\ calls' = Append(calls, c) /\ stack' = Append(stack, f)
        /\ UNCHANGED <<self, total, recording, instrumented, unsampledDepth, history>>
    BY <1>1, <1>9 DEF EnterTraced, RecordAllocationTraceEnter, Push, AgentElsewhere, counters, stats
  <2>. HIDE DEF c, f
  <2>3. /\ f.subtract <=> f.id \in Methods
        /\ f.start = IF f.id \in Traced THEN 0 ELSE clock
    BY <2>1
  <2>. QED
    BY <2>1, <2>2, <2>3, EnterKeepsExact
<1>10. CASE ExitTraced
  <2>1. /\ calls # <<>> /\ calls' = Pop(calls) /\ Top(calls).id \in Traced
        /\ UNCHANGED <<recording, instrumented, history>>
    BY <1>10 DEF ExitTraced, AgentElsewhere
  <2>2. Hooked
    <3>1. Len(calls) \in DOMAIN calls
      BY <1>1, <2>1, PopProperties
    <3>. QED
      BY <1>1, <2>1, <3>1 DEF Hooked, Top
  <2>3. RecordAllocationTraceExit(Top(calls).id)
    BY <1>1, <1>10, <2>2 DEF ExitTraced
  <2>. QED
    BY <2>1, <2>3, TracedExitKeepsExact
<1>. QED
  BY <1>4, <1>5, <1>6, <1>7, <1>8, <1>9, <1>10 DEF CallNext, SqlNext

LEMMA ExactInit ==
  ASSUME AllSampled, Init
  PROVE  ExactInv
<1>1. DOMAIN stack = {} /\ stack = <<>> /\ calls = <<>> /\ clock > 0
  BY DEF Init, AllSampled
<1>2. \A id : Pending(id) = {} /\ Own(id) = {}
  BY <1>1 DEF Pending, Own, FramesOf
<1>3. \A id : Cardinality(Pending(id)) = 0 /\ Cardinality(Own(id)) = 0
  BY <1>2, FS_EmptySet
<1>4. Mirrors
  BY <1>1 DEF Mirrors, Init
<1>5. ReportsExact
  <2>1. Methods \subseteq Ids /\ \A id \in Ids : Zero[id] = 0
    BY DEF Zero, Ids
  <2>. QED
    BY <1>3, <2>1 DEF ReportsExact, Init
<1>. QED
  BY <1>4, <1>5, InitIInv DEF ExactInv

\* With SAMPLING_INTERVAL 1, once the calls have returned, each method's and each
\* statement's total time is what an exact clock would have measured, and each
\* method's self time is the time it ran itself or waited for an allocation
\* boundary, whatever the calls and their recursion were (recordMethodEnter,
\* recordSqlEnter, recordAllocationTraceExit and Profiler.recordExit 630-693).
THEOREM ExactWhenAllSampledHolds ==
  ASSUME AllSampled
  PROVE  SpecSql => []ExactWhenAllSampled
<1>1. Init => ExactInv
  BY ExactInit
<1>2. ExactInv /\ [CallNext \/ SqlNext]_vars => ExactInv'
  BY ExactStep
<1>3. ASSUME ExactInv PROVE ExactWhenAllSampled
  <2>. SUFFICES ASSUME calls = <<>>
                PROVE  \A id \in Ids \ Traced : /\ total[id] = lasted[id]
                                                /\ id \in Methods => self[id] = ownTime[id]
    BY HooksAssumption DEF ExactWhenAllSampled, Ids
  <2>1. DOMAIN stack = {}
    BY <1>3, MirrorFacts, EmptySeq DEF ExactInv, Mirrors
  <2>2. \A id : Pending(id) = {} /\ Own(id) = {}
    BY <2>1 DEF Pending, Own, FramesOf
  <2>3. \A id : Cardinality(Pending(id)) = 0 /\ Cardinality(Own(id)) = 0
    BY <2>2, FS_EmptySet
  <2>4. self \in [Ids -> Nat] /\ total \in [Ids -> Nat]
    BY <1>3 DEF ExactInv, IInv, TypeOK
  <2>5. \A id \in Ids \ Traced : total[id] + 0 = lasted[id]
    BY <1>3, <2>3 DEF ExactInv, ReportsExact
  <2>6. \A m \in Methods : self[m] + 0 = ownTime[m]
    BY <1>3, <2>3 DEF ExactInv, ReportsExact
  <2>. QED
    BY <2>4, <2>5, <2>6
<1>. QED
  BY <1>1, <1>2, <1>3, PTL DEF SpecSql
----------------------------------------------------------------------------
(* No time is reported twice.  The start of any timed frame, or now,       *)
(* together with what the frames on the stack were charged and what was    *)
(* dropped, bounds what has been reported: a frame that closes hands its   *)
(* callees' time and its own, as one duration, to the frame below it, or   *)
(* drops it there, and no more than its own to the statistics.             *)

\* What has been reported, bounded by the moment b.
PastOf(b, reported, frames, lost) ==
  Total(reported, Methods) + FirstReading <= b + (Charged(frames) + lost)

OnceInv ==
  /\ clock >= FirstReading
  /\ \A i \in DOMAIN stack : stack[i].id \in Methods => stack[i].subtract
  /\ \A i \in TimedFrames : stack[i].start >= FirstReading /\ PastOf(stack[i].start, self, stack, dropped)
  /\ PastOf(clock, self, stack, dropped)

\* A new frame has been charged nothing.
LEMMA ChargedPushed ==
  ASSUME NEW s \in Seq(Frame), NEW f \in Frame, f.child = 0
  PROVE  Charged(Append(s, f)) = Charged(s)
<1> DEFINE t == Append(s, f)
           n == Len(s) + 1
<1>1. /\ t \in Seq(Frame) /\ Len(s) \in Nat /\ DOMAIN s = 1..Len(s) /\ DOMAIN t = 1..n
      /\ \A i \in 1..Len(s) : t[i] = s[i]
      /\ t[n] = f
  BY AppendDomain
<1>2. /\ IsFiniteSet(DOMAIN s)
      /\ \A i \in DOMAIN s : Charges(s)[i] = IF s[i].start = 0 THEN 0 ELSE s[i].child
      /\ \A i \in DOMAIN t : /\ Charges(t)[i] = IF t[i].start = 0 THEN 0 ELSE t[i].child
                             /\ Charges(t)[i] \in Int
  BY <1>1, ChargesType
<1>. HIDE DEF t
<1>3. DOMAIN t = DOMAIN s \cup {n} /\ n \notin DOMAIN s
  BY <1>1
<1>4. /\ Total(Charges(t), DOMAIN t) = Charges(t)[n] + Total(Charges(t), DOMAIN s)
      /\ Total(Charges(t), DOMAIN s) \in Int
  <2>1. PICK g, S : g = Charges(t) /\ S = DOMAIN s
    OBVIOUS
  <2>2. IsFiniteSet(S) /\ n \notin S /\ \A b \in S \cup {n} : g[b] \in Int
    BY <1>2, <1>3, <2>1
  <2>3. Total(g, S) \in Int /\ Total(g, S \cup {n}) = g[n] + Total(g, S)
    BY <2>2, TotalAdd
  <2>. QED
    BY <1>3, <2>1, <2>3
<1>5. Total(Charges(t), DOMAIN s) = Total(Charges(s), DOMAIN s)
  <2>1. PICK g, h, S : g = Charges(t) /\ h = Charges(s) /\ S = DOMAIN s
    OBVIOUS
  <2>2. \A i \in DOMAIN s : Charges(t)[i] = Charges(s)[i]
    <3>1. \A i \in DOMAIN s : i \in 1..Len(s) /\ i \in DOMAIN t
      BY <1>1, <1>3
    <3>. QED
      BY <1>1, <1>2, <3>1
  <2>3. IsFiniteSet(S) /\ \A i \in S : g[i] = h[i]
    BY <1>2, <2>1, <2>2
  <2>4. Total(g, S) = Total(h, S)
    BY <2>3, TotalSame
  <2>. QED
    BY <2>1, <2>4
<1>6. Charges(t)[n] = 0
  BY <1>1, <1>2, <1>3
<1>7. Charged(t) = Charged(s)
  BY <1>4, <1>5, <1>6, ChargedTotal
<1>. QED
  BY <1>7 DEF t

\* A frame that leaves takes what it was charged.
LEMMA ChargedPopped ==
  ASSUME NEW s \in Seq(Frame), s # <<>>
  PROVE  Charged(s) = Charges(s)[Len(s)] + Charged(Pop(s))
<1> DEFINE n == Len(s)
           t == Pop(s)
<1>1. /\ n \in Nat \ {0} /\ DOMAIN s = 1..n
      /\ t \in Seq(Frame) /\ Len(t) = n - 1 /\ DOMAIN t = 1..(n - 1)
      /\ \A i \in 1..(n - 1) : t[i] = s[i]
  BY PopProperties
<1>2. /\ IsFiniteSet(DOMAIN s) /\ IsFiniteSet(DOMAIN t)
      /\ \A i \in DOMAIN s : /\ Charges(s)[i] = IF s[i].start = 0 THEN 0 ELSE s[i].child
                             /\ Charges(s)[i] \in Int
      /\ \A i \in DOMAIN t : Charges(t)[i] = IF t[i].start = 0 THEN 0 ELSE t[i].child
  BY <1>1, ChargesType
<1>. HIDE DEF n, t
<1>3. n \in DOMAIN s /\ DOMAIN s \ {n} = DOMAIN t
  BY <1>1
<1>4. PICK g, h, S, T : g = Charges(s) /\ h = Charges(t) /\ S = DOMAIN s /\ T = DOMAIN t
  OBVIOUS
<1>5. Total(g, S) = g[n] + Total(g, T)
  <2>1. IsFiniteSet(S) /\ n \in S /\ S \ {n} = T /\ \A b \in S : g[b] \in Int
    BY <1>2, <1>3, <1>4
  <2>. QED
    BY <2>1, TotalRemove
<1>6. Total(g, T) = Total(h, T)
  <2>1. \A b \in DOMAIN t : Charges(s)[b] = Charges(t)[b]
    BY <1>1, <1>2, <1>3
  <2>2. IsFiniteSet(T) /\ \A b \in T : g[b] = h[b]
    BY <1>2, <1>4, <2>1
  <2>. QED
    BY <2>2, TotalSame
<1>. QED
  BY <1>4, <1>5, <1>6, ChargedTotal DEF n, t

\* Charging the top frame of a stack counts unless that frame has no time.
LEMMA ChargedTop ==
  ASSUME NEW s \in Seq(Frame), NEW d \in Int
  PROVE  Charged(ChargeParent(s, d)) + Swallowed(s, d) =
           Charged(s) + (IF s = <<>> THEN 0 ELSE d)
<1> DEFINE n == Len(s)
           t == ChargeParent(s, d)
<1>1. Charged(s) \in Int /\ Len(s) \in Nat /\ DOMAIN s = 1..Len(s) /\ IsFiniteSet(DOMAIN s)
  BY ChargesType
<1>2. CASE s = <<>>
  BY <1>1, <1>2 DEF ChargeParent, Swallowed
<1>3. CASE s # <<>>
  <2>1. n \in DOMAIN s /\ Top(s) = s[n]
    BY <1>1, <1>3, EmptySeq DEF Top
  <2>2. /\ t \in Seq(Frame) /\ DOMAIN t = DOMAIN s
        /\ \A i \in DOMAIN s : /\ t[i].start = s[i].start
                               /\ t[i].child = IF i = n THEN s[i].child + d ELSE s[i].child
    BY ChargeParentProperties
  <2>3. /\ \A i \in DOMAIN s : /\ s[i].child \in Int /\ Charges(s)[i] \in Int
                               /\ Charges(s)[i] = IF s[i].start = 0 THEN 0 ELSE s[i].child
        /\ \A i \in DOMAIN s : /\ Charges(t)[i] \in Int
                               /\ Charges(t)[i] = IF t[i].start = 0 THEN 0 ELSE t[i].child
    BY <2>2, ChargesType
  <2>. HIDE DEF n, t
  <2>4. PICK g, h, S : g = Charges(s) /\ h = Charges(t) /\ S = DOMAIN s
    OBVIOUS
  <2>5. /\ Total(g, S) \in Int /\ Total(h, S) \in Int
        /\ Total(h, S) - h[n] = Total(g, S) - g[n]
    <3>1. PICK k : k = n
      OBVIOUS
    <3>2. IsFiniteSet(S)
      BY <1>1, <2>4
    <3>3. k \in S
      BY <2>1, <2>4, <3>1
    <3>4. \A b \in S : g[b] \in Int /\ h[b] \in Int
      BY <2>3, <2>4
    <3>5. \A b \in DOMAIN s : b # n => Charges(t)[b] = Charges(s)[b]
      BY <2>2, <2>3
    <3>6. \A b \in S : b # k => h[b] = g[b]
      BY <2>4, <3>1, <3>5
    <3>7. Total(h, S) - h[k] = Total(g, S) - g[k]
      BY ONLY <3>2, <3>3, <3>4, <3>6, TotalMoves
    <3>8. Total(g, S) \in Int /\ Total(h, S) \in Int
      BY ONLY <3>2, <3>4, SumType DEF Total
    <3>. QED
      BY <3>1, <3>7, <3>8
  <2>6. h[n] + Swallowed(s, d) = g[n] + d
    <3>1. CASE s[n].start = 0
      <4>1. Swallowed(s, d) = d /\ Charges(t)[n] = 0 /\ Charges(s)[n] = 0
        BY <1>3, <2>1, <2>2, <2>3, <3>1 DEF Swallowed
      <4>. QED
        BY <2>4, <4>1
    <3>2. CASE s[n].start # 0
      <4>1. /\ Swallowed(s, d) = 0 /\ s[n].child \in Int
            /\ Charges(t)[n] = s[n].child + d /\ Charges(s)[n] = s[n].child
        BY <1>3, <2>1, <2>2, <2>3, <3>2 DEF Swallowed
      <4>. QED
        BY <2>4, <4>1
    <3>. QED
      BY <3>1, <3>2
  <2>7. Swallowed(s, d) \in Int /\ g[n] \in Int /\ h[n] \in Int
    BY <2>1, <2>3, <2>4 DEF Swallowed
  <2>8. ASSUME NEW a \in Int, NEW b \in Int, NEW x \in Int, NEW y \in Int, NEW w \in Int,
               b - y = a - x, y + w = x + d
        PROVE  b + w = a + d
    BY <2>8
  <2>9. Total(h, S) + Swallowed(s, d) = Total(g, S) + d
    <3>1. PICK a, b, x, y, w \in Int :
            /\ a = Total(g, S) /\ b = Total(h, S) /\ x = g[n] /\ y = h[n]
            /\ w = Swallowed(s, d)
      BY <2>5, <2>7
    <3>2. b - y = a - x /\ y + w = x + d
      BY <2>5, <2>6, <3>1
    <3>3. b + w = a + d
      BY <2>8, <3>2
    <3>. QED
      BY <3>1, <3>3
  <2>10. Charged(t) = Total(h, S) /\ Charged(s) = Total(g, S)
    BY <2>2, <2>4, ChargedTotal
  <2>11. Charged(t) + Swallowed(s, d) = Charged(s) + d
    BY <2>9, <2>10
  <2>. QED
    BY <1>3, <2>11 DEF t
<1>. QED
  BY <1>2, <1>3

\* What the bounds are made of.
LEMMA OnceFacts ==
  ASSUME IInv, IsFiniteSet(Methods)
  PROVE  /\ self \in [Ids -> Nat] /\ \A m \in Methods : m \in Ids
         /\ Total(self, Methods) \in Nat
         /\ clock \in Nat /\ FirstReading \in Nat /\ dropped \in Int
         /\ stack \in Seq(Frame) /\ Charged(stack) \in Int
         /\ \A i \in TimedFrames : i \in DOMAIN stack /\ stack[i].start \in Nat
<1>1. /\ self \in [Ids -> Nat] /\ clock \in Nat /\ stack \in Seq(Frame) /\ dropped \in Int
      /\ FirstReading \in Nat /\ \A m \in Methods : m \in Ids
  BY HooksAssumption DEF IInv, TypeOK, Ids
<1>2. Total(self, Methods) \in Nat
  BY <1>1, TotalNat
<1>3. Charged(stack) \in Int /\ \A i \in TimedFrames : i \in DOMAIN stack /\ stack[i].start \in Nat
  BY <1>1, ChargesType DEF TimedFrames
<1>. QED
  BY <1>1, <1>2, <1>3

\* What the sums are is all that matters of a step, and which frames have a time.
LEMMA BoundsKeepOnce ==
  ASSUME IInv, OnceInv, IsFiniteSet(Methods),
         clock' \in Nat, clock' >= clock, stack' \in Seq(Frame), dropped' \in Int,
         NEW gain \in Int, Total(self', Methods) \in Int,
         Total(self', Methods) <= Total(self, Methods) + gain,
         Charged(stack') + dropped' = (Charged(stack) + dropped) + gain,
         \A i \in DOMAIN stack' : /\ i \in DOMAIN stack
                                  /\ stack'[i].start = stack[i].start
                                  /\ stack'[i].id = stack[i].id
                                  /\ stack'[i].subtract = stack[i].subtract
  PROVE  OnceInv'
<1>1. /\ Total(self, Methods) \in Int /\ clock \in Int /\ FirstReading \in Int /\ dropped \in Int
      /\ Charged(stack) \in Int /\ Charged(stack') \in Int
      /\ \A i \in TimedFrames : stack[i].start \in Int
  BY OnceFacts, ChargesType
<1>2. PICK s, t, c, k : /\ s = Total(self, Methods) /\ t = Total(self', Methods)
                        /\ c = Charged(stack) + dropped /\ k = Charged(stack') + dropped'
  OBVIOUS
<1>3. s \in Int /\ t \in Int /\ c \in Int /\ k \in Int /\ t <= s + gain /\ k = c + gain
  BY <1>1, <1>2
<1>4. ASSUME NEW b \in Int, NEW e \in Int, PastOf(b, self, stack, dropped), b <= e PROVE PastOf(e, self', stack', dropped')
  <2>1. s + FirstReading <= b + c
    BY <1>2, <1>4 DEF PastOf
  <2>2. t + FirstReading <= e + k
    BY <1>1, <1>3, <1>4, <2>1
  <2>. QED
    BY <1>2, <2>2 DEF PastOf
<1>5. \A i \in TimedFrames' : i \in TimedFrames /\ stack'[i].start = stack[i].start
  BY DEF TimedFrames
<1>6. /\ clock >= FirstReading /\ PastOf(clock, self, stack, dropped)
      /\ \A i \in TimedFrames : stack[i].start >= FirstReading /\ PastOf(stack[i].start, self, stack, dropped)
      /\ \A i \in DOMAIN stack : stack[i].id \in Methods => stack[i].subtract
  BY DEF OnceInv
<1>7. clock' >= FirstReading /\ PastOf(clock', self', stack', dropped')
  BY <1>1, <1>4, <1>6
<1>8. ASSUME NEW i \in TimedFrames'
      PROVE  stack'[i].start >= FirstReading /\ PastOf(stack'[i].start, self', stack', dropped')
  <2>1. PICK b \in Int : b = stack[i].start /\ b = stack'[i].start
    BY <1>1, <1>5
  <2>2. PastOf(b, self, stack, dropped) /\ b >= FirstReading /\ b <= b
    BY <1>5, <1>6, <2>1
  <2>3. PastOf(b, self', stack', dropped')
    BY <1>4, <2>2
  <2>. QED
    BY <2>1, <2>2, <2>3 DEF PastOf
<1>9. \A i \in DOMAIN stack' : stack'[i].id \in Methods => stack'[i].subtract
  BY <1>6
<1>. QED
  BY <1>7, <1>8, <1>9 DEF OnceInv

LEMMA SameKeepsOnce ==
  ASSUME IInv, OnceInv, IsFiniteSet(Methods), clock' \in Nat, clock' >= clock,
         stack' = stack, self' = self, dropped' = dropped
  PROVE  OnceInv'
<1>1. /\ Total(self, Methods) \in Int /\ Charged(stack) \in Int /\ dropped \in Int
      /\ stack \in Seq(Frame)
  BY OnceFacts
<1>2. Total(self', Methods) = Total(self, Methods)
  OBVIOUS
<1>3. /\ Total(self', Methods) <= Total(self, Methods) + 0
      /\ Charged(stack') + dropped' = (Charged(stack) + dropped) + 0
  BY <1>1, <1>2
<1>4. 0 \in Int /\ Total(self', Methods) \in Int /\ stack' \in Seq(Frame) /\ dropped' \in Int
  BY <1>1, <1>2
<1>. QED
  BY <1>3, <1>4, BoundsKeepOnce

\* A reset forgets what was reported and dropped, and no frame was charged less
\* than nothing.
LEMMA ResetKeepsOnce ==
  ASSUME IInv, OnceInv, IsFiniteSet(Methods), clock' = clock, ResetStatistics
  PROVE  OnceInv'
<1>1. /\ clock \in Int /\ FirstReading \in Int /\ stack \in Seq(Frame) /\ Charged(stack) \in Int
      /\ \A i \in TimedFrames : i \in DOMAIN stack /\ stack[i].start \in Int
  BY OnceFacts
<1>2. stack' = stack /\ self' = Zero /\ dropped' = 0
  BY DEF ResetStatistics
<1>3. Total(self', Methods) = 0
  <2>1. \A m \in Methods : Zero[m] = 0
    BY DEF Zero, Ids
  <2>2. Total(Zero, Methods) = 0
    BY <2>1, TotalZero
  <2>. QED
    BY <1>2, <2>2
<1>4. Charged(stack) \in Nat
  <2>1. /\ IsFiniteSet(DOMAIN stack)
        /\ \A i \in DOMAIN stack :
             /\ stack[i].child \in Int
             /\ Charges(stack)[i] = IF stack[i].start = 0 THEN 0 ELSE stack[i].child
    BY <1>1, ChargesType
  <2>2. \A i \in DOMAIN stack : stack[i].start # 0 => stack[i].child >= 0
    BY DEF IInv, FramesNested, TimedFrames
  <2>3. \A i \in DOMAIN stack : Charges(stack)[i] \in Nat
    BY <2>1, <2>2
  <2>4. PICK g, S : g = Charges(stack) /\ S = DOMAIN stack
    OBVIOUS
  <2>5. IsFiniteSet(S) /\ \A i \in S : g[i] \in Nat
    BY <2>1, <2>3, <2>4
  <2>6. Total(g, S) \in Nat
    BY <2>5, TotalNat
  <2>. QED
    BY <2>4, <2>6, ChargedTotal
<1>5. \A b \in Int : b >= FirstReading => PastOf(b, self', stack', dropped')
  <2>1. PICK c \in Nat : c = Charged(stack)
    BY <1>4
  <2>2. \A b \in Int : b >= FirstReading => 0 + FirstReading <= b + (c + 0)
    BY <1>1
  <2>3. Total(self', Methods) = 0 /\ Charged(stack)' = c /\ dropped' = 0
    BY <1>2, <1>3, <2>1
  <2>. QED
    BY <2>2, <2>3 DEF PastOf
<1>6. /\ clock' >= FirstReading /\ PastOf(clock', self', stack', dropped')
  BY <1>1, <1>5 DEF OnceInv
<1>7. TimedFrames' = TimedFrames
  BY <1>2 DEF TimedFrames
<1>8. ASSUME NEW i \in TimedFrames'
      PROVE  stack'[i].start >= FirstReading /\ PastOf(stack'[i].start, self', stack', dropped')
  <2>1. stack'[i].start = stack[i].start /\ stack[i].start \in Int /\ stack[i].start >= FirstReading
    BY <1>1, <1>2, <1>7 DEF OnceInv
  <2>. QED
    BY <1>5, <2>1
<1>9. \A i \in DOMAIN stack' : stack'[i].id \in Methods => stack'[i].subtract
  BY <1>2 DEF OnceInv
<1>. QED
  BY <1>6, <1>8, <1>9 DEF OnceInv

\* A frame that is pushed starts now, or has no time.
LEMMA PushKeepsOnce ==
  ASSUME IInv, OnceInv, IsFiniteSet(Methods), clock' = clock, self' = self, dropped' = dropped,
         NEW id \in Ids, NEW start \in {0, clock}, NEW subtract \in BOOLEAN,
         id \in Methods => subtract, Push(id, start, subtract)
  PROVE  OnceInv'
<1>1. clock \in Nat /\ stack \in Seq(Frame)
  BY OnceFacts
<1>2. PICK f : f = [id |-> id, start |-> start, child |-> 0, subtract |-> subtract]
  OBVIOUS
<1>3. /\ f \in Frame /\ f.child = 0 /\ f.start = start /\ f.id = id /\ f.subtract = subtract
      /\ stack' = Append(stack, f)
  BY <1>1, <1>2 DEF Frame, Push
<1>4. /\ Len(stack) \in Nat /\ DOMAIN stack = 1..Len(stack)
      /\ DOMAIN stack' = 1..(Len(stack) + 1)
      /\ \A i \in 1..Len(stack) : stack'[i] = stack[i]
      /\ stack'[Len(stack) + 1] = f
  BY <1>1, <1>3, AppendDomain
<1>5. Charged(stack') = Charged(stack)
  BY <1>1, <1>3, ChargedPushed
<1>7. ASSUME NEW b PROVE Total(self', Methods) + FirstReading <= b + (Charged(stack') + dropped')
                           <=> PastOf(b, self, stack, dropped)
  BY <1>5 DEF PastOf
<1>8. PastOf(clock', self', stack', dropped') /\ clock' >= FirstReading
  BY <1>7 DEF OnceInv, PastOf
<1>9. ASSUME NEW i \in TimedFrames'
      PROVE  stack'[i].start >= FirstReading /\ PastOf(stack'[i].start, self', stack', dropped')
  <2>1. CASE i \in 1..Len(stack)
    <3>1. i \in TimedFrames /\ stack'[i].start = stack[i].start
      BY <1>4, <2>1 DEF TimedFrames
    <3>2. stack[i].start >= FirstReading /\ PastOf(stack[i].start, self, stack, dropped)
      BY <3>1 DEF OnceInv
    <3>. QED
      BY <1>7, <3>1, <3>2 DEF PastOf
  <2>2. CASE i = Len(stack) + 1
    <3>1. stack'[i].start = start /\ stack'[i].start # 0
      BY <1>3, <1>4, <1>9, <2>2 DEF TimedFrames
    <3>2. stack'[i].start = clock
      BY <3>1
    <3>. QED
      BY <1>7, <1>8, <3>2 DEF PastOf, OnceInv
  <2>. QED
    BY <1>4, <1>9, <2>1, <2>2 DEF TimedFrames
<1>10. \A i \in DOMAIN stack' : stack'[i].id \in Methods => stack'[i].subtract
  BY <1>3, <1>4 DEF OnceInv
<1>. QED
  BY <1>8, <1>9, <1>10 DEF OnceInv

\* A frame that closes: what it reports and what the stack and the dropped time
\* gain is the same, its duration but for what it was charged.
LEMMA CloseKeepsOnce ==
  ASSUME IInv, OnceInv, IsFiniteSet(Methods), clock' = clock, NEW id \in Ids,
         ClosesTop(id), Top(stack).start # 0, CloseTimedFrame(id)
  PROVE  OnceInv'
<1> DEFINE n    == Len(stack)
           rest == Pop(stack)
           d    == clock - Top(stack).start
           c    == Top(stack).child
<1>1. /\ self \in [Ids -> Nat] /\ \A m \in Methods : m \in Ids
      /\ Total(self, Methods) \in Int /\ clock \in Nat /\ FirstReading \in Int
      /\ dropped \in Int /\ stack \in Seq(Frame) /\ Charged(stack) \in Int
  BY OnceFacts
<1>2. stack # <<>> /\ Top(stack).id = id
  BY DEF ClosesTop
<1>3. /\ n \in Nat \ {0} /\ DOMAIN stack = 1..n
      /\ rest \in Seq(Frame) /\ Len(rest) = n - 1 /\ DOMAIN rest = 1..(n - 1)
      /\ \A i \in 1..(n - 1) : rest[i] = stack[i]
  BY <1>1, <1>2, PopProperties
<1>4. Top(stack) = stack[n] /\ n \in DOMAIN stack
  BY <1>3 DEF Top
<1>5. Top(stack).start \in Nat /\ c \in Int /\ d \in Int
  BY <1>1, <1>3, <1>4, FrameFields
<1>6. /\ c >= 0 /\ Top(stack).start + c <= clock
      /\ PastOf(Top(stack).start, self, stack, dropped)
      /\ Top(stack).id \in Methods => Top(stack).subtract
      /\ clock >= FirstReading
  <2>1. n \in TimedFrames
    BY <1>4 DEF TimedFrames
  <2>2. c >= 0 /\ Top(stack).start + c <= clock
    BY <1>4, <2>1 DEF IInv, FramesNested
  <2>3. PastOf(Top(stack).start, self, stack, dropped)
    BY <1>4, <2>1 DEF OnceInv
  <2>4. (Top(stack).id \in Methods => Top(stack).subtract) /\ clock >= FirstReading
    BY <1>4 DEF OnceInv
  <2>. QED
    BY <2>2, <2>3, <2>4
<1>7. d - c >= 0
  <2>1. ASSUME NEW a \in Int, NEW b \in Int, NEW e \in Int, a + b <= e PROVE (e - a) - b >= 0
    BY <2>1
  <2>. QED
    BY <1>1, <1>5, <1>6, <2>1
<1>8. /\ stack' = ChargeParent(rest, d) /\ dropped' = dropped + Swallowed(rest, d)
      /\ self' = [self EXCEPT ![id] = @ + (IF (IF Top(stack).subtract THEN d - c ELSE d) < 0
                                           THEN 0
                                           ELSE IF Top(stack).subtract THEN d - c ELSE d)]
  BY DEF CloseTimedFrame, Closed
<1>. HIDE DEF n, rest, d, c
<1>9. Total(self', Methods) \in Int /\ Total(self', Methods) <= Total(self, Methods) + (d - c)
  <2>1. CASE id \in Methods
    <3>1. self' = [self EXCEPT ![id] = @ + (d - c)]
      <4>1. (IF (IF Top(stack).subtract THEN d - c ELSE d) < 0
             THEN 0 ELSE IF Top(stack).subtract THEN d - c ELSE d) = d - c
        <5>1. Top(stack).subtract
          BY <1>2, <1>6, <2>1
        <5>2. ~(d - c < 0)
          BY <1>5, <1>7
        <5>. QED
          BY <5>1, <5>2
      <4>. QED
        BY <1>8, <4>1
    <3>2. /\ self'[id] = self[id] + (d - c) /\ self[id] \in Int
          /\ \A m \in Methods : m # id => self'[m] = self[m]
      BY <1>1, <2>1, <3>1
    <3>3. \A m \in Methods : self[m] \in Int /\ self'[m] \in Int
      BY <1>1, <1>5, <3>2
    <3>4. PICK g, h : g = self /\ h = self'
      OBVIOUS
    <3>5. /\ Total(g, Methods) \in Int /\ Total(h, Methods) \in Int
          /\ Total(h, Methods) - h[id] = Total(g, Methods) - g[id]
      <4>1. \A b \in Methods : g[b] \in Int /\ h[b] \in Int
        BY <3>3, <3>4
      <4>2. \A b \in Methods : b # id => h[b] = g[b]
        BY <3>2, <3>4
      <4>3. Total(h, Methods) - h[id] = Total(g, Methods) - g[id]
        BY <2>1, <4>1, <4>2, TotalMoves
      <4>4. Total(g, Methods) \in Int /\ Total(h, Methods) \in Int
        BY <4>1, SumType DEF Total
      <4>. QED
        BY <4>3, <4>4
    <3>6. ASSUME NEW a \in Int, NEW b \in Int, NEW x \in Int, NEW y \in Int, NEW e \in Int,
                 a - y = b - x, y = x + e
          PROVE  a = b + e
      BY <3>6
    <3>7. PICK a, b, x, y, e \in Int :
            /\ a = Total(h, Methods) /\ b = Total(g, Methods) /\ x = g[id] /\ y = h[id]
            /\ e = d - c
      BY <1>5, <2>1, <3>3, <3>4, <3>5
    <3>8. a - y = b - x /\ y = x + e
      BY <3>2, <3>4, <3>5, <3>7
    <3>9. a = b + e
      BY <3>6, <3>8
    <3>. QED
      BY <3>4, <3>5, <3>7, <3>9
  <2>2. CASE id \notin Methods
    <3>1. \A m \in Methods : self'[m] = self[m]
      BY <1>1, <1>8, <2>2
    <3>2. Total(self', Methods) = Total(self, Methods)
      BY <3>1, TotalSame
    <3>3. ASSUME NEW a \in Int, NEW b \in Int, b >= 0 PROVE a <= a + b
      BY <3>3
    <3>4. d - c \in Int
      BY <1>5
    <3>. QED
      BY <1>1, <1>7, <3>2, <3>3, <3>4
  <2>. QED
    BY <2>1, <2>2
<1>10. Charged(stack) = c + Charged(rest) /\ Charged(rest) \in Int
  <2>1. Charged(stack) = Charges(stack)[Len(stack)] + Charged(Pop(stack))
    BY <1>1, <1>2, ChargedPopped
  <2>2. Charges(stack)[n] = c
    <3>1. Charges(stack)[n] = IF stack[n].start = 0 THEN 0 ELSE stack[n].child
      BY <1>1, <1>4, ChargesType
    <3>. QED
      BY <1>4, <3>1 DEF c
  <2>3. Charged(rest) \in Int
    BY <1>3, ChargesType
  <2>. QED
    BY <2>1, <2>2, <2>3 DEF n, rest
<1>11. Charged(stack') + Swallowed(rest, d) = Charged(rest) + (IF rest = <<>> THEN 0 ELSE d)
  BY <1>3, <1>5, <1>8, ChargedTop
<1>12. /\ stack' \in Seq(Frame) /\ Charged(stack') \in Int
       /\ dropped' \in Int /\ Swallowed(rest, d) \in Int
  <2>1. stack' \in Seq(Frame)
    BY <1>3, <1>5, <1>8, ChargeParentProperties
  <2>2. Swallowed(rest, d) \in Int
    BY <1>5 DEF Swallowed
  <2>. QED
    BY <1>1, <1>8, <2>1, <2>2, ChargesType
<1>13. \A i \in DOMAIN stack' : /\ i \in DOMAIN stack
                                /\ stack'[i].start = stack[i].start
                                /\ stack'[i].id = stack[i].id
                                /\ stack'[i].subtract = stack[i].subtract
  <2>1. /\ DOMAIN stack' = DOMAIN rest
        /\ \A i \in DOMAIN rest : /\ stack'[i].start = rest[i].start
                                  /\ stack'[i].id = rest[i].id
                                  /\ stack'[i].subtract = rest[i].subtract
    BY <1>3, <1>5, <1>8, ChargeParentProperties
  <2>2. \A i \in DOMAIN rest : i \in DOMAIN stack /\ rest[i] = stack[i]
    BY <1>3
  <2>. QED
    BY <2>1, <2>2
<1>14. CASE rest # <<>>
  <2>1. Charged(stack') + dropped' = (Charged(stack) + dropped) + (d - c)
    <3>1. PICK a, b, e, f, w \in Int :
            /\ a = Charged(stack') /\ b = Charged(rest) /\ e = d /\ f = c
            /\ w = Swallowed(rest, d)
      BY <1>5, <1>10, <1>12
    <3>2. a + w = b + e /\ dropped' = dropped + w /\ Charged(stack) = f + b
      BY <1>8, <1>10, <1>11, <1>14, <3>1
    <3>3. a + (dropped + w) = ((f + b) + dropped) + (e - f)
      BY <1>1, <3>2
    <3>. QED
      BY <3>1, <3>2, <3>3
  <2>2. d - c \in Int /\ clock' \in Nat /\ clock' >= clock
    BY <1>1, <1>5
  <2>. QED
    BY <1>9, <1>12, <1>13, <2>1, <2>2, BoundsKeepOnce
<1>15. CASE rest = <<>>
  <2>1. n = 1 /\ stack' = <<>> /\ Swallowed(rest, d) = 0 /\ DOMAIN stack' = {}
    <3>1. stack' = <<>> /\ Swallowed(rest, d) = 0
      BY <1>8, <1>15 DEF ChargeParent, Swallowed
    <3>2. Len(rest) = 0 /\ DOMAIN stack' = {}
      BY <1>15, <3>1, EmptySeq
    <3>. QED
      BY <1>3, <3>1, <3>2
  <2>2. PastOf(clock', self', stack', dropped')
    <3>1. Charged(rest) = 0 /\ Charged(stack') = 0
      <4>1. DOMAIN rest = {}
        BY <1>3, <2>1
      <4>2. \A s : DOMAIN s = {} => Charged(s) = 0
        BY ChargedTotal, TotalEmpty
      <4>. QED
        BY <2>1, <4>1, <4>2
    <3>2. PICK a, b, e, f, s \in Int :
            /\ a = Total(self, Methods) /\ b = Total(self', Methods) /\ e = d /\ f = c
            /\ s = Top(stack).start
      BY <1>1, <1>5, <1>9
    <3>3. /\ a + FirstReading <= s + ((f + 0) + dropped) /\ b <= a + (e - f) /\ e = clock - s
      BY <1>6, <1>9, <1>10, <3>1, <3>2 DEF PastOf, d
    <3>4. b + FirstReading <= clock + (0 + (dropped + 0))
      BY <1>1, <3>3
    <3>. QED
      BY <1>8, <2>1, <3>1, <3>2, <3>4 DEF PastOf
  <2>3. TimedFrames' = {}
    BY <2>1 DEF TimedFrames
  <2>. QED
    BY <1>6, <2>1, <2>2, <2>3 DEF OnceInv
<1>. QED
  BY <1>14, <1>15

\* Frames that go without a report take what they were charged into the dropped time.
LEMMA CutKeepsOnce ==
  ASSUME IInv, OnceInv, IsFiniteSet(Methods), clock' = clock, self' = self,
         stack' \in Seq(Frame), dropped' = dropped + (Charged(stack) - Charged(stack')),
         \A i \in DOMAIN stack' : i \in DOMAIN stack /\ stack'[i] = stack[i]
  PROVE  OnceInv'
<1>1. /\ Total(self, Methods) \in Int /\ clock \in Nat /\ dropped \in Int
      /\ Charged(stack) \in Int /\ Charged(stack') \in Int
  BY OnceFacts, ChargesType
<1>2. /\ Total(self', Methods) <= Total(self, Methods) + 0 /\ Total(self', Methods) \in Int
      /\ Charged(stack') + dropped' = (Charged(stack) + dropped) + 0
      /\ dropped' \in Int /\ clock' \in Nat /\ clock' >= clock /\ 0 \in Int
  BY <1>1
<1>. QED
  BY <1>2, BoundsKeepOnce

LEMMA ExitKeepsOnce ==
  ASSUME IInv, OnceInv, IsFiniteSet(Methods), clock' = clock, NEW id \in Ids, RecordExit(id)
  PROVE  OnceInv'
<1>1. clock \in Nat /\ clock' >= clock /\ stack \in Seq(Frame)
      /\ Charged(stack) \in Int /\ dropped \in Int
  BY OnceFacts
<1>2. CASE CloseUnsampled
  BY <1>1, <1>2, SameKeepsOnce DEF CloseUnsampled, stats
<1>3. CASE ClosesTop(id) /\ Top(stack).start # 0 /\ CloseTimedFrame(id)
  BY <1>3, CloseKeepsOnce
<1>4. CASE ClosesTop(id) /\ Top(stack).start = 0 /\ CloseUntimedFrame
  <2>1. /\ Len(stack) \in Nat \ {0} /\ DOMAIN stack = 1..Len(stack) /\ stack # <<>>
        /\ Pop(stack) \in Seq(Frame) /\ DOMAIN Pop(stack) = 1..(Len(stack) - 1)
        /\ \A i \in 1..(Len(stack) - 1) : Pop(stack)[i] = stack[i]
    BY <1>1, <1>4, PopProperties DEF ClosesTop
  <2>2. /\ stack' = Pop(stack) /\ self' = self /\ dropped' = dropped
    BY <1>4 DEF CloseUntimedFrame, stats
  <2>3. Charged(stack) = Charged(stack')
    <3>1. Charged(stack) = Charges(stack)[Len(stack)] + Charged(Pop(stack))
      BY <1>1, <2>1, ChargedPopped
    <3>2. Charges(stack)[Len(stack)] = 0
      BY <1>1, <1>4, <2>1, ChargesType DEF Top
    <3>3. Charged(Pop(stack)) \in Int
      BY <2>1, ChargesType
    <3>. QED
      BY <2>2, <3>1, <3>2, <3>3
  <2>4. \A i \in DOMAIN stack' : i \in DOMAIN stack /\ stack'[i] = stack[i]
    BY <2>1, <2>2
  <2>5. dropped' = dropped + (Charged(stack) - Charged(stack'))
    BY <1>1, <2>2, <2>3
  <2>. QED
    BY <2>1, <2>2, <2>4, <2>5, CutKeepsOnce
<1>. QED
  BY <1>2, <1>3, <1>4 DEF RecordExit

LEMMA TracedExitKeepsOnce ==
  ASSUME IInv, OnceInv, IsFiniteSet(Methods), clock' = clock, NEW t \in Traced,
         RecordAllocationTraceExit(t)
  PROVE  OnceInv'
<1>1. stack \in Seq(Frame)
  BY OnceFacts
<1>2. /\ stack' \in Seq(Frame) /\ Len(stack') <= Len(stack)
      /\ \A i \in 1..Len(stack') : stack'[i] = stack[i]
  BY <1>1, TraceExitIsPrefix
<1>3. \A i \in DOMAIN stack' : i \in DOMAIN stack /\ stack'[i] = stack[i]
  BY <1>1, <1>2, LenProperties
<1>4. self' = self /\ dropped' = dropped + (Charged(stack) - Charged(stack'))
  BY DEF RecordAllocationTraceExit
<1>. QED
  BY <1>2, <1>3, <1>4, CutKeepsOnce

LEMMA StepKeepsOnce ==
  ASSUME IInv, OnceInv, IsFiniteSet(Methods), [CallNext \/ SqlNext \/ DisturbNext]_vars
  PROVE  OnceInv'
<1>1. /\ calls \in Seq(Call) /\ clock \in Nat
      /\ \A m \in Methods : m \in Ids
      /\ \A t \in Traced : t \in Ids /\ t \notin Methods
      /\ \A q \in Statements : q \in Ids /\ q \notin Methods
  BY HooksAssumption DEF IInv, TypeOK, Ids
<1>2. ASSUME NoHook \/ UNCHANGED <<stack, self, dropped>>, clock' = clock \/ clock' = clock + 1
      PROVE  OnceInv'
  <2>1. stack' = stack /\ self' = self /\ dropped' = dropped
    BY <1>2 DEF NoHook, stats
  <2>2. clock' \in Nat /\ clock' >= clock
    BY <1>1, <1>2
  <2>. QED
    BY <2>1, <2>2, SameKeepsOnce
<1>3. ASSUME NEW m \in Methods, EnterMethod(m) PROVE OnceInv'
  <2>1. clock' = clock
    BY <1>3 DEF EnterMethod, history
  <2>2. CASE ~(instrumented /\ recording)
    BY <1>2, <1>3, <2>1, <2>2 DEF EnterMethod
  <2>3. CASE instrumented /\ recording
    <3>1. self' = self /\ dropped' = dropped /\ (Push(m, clock, TRUE) \/ UNCHANGED stack)
      BY <1>3, <2>3 DEF EnterMethod, RecordMethodEnter
    <3>2. CASE Push(m, clock, TRUE)
      BY <1>1, <2>1, <3>1, <3>2, PushKeepsOnce
    <3>3. CASE UNCHANGED stack
      BY <1>2, <2>1, <3>1, <3>3
    <3>. QED
      BY <3>1, <3>2, <3>3
  <2>. QED
    BY <2>2, <2>3
<1>4. ASSUME NEW q \in Statements, EnterSql(q) PROVE OnceInv'
  <2>1. clock' = clock
    BY <1>4 DEF EnterSql, history
  <2>2. CASE ~recording
    BY <1>2, <1>4, <2>1, <2>2 DEF EnterSql
  <2>3. CASE recording
    <3>1. self' = self /\ dropped' = dropped /\ Push(q, clock, FALSE)
      BY <1>4, <2>3 DEF EnterSql, RecordSqlEnter
    <3>. QED
      BY <1>1, <2>1, <3>1, PushKeepsOnce
  <2>. QED
    BY <2>2, <2>3
<1>5. ASSUME NEW t \in Traced, EnterTraced(t) PROVE OnceInv'
  <2>1. clock' = clock
    BY <1>5 DEF EnterTraced, history
  <2>2. CASE ~(instrumented /\ recording)
    BY <1>2, <1>5, <2>1, <2>2 DEF EnterTraced
  <2>3. CASE instrumented /\ recording
    <3>1. self' = self /\ dropped' = dropped /\ Push(t, 0, FALSE)
      BY <1>5, <2>3 DEF EnterTraced, RecordAllocationTraceEnter, stats
    <3>. QED
      BY <1>1, <2>1, <3>1, PushKeepsOnce
  <2>. QED
    BY <2>2, <2>3
<1>6. ASSUME ExitMethod \/ ExitSql PROVE OnceInv'
  <2>1. clock' = clock /\ Top(calls).id \in Ids
    BY <1>1, <1>6, CallTop DEF ExitMethod, ExitSql, history
  <2>2. NoHook \/ RecordExit(Top(calls).id)
    BY <1>6 DEF ExitMethod, ExitSql
  <2>. QED
    BY <1>2, <2>1, <2>2, ExitKeepsOnce
<1>7. CASE ThrowCaught
  <2>1. clock' = clock /\ Top(calls).id \in Ids /\ RecordExit(Top(calls).id)
    BY <1>1, <1>7 DEF ThrowCaught, history
  <2>. QED
    BY <2>1, ExitKeepsOnce
<1>8. CASE ExitTraced
  <2>1. clock' = clock /\ Top(calls).id \in Traced
    BY <1>8 DEF ExitTraced, history
  <2>2. NoHook \/ RecordAllocationTraceExit(Top(calls).id)
    BY <1>8 DEF ExitTraced
  <2>. QED
    BY <1>2, <2>1, <2>2, TracedExitKeepsOnce
<1>9. CASE Tick \/ Unwind
  BY <1>2, <1>9 DEF Tick, Unwind, history
<1>10. CASE StartReset \/ StartCalibrate
  <2>1. ResetStatistics /\ clock' = clock
    BY <1>10 DEF StartReset, StartCalibrate, AgentStep, history
  <2>. QED
    BY <2>1, ResetKeepsOnce
<1>11. CASE \/ StartFlag \/ StartRetransform \/ StopSampling \/ StopFlag \/ StopRestore
            \/ UNCHANGED vars \/ \E enabled \in BOOLEAN : SetSamplingMode(enabled)
  <2>1. UNCHANGED <<stack, self, dropped, clock>>
    BY <1>11 DEF StartFlag, StartRetransform, StopSampling, StopFlag, StopRestore, SetSamplingMode,
                 AgentStep, vars, stats, history
  <2>. QED
    BY <1>2, <2>1
<1>. QED
  BY <1>3, <1>4, <1>5, <1>6, <1>7, <1>8, <1>9, <1>10, <1>11 DEF CallNext, SqlNext, DisturbNext

LEMMA InitOnce ==
  ASSUME Init, IsFiniteSet(Methods)
  PROVE  OnceInv
<1>1. /\ stack = <<>> /\ clock = FirstReading /\ self = Zero /\ dropped = 0
      /\ FirstReading \in Nat
  BY HooksAssumption DEF Init
<1>2. Total(self, Methods) = 0
  <2>1. \A m \in Methods : self[m] = 0
    BY <1>1 DEF Zero, Ids
  <2>. QED
    BY <2>1, TotalZero
<1>3. DOMAIN stack = {} /\ TimedFrames = {}
  BY <1>1, EmptySeq DEF TimedFrames
<1>4. Charged(stack) = 0
  BY <1>3, ChargedTotal, TotalEmpty
<1>5. 0 + FirstReading <= FirstReading + (0 + 0)
  BY <1>1
<1>. QED
  BY <1>1, <1>2, <1>3, <1>4, <1>5 DEF OnceInv, PastOf

\* What frames were charged lies between the start of the first timed one and now.
LEMMA ChargedIsPast ==
  ASSUME IInv, IsFiniteSet(Methods), NEW f \in TimedFrames, \A i \in TimedFrames : f <= i
  PROVE  stack[f].start + Charged(stack) <= clock
<1> DEFINE n == Len(stack)
           upto(k) == stack[f].start + Total(Charges(stack), 1..k)
           Fits(k) == /\ upto(k) <= clock
                      /\ \A j \in TimedFrames : k < j => upto(k) <= stack[j].start
           Bad == {k \in f..n : ~Fits(k)}
<1>1. /\ stack \in Seq(Frame) /\ clock \in Int
      /\ n \in Nat /\ DOMAIN stack = 1..n
      /\ \A i \in 1..n : /\ Charges(stack)[i] = IF stack[i].start = 0 THEN 0 ELSE stack[i].child
                         /\ Charges(stack)[i] \in Int
                         /\ stack[i].start \in Int /\ stack[i].child \in Int
  <2>1. stack \in Seq(Frame) /\ clock \in Int
    BY OnceFacts
  <2>. QED
    BY <2>1, ChargesType
<1>2. \A i \in TimedFrames : i \in 1..n /\ stack[i].start # 0
  BY <1>1 DEF TimedFrames
<1>3. f \in 1..n /\ f \in Nat \ {0} /\ f <= n
  BY <1>1, <1>2
<1>4. /\ \A i \in TimedFrames : stack[i].start + stack[i].child <= clock
      /\ \A i, j \in TimedFrames : i < j => stack[i].start + stack[i].child <= stack[j].start
  BY DEF IInv, FramesNested
<1>5. ASSUME NEW k \in 1..n
      PROVE  /\ Total(Charges(stack), 1..(k - 1)) \in Int
             /\ Total(Charges(stack), 1..k) = Charges(stack)[k] + Total(Charges(stack), 1..(k - 1))
  <2>1. PICK g : g = Charges(stack)
    OBVIOUS
  <2>2. k \in Nat \ {0} /\ k <= n
    BY <1>1
  <2>3. IsFiniteSet(1..(k - 1))
    <3>1. PICK m \in Nat : m = k - 1
      BY <2>2
    <3>2. IsFiniteSet(1..m)
      BY <3>1, FS_Interval
    <3>. QED
      BY <3>1, <3>2
  <2>4. k \notin 1..(k - 1) /\ (1..(k - 1)) \cup {k} = 1..k
    BY <2>2
  <2>5. \A b \in (1..(k - 1)) \cup {k} : g[b] \in Int
    <3>1. \A b \in 1..k : b \in 1..n
      BY <1>1, <2>2
    <3>. QED
      BY <1>1, <2>1, <2>4, <3>1
  <2>6. /\ Total(g, 1..(k - 1)) \in Int
        /\ Total(g, (1..(k - 1)) \cup {k}) = g[k] + Total(g, 1..(k - 1))
    BY <2>3, <2>4, <2>5, TotalAdd
  <2>. QED
    BY <2>1, <2>4, <2>6
<1>6. Total(Charges(stack), 1..(f - 1)) = 0
  <2>1. \A i \in 1..(f - 1) : Charges(stack)[i] = 0
    <3>1. \A i \in 1..(f - 1) : i \in 1..n /\ ~(f <= i)
      BY <1>1, <1>3
    <3>2. \A i \in 1..(f - 1) : i \notin TimedFrames
      BY <3>1
    <3>3. \A i \in 1..(f - 1) : stack[i].start = 0
      BY <1>1, <3>1, <3>2 DEF TimedFrames
    <3>. QED
      BY <1>1, <3>1, <3>3
  <2>2. IsFiniteSet(1..(f - 1))
    <3>1. PICK m \in Nat : m = f - 1
      BY <1>3
    <3>2. IsFiniteSet(1..m)
      BY <3>1, FS_Interval
    <3>. QED
      BY <3>1, <3>2
  <2>3. PICK g, S : g = Charges(stack) /\ S = 1..(f - 1)
    OBVIOUS
  <2>4. Total(g, S) = 0
    BY <2>1, <2>2, <2>3, TotalZero
  <2>. QED
    BY <2>3, <2>4
<1>7. Fits(f)
  <2>1. upto(f) = stack[f].start + stack[f].child
    <3>1. Charges(stack)[f] = stack[f].child /\ stack[f].child \in Int
      BY <1>1, <1>2, <1>3
    <3>2. Total(Charges(stack), 1..f) = Charges(stack)[f] + Total(Charges(stack), 1..(f - 1))
      BY <1>3, <1>5
    <3>. QED
      BY <1>6, <3>1, <3>2
  <2>. HIDE DEF upto
  <2>2. upto(f) <= clock
    BY <1>4, <2>1
  <2>3. \A j \in TimedFrames : f < j => upto(f) <= stack[j].start
    BY <1>4, <2>1
  <2>. QED
    BY <2>2, <2>3
<1>8. ASSUME NEW k \in f..n, k # f, Fits(k - 1) PROVE Fits(k)
  <2>1. k \in 1..n /\ k - 1 < k /\ k - 1 \in Int /\ k \in Int
    BY <1>1, <1>3, <1>8
  <2>2. upto(k) = upto(k - 1) + Charges(stack)[k] /\ upto(k - 1) \in Int
    <3>1. PICK a, b, c \in Int :
            /\ a = stack[f].start /\ b = Total(Charges(stack), 1..(k - 1))
            /\ c = Charges(stack)[k]
      BY <1>1, <1>3, <1>5, <2>1
    <3>2. Total(Charges(stack), 1..k) = c + b
      BY <1>5, <2>1, <3>1
    <3>3. a + (c + b) = (a + b) + c /\ a + b \in Int
      BY <3>1
    <3>. QED
      BY <3>1, <3>2, <3>3
  <2>3. upto(k - 1) <= clock /\ \A j \in TimedFrames : k - 1 < j => upto(k - 1) <= stack[j].start
    BY <1>8
  <2>. HIDE DEF upto
  <2>4. \A j \in TimedFrames : j \in Int /\ stack[j].start \in Int
    BY <1>1, <1>2
  <2>5. CASE k \in TimedFrames
    <3>1. Charges(stack)[k] = stack[k].child /\ stack[k].child \in Int /\ stack[k].start \in Int
      BY <1>1, <1>2, <2>1, <2>5
    <3>2. upto(k - 1) <= stack[k].start
      BY <2>1, <2>3, <2>5
    <3>3. upto(k) <= stack[k].start + stack[k].child
      BY <2>2, <3>1, <3>2
    <3>4. upto(k) \in Int
      BY <2>2, <3>1
    <3>5. upto(k) <= clock
      BY <1>1, <1>4, <2>5, <3>1, <3>3, <3>4
    <3>6. \A j \in TimedFrames : k < j => upto(k) <= stack[j].start
      BY <1>4, <2>4, <2>5, <3>1, <3>3, <3>4
    <3>. QED
      BY <3>5, <3>6
  <2>6. CASE k \notin TimedFrames
    <3>1. stack[k].start = 0
      BY <1>1, <2>1, <2>6 DEF TimedFrames
    <3>2. upto(k) = upto(k - 1)
      BY <1>1, <2>1, <2>2, <3>1
    <3>3. \A j \in TimedFrames : k < j => k - 1 < j
      BY <2>1, <2>4
    <3>. QED
      BY <2>3, <3>2, <3>3
  <2>. QED
    BY <2>5, <2>6
<1>. HIDE DEF Fits
<1>9. Bad = {}
  <2>. SUFFICES ASSUME Bad # {} PROVE FALSE
    OBVIOUS
  <2>1. PICK k \in Bad : \A j \in Bad : k <= j
    <3>1. Bad \in SUBSET Nat
      BY <1>1, <1>3
    <3>. QED
      BY <3>1, LeastElement
  <2>2. k \in f..n /\ ~Fits(k) /\ k # f
    BY <1>7, <2>1
  <2>3. k - 1 \in f..n /\ ~(k <= k - 1)
    BY <1>1, <1>3, <2>2
  <2>4. Fits(k - 1)
    BY <2>1, <2>3
  <2>. QED
    BY <1>8, <2>2, <2>4
<1>10. Fits(n)
  BY <1>1, <1>3, <1>9
<1>11. Charged(stack) = Total(Charges(stack), 1..n)
  BY <1>1, ChargedTotal
<1>. QED
  BY <1>10, <1>11 DEF Fits

LEMMA SelfTotal == MapThenSumSet(LAMBDA m : self[m], Methods) = Total(self, Methods)
BY DEF Total, SumsOf, Sums, Choice, MapThenSumSet, MapThenFoldSet

\* The self times of all methods add up to at most the time the thread has run
\* and what callees' time frames without a report of their own were charged
\* (Profiler.recordExit 672-688, recordAllocationTraceExit 550-563), whatever
\* exceptions left frames behind and whatever recordings were started and stopped.
THEOREM NoTimeCountedTwiceHolds == ASSUME IsFiniteSet(Methods) PROVE Spec => []NoTimeCountedTwice
<1>1. Init => IInv /\ OnceInv
  BY InitIInv, InitOnce
<1>2. IInv /\ UNCHANGED vars => IInv'
  BY DEF IInv, TypeOK, FramesNested, TimedFrames, vars, counters, stats, agent, history
<1>3. IInv /\ OnceInv /\ [CallNext \/ SqlNext \/ DisturbNext]_vars => IInv' /\ OnceInv'
  BY <1>2, CallStepKeepsIInv, SqlStepKeepsIInv, DisturbStepKeepsIInv, StepKeepsOnce
<1>4. IInv /\ OnceInv => NoTimeCountedTwice
  <2> SUFFICES ASSUME IInv, OnceInv PROVE NoTimeCountedTwice
    OBVIOUS
  <2>1. /\ Total(self, Methods) \in Int /\ clock \in Int /\ FirstReading \in Int
        /\ dropped \in Int /\ stack \in Seq(Frame) /\ Charged(stack) \in Int
        /\ \A i \in TimedFrames : i \in DOMAIN stack /\ stack[i].start \in Int
    BY OnceFacts
  <2>2. Total(self, Methods) + FirstReading <= clock + dropped
    <3>1. CASE TimedFrames = {}
      <4>1. PICK g, S : g = Charges(stack) /\ S = DOMAIN stack
        OBVIOUS
      <4>2. IsFiniteSet(S) /\ \A i \in S : g[i] = 0
        BY <2>1, <3>1, <4>1, ChargesType DEF TimedFrames
      <4>3. Charged(stack) = 0
        BY <4>1, <4>2, TotalZero, ChargedTotal
      <4>4. PastOf(clock, self, stack, dropped)
        BY DEF OnceInv
      <4>. QED
        BY <2>1, <4>3, <4>4 DEF PastOf
    <3>2. CASE TimedFrames # {}
      <4>1. PICK f \in TimedFrames : \A i \in TimedFrames : f <= i
        <5>1. DOMAIN stack = 1..Len(stack) /\ Len(stack) \in Nat
          BY <2>1, LenProperties
        <5>2. TimedFrames \in SUBSET Nat
          BY <5>1 DEF TimedFrames
        <5>. QED
          BY <3>2, <5>2, LeastElement
      <4>2. stack[f].start + Charged(stack) <= clock
        BY <4>1, ChargedIsPast
      <4>3. PastOf(stack[f].start, self, stack, dropped)
        BY <4>1 DEF OnceInv
      <4>4. PICK b \in Int : b = stack[f].start
        BY <2>1, <4>1
      <4>. QED
        BY <2>1, <4>2, <4>3, <4>4 DEF PastOf
    <3>. QED
      BY <3>1, <3>2
  <2>3. Total(self, Methods) <= (clock - FirstReading) + dropped
    BY <2>1, <2>2
  <2>. QED
    BY <2>3, SelfTotal DEF NoTimeCountedTwice
<1>. QED
  BY <1>1, <1>3, <1>4, PTL DEF Spec
=============================================================================
