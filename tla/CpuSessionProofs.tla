-------------------------- MODULE CpuSessionProofs --------------------------
(***************************************************************************)
(* Proofs about CpuSession, for any number of JVMs, ports and attempts:    *)
(* its types, that a start and a stop are never under way together, and    *)
(* that what the TUI shows of the recording is what the agent will do.     *)
(*                                                                         *)
(* A pending flag stands for a worker only as long as no agent answers a   *)
(* worker that has gone.  So the invariant also follows the commands: one  *)
(* that is awaited is awaited by the worker that sent it, which waits, and *)
(* no other command of the kind is awaited anywhere.  For the agreement,   *)
(* what an agent will do is the last command that it was sent.             *)
(***************************************************************************)
EXTENDS CpuSession, SequenceTheorems, TLAPS

Kinds == {"start", "stop"}

\* Where an agent keeps a command: 0 is the one that runs.
Places(j) == 0..Len(waiting[j])
At(j, i)  == IF i = 0 THEN running[j] ELSE waiting[j][i]

Awaited(j, i, kind) == At(j, i).awaited /\ At(j, i).kind = kind

SentByWorker ==
  \A j \in Jvms : \A i \in Places(j) :
    /\ Awaited(j, i, "start") => start.at = "waiting"
    /\ Awaited(j, i, "stop") => stop.at = "waiting"

OneAwaited ==
  \A kind \in Kinds : \A j, k \in Jvms : \A i \in Places(j), n \in Places(k) :
    Awaited(j, i, kind) /\ Awaited(k, n, kind) => j = k /\ i = n

IInv == TypeOK /\ StartExcludesStop /\ SentByWorker /\ OneAwaited

----------------------------------------------------------------------------
(* Records.                                                                *)

Stages == {"none", "discover", "attach", "wait", "send", "waiting", "done"}

LEMMA WorkerMoves ==
  ASSUME NEW w \in Worker, NEW at \in Stages, NEW p \in Ports
  PROVE  /\ [w EXCEPT !.at = at] \in Worker /\ [w EXCEPT !.at = at].at = at
         /\ [w EXCEPT !.at = at, !.port = p] \in Worker
         /\ [w EXCEPT !.at = at, !.port = p].at = at
<1>1. [w EXCEPT !.at = at] \in Worker
  BY DEF Worker, Stages
<1>2. [[w EXCEPT !.at = at] EXCEPT !.port = p] \in Worker
  BY DEF Worker, Stages
<1>3. [[w EXCEPT !.at = at] EXCEPT !.port = p] = [w EXCEPT !.at = at, !.port = p]
  BY DEF Worker
<1>. QED
  BY <1>1, <1>2, <1>3 DEF Worker

LEMMA IdleWorker == Idle \in Worker /\ Idle.at = "none"
<1>1. 1 \in 1..Attempts /\ Preferred \in Ports
  BY SessionAssumption
<1>. QED
  BY <1>1 DEF Idle, Worker

LEMMA NewStart ==
  ASSUME NEW jvm \in Jvms, NEW p \in Ports
  PROVE  /\ [Idle EXCEPT !.at = "discover", !.jvm = jvm, !.port = p] \in Worker
         /\ [Idle EXCEPT !.at = "discover", !.jvm = jvm, !.port = p].at = "discover"
<1>1. [[[Idle EXCEPT !.at = "discover"] EXCEPT !.jvm = jvm] EXCEPT !.port = p] \in Worker
  BY IdleWorker DEF Worker
<1>2. [[[Idle EXCEPT !.at = "discover"] EXCEPT !.jvm = jvm] EXCEPT !.port = p]
        = [Idle EXCEPT !.at = "discover", !.jvm = jvm, !.port = p]
  BY DEF Idle
<1>. QED
  BY <1>1, <1>2 DEF Idle

LEMMA NewStop ==
  ASSUME NEW p \in Ports
  PROVE  /\ [Idle EXCEPT !.at = "send", !.port = p] \in Worker
         /\ [Idle EXCEPT !.at = "send", !.port = p].at = "send"
<1>1. "send" \in Stages
  BY DEF Stages
<1>. QED
  BY <1>1, IdleWorker, WorkerMoves

LEMMA AttemptEnds ==
  ASSUME start \in Worker
  PROVE  /\ NextAttempt \in Worker /\ NextAttempt.at \in {"send", "done"}
         /\ Failed(start) \in Worker /\ Failed(start).at = "done"
         /\ Succeeded(start) \in Worker /\ Succeeded(start).at = "done"
<1>1. start.attempt \in 1..Attempts
  BY DEF Worker
<1>2. start.attempt < Attempts => start.attempt + 1 \in 1..Attempts
  BY <1>1, SessionAssumption
<1>. QED
  BY <1>1, <1>2 DEF NextAttempt, Failed, Succeeded, Worker

LEMMA StopAttemptEnds ==
  ASSUME stop \in Worker
  PROVE  /\ Failed(stop) \in Worker /\ Failed(stop).at = "done"
         /\ Succeeded(stop) \in Worker /\ Succeeded(stop).at = "done"
BY DEF Failed, Succeeded, Worker

LEMMA CommandTypes ==
  /\ \A kind \in Kinds, b \in BOOLEAN : [kind |-> kind, awaited |-> b] \in Command
  /\ \A c \in Command : c.kind \in Kinds /\ c.awaited \in BOOLEAN
  /\ Nothing.kind = "none" /\ ~Nothing.awaited
BY DEF Command, Kinds, Nothing

LEMMA GivenCommand ==
  ASSUME NEW kind, NEW c \in Command
  PROVE  /\ Given(c, kind) \in Command
         /\ Given(c, kind).kind = c.kind
         /\ Given(c, kind).awaited => c.awaited /\ c.kind # kind
BY DEF Given, Command

LEMMA GivenNothing ==
  ASSUME NEW kind \in Kinds
  PROVE  Given(Nothing, kind) = Nothing
BY DEF Given, Nothing, Kinds

LEMMA RemoveAtFacts ==
  ASSUME NEW S, NEW s \in Seq(S), NEW i \in 1..Len(s)
  PROVE  /\ RemoveAt(s, i) \in Seq(S)
         /\ Len(RemoveAt(s, i)) = Len(s) - 1
         /\ \A n \in 1..(Len(s) - 1) : RemoveAt(s, i)[n] = s[IF n < i THEN n ELSE n + 1]
<1> DEFINE before == SubSeq(s, 1, i - 1)
           after  == SubSeq(s, i + 1, Len(s))
<1>1. /\ before \in Seq(S) /\ Len(before) = i - 1
      /\ after \in Seq(S) /\ Len(after) = Len(s) - i
      /\ \A n \in 1..(i - 1) : before[n] = s[n]
      /\ \A n \in 1..(Len(s) - i) : after[n] = s[i + n]
  OBVIOUS
<1>2. RemoveAt(s, i) = before \o after
  BY DEF RemoveAt
<1>. HIDE DEF before, after
<1>3. /\ before \o after \in Seq(S) /\ Len(before \o after) = Len(before) + Len(after)
      /\ \A n \in 1..(Len(before) + Len(after)) :
           (before \o after)[n] = IF n <= Len(before) THEN before[n] ELSE after[n - Len(before)]
  BY <1>1, ConcatProperties
<1>4. ASSUME NEW n \in 1..(Len(s) - 1)
      PROVE  (before \o after)[n] = s[IF n < i THEN n ELSE n + 1]
  BY <1>1, <1>3
<1>. QED
  BY <1>1, <1>2, <1>3, <1>4

----------------------------------------------------------------------------
LEMMA InitIInv == Init => IInv
<1>. SUFFICES ASSUME Init PROVE IInv
  OBVIOUS
<1>1. \A j \in Jvms : running[j] = Nothing /\ waiting[j] \in Seq(Command)
  BY DEF Init
<1>2. TypeOK
  BY <1>1, IdleWorker, SessionAssumption DEF Init, TypeOK
<1>3. StartExcludesStop
  BY DEF Init, StartExcludesStop
<1>4. \A j \in Jvms : \A i \in Places(j), kind \in Kinds : ~Awaited(j, i, kind)
  BY CommandTypes DEF Init, Places, At, Awaited
<1>5. SentByWorker /\ OneAwaited
  BY <1>4 DEF SentByWorker, OneAwaited, Kinds
<1>. QED
  BY <1>2, <1>3, <1>5 DEF IInv

----------------------------------------------------------------------------
(* Steps that send nothing.                                                *)

\* Nothing is awaited that was not, at the same place.
Fewer ==
  \A j \in Jvms : \A i \in Places(j)' :
    i \in Places(j) /\ \A kind \in Kinds : Awaited(j, i, kind)' => Awaited(j, i, kind)

LEMMA FewerAwaited ==
  ASSUME OneAwaited, Fewer
  PROVE  OneAwaited'
BY DEF OneAwaited, Fewer

LEMMA SameAgents ==
  ASSUME UNCHANGED agents
  PROVE  Fewer
BY DEF agents, Fewer, Places, Awaited, At

\* Either worker has stayed, or was not waiting.
LEMMA StillSent ==
  ASSUME SentByWorker, Fewer,
         start.at = "waiting" => start'.at = "waiting",
         stop.at = "waiting" => stop'.at = "waiting"
  PROVE  SentByWorker'
BY DEF SentByWorker, Fewer, Kinds

----------------------------------------------------------------------------
(* The event loop.                                                         *)

LoopStep ==
  Key \/ RefreshJvms \/ AutoUpdate \/ StartSucceeds \/ StartFails \/ StopEnds

LEMMA LoopKeeps ==
  ASSUME IInv, LoopStep
  PROVE  IInv'
<1>1. TypeOK /\ StartExcludesStop
  BY DEF IInv
<1>2. UNCHANGED agents
  BY DEF LoopStep, Key, SelectJvm, StartSession, LeaveStartCenter, ToggleStart, ToggleStop,
     RefreshJvms, AutoUpdate, StartSucceeds, StartFails, StopEnds
\* Workers are started when there is none of the kind, and end when they are done.
<1>3. /\ \/ UNCHANGED <<start, startPending>>
         \/ /\ start' \in Worker /\ start'.at = "discover" /\ startPending' = TRUE
            /\ start.at = "none" /\ ~recording /\ UNCHANGED <<stop, stopPending, recording>>
         \/ /\ start' = Idle /\ startPending' = FALSE
            /\ start.at = "done" /\ UNCHANGED <<stop, stopPending>>
      /\ \/ UNCHANGED <<stop, stopPending>>
         \/ /\ stop' \in Worker /\ stop'.at = "send" /\ stopPending' = TRUE
            /\ stop.at = "none" /\ recording /\ UNCHANGED <<start, startPending, recording>>
         \/ /\ stop' = Idle /\ stopPending' = FALSE
            /\ stop.at = "done" /\ UNCHANGED <<start, startPending>>
  <2>1. ASSUME NEW wanted, StartIf(wanted), selected' \in Jvms \cup {None},
               UNCHANGED <<stop, stopPending, recording>>
        PROVE  \/ UNCHANGED <<start, startPending>>
               \/ /\ start' \in Worker /\ start'.at = "discover" /\ startPending' = TRUE
                  /\ start.at = "none" /\ ~recording
    <3>1. agentPort \in Ports /\ (~startPending => start.at = "none")
      BY <1>1 DEF TypeOK
    <3>2. CASE wanted /\ MayStart /\ selected' # None
      <4>1. /\ selected' \in Jvms /\ startPending' = TRUE
            /\ start' = [Idle EXCEPT !.at = "discover", !.jvm = selected', !.port = agentPort]
        BY <2>1, <3>2 DEF StartIf
      <4>2. start' \in Worker /\ start'.at = "discover"
        BY <3>1, <4>1, NewStart
      <4>. QED
        BY <3>1, <3>2, <4>1, <4>2 DEF MayStart
    <3>. QED
      BY <2>1, <3>2 DEF StartIf
  <2>2. CASE SelectJvm \/ LeaveStartCenter \/ RefreshJvms
    BY <2>2 DEF SelectJvm, LeaveStartCenter, RefreshJvms, workers
  <2>3. CASE StartSession
    <3>1. selected' \in Jvms \cup {None}
      BY <1>1, <2>3 DEF StartSession, EnsureSelected, TypeOK
    <3>. QED
      BY <2>1, <2>3, <3>1 DEF StartSession
  <2>4. CASE ToggleStart \/ AutoUpdate
    <3>1. selected' \in Jvms \cup {None}
      BY <1>1, <2>4 DEF ToggleStart, AutoUpdate, TypeOK
    <3>. QED
      BY <2>1, <2>4, <3>1 DEF ToggleStart, AutoUpdate
  <2>5. CASE ToggleStop
    BY <1>1, <2>5, NewStop DEF ToggleStop, TypeOK
  <2>6. CASE StartSucceeds \/ StartFails
    BY <1>1, <2>6 DEF StartSucceeds, StartFails, FailsCleanly
  <2>7. CASE StopEnds
    BY <2>7 DEF StopEnds
  <2>. QED
    BY <2>2, <2>3, <2>4, <2>5, <2>6, <2>7 DEF LoopStep, Key
<1>4. /\ {started', recording', initialPending', overtaken'} \subseteq BOOLEAN
      /\ jvms' \subseteq Jvms /\ selected' \in Jvms \cup {None}
      /\ agentPort' \in Ports /\ outcome' \in {"none", "ok", "failed"}
  BY <1>1, <1>2 DEF TypeOK, LoopStep, Key, SelectJvm, StartSession, LeaveStartCenter, ToggleStart,
     ToggleStop, RefreshJvms, AutoUpdate, StartSucceeds, StartFails, StopEnds, EnsureSelected,
     FoundPort, Worker, agents
<1>5. TypeOK'
  <2>1. start' \in Worker /\ (startPending' <=> start'.at # "none") /\ startPending' \in BOOLEAN
    <3>1. CASE UNCHANGED <<start, startPending>>
      BY <1>1, <3>1 DEF TypeOK
    <3>2. CASE start' \in Worker /\ start'.at = "discover" /\ startPending' = TRUE
      BY <3>2
    <3>3. CASE start' = Idle /\ startPending' = FALSE
      BY <3>3, IdleWorker
    <3>. QED
      BY <1>3, <3>1, <3>2, <3>3
  <2>2. stop' \in Worker /\ (stopPending' <=> stop'.at # "none") /\ stopPending' \in BOOLEAN
    <3>1. CASE UNCHANGED <<stop, stopPending>>
      BY <1>1, <3>1 DEF TypeOK
    <3>2. CASE stop' \in Worker /\ stop'.at = "send" /\ stopPending' = TRUE
      BY <3>2
    <3>3. CASE stop' = Idle /\ stopPending' = FALSE
      BY <3>3, IdleWorker
    <3>. QED
      BY <1>3, <3>1, <3>2, <3>3
  <2>. QED
    BY <1>1, <1>2, <1>4, <2>1, <2>2 DEF TypeOK, agents
<1>6. StartExcludesStop'
  <2>1. CASE Key \/ RefreshJvms \/ AutoUpdate
    <3>1. UNCHANGED recording
      BY <2>1 DEF Key, SelectJvm, StartSession, LeaveStartCenter, ToggleStart, ToggleStop,
         RefreshJvms, AutoUpdate
    <3>. QED
      BY <1>1, <1>3, <3>1 DEF StartExcludesStop, TypeOK
  <2>2. CASE StartSucceeds \/ StartFails
    BY <1>1, <2>2 DEF StartSucceeds, StartFails, FailsCleanly, StartExcludesStop, TypeOK
  <2>3. CASE StopEnds
    BY <1>1, <2>3 DEF StopEnds, StartExcludesStop, TypeOK
  <2>. QED
    BY <2>1, <2>2, <2>3 DEF LoopStep
<1>7. SentByWorker' /\ OneAwaited'
  <2>1. Fewer
    BY <1>2, SameAgents
  <2>2. /\ start.at = "waiting" => start'.at = "waiting"
        /\ stop.at = "waiting" => stop'.at = "waiting"
    BY <1>3
  <2>. QED
    BY <2>1, <2>2, FewerAwaited, StillSent DEF IInv
<1>. QED
  BY <1>5, <1>6, <1>7 DEF IInv

----------------------------------------------------------------------------
(* Workers.                                                                *)

LEMMA AwaitedSeen ==
  ASSUME TypeOK, NEW kind, NEW j \in Jvms, NEW i \in Places(j), Awaited(j, i, kind)
  PROVE  Awaiting(kind)
<1>1. CASE i = 0
  BY <1>1 DEF Awaited, At, Awaiting
<1>2. CASE i # 0
  <2>1. i \in 1..Len(waiting[j]) /\ waiting[j] \in Seq(Command)
    BY <1>2 DEF Places, TypeOK
  <2>2. waiting[j][i] \in ToSet(waiting[j])
    BY <2>1 DEF ToSet
  <2>3. waiting[j][i].awaited /\ waiting[j][i].kind = kind
    BY <1>2 DEF Awaited, At
  <2>. QED
    BY <2>2, <2>3 DEF Awaiting
<1>. QED
  BY <1>1, <1>2

\* A worker that goes on, one of the two, leaves the event loop alone.
StartGoesOn == /\ start' \in Worker /\ start.at # "none" /\ start'.at # "none"
               /\ UNCHANGED <<tui, stop>>

StopGoesOn == /\ stop' \in Worker /\ stop.at # "none" /\ stop'.at # "none"
              /\ UNCHANGED <<tui, start>>

\* What agents have, typed.
AgentsTyped ==
  /\ alive \subseteq Jvms
  /\ listener \in [Ports -> alive \cup {None}]
  /\ agentRecording \in [Jvms -> BOOLEAN]
  /\ running \in [Jvms -> Command \cup {Nothing}]
  /\ waiting \in [Jvms -> Seq(Command)]
  /\ overtaken \in BOOLEAN

LEMMA GoingOnKeepsTypes ==
  ASSUME TypeOK, StartExcludesStop, StartGoesOn \/ StopGoesOn, AgentsTyped'
  PROVE  TypeOK' /\ StartExcludesStop'
<1>1. TypeOK'
  BY DEF TypeOK, StartGoesOn, StopGoesOn, AgentsTyped, tui
<1>2. StartExcludesStop'
  BY DEF StartExcludesStop, StartGoesOn, StopGoesOn, tui
<1>. QED
  BY <1>1, <1>2

\* Steps that neither send nor wait, and those that find the connection broken.
StartAlone ==
  Discover \/ Attach \/ AttachFails \/ AgentReady \/ AgentNotReady \/ StartRefused \/ StartBroken

StopAlone == StopRefused \/ StopBroken

LEMMA StartAloneGoesOn ==
  ASSUME IInv, StartAlone
  PROVE  /\ StartGoesOn /\ UNCHANGED <<agentRecording, running, waiting, overtaken, alive>>
         /\ AgentsTyped'
         /\ start.at = "waiting" => ~Awaiting("start")
<1>1. TypeOK /\ start \in Worker
  BY DEF IInv, TypeOK
<1>2. \A at \in Stages : [start EXCEPT !.at = at] \in Worker /\ [start EXCEPT !.at = at].at = at
  <2>. SUFFICES ASSUME NEW at \in Stages
                PROVE  [start EXCEPT !.at = at] \in Worker /\ [start EXCEPT !.at = at].at = at
    OBVIOUS
  <2>. QED
    BY <1>1, SessionAssumption, WorkerMoves
<1>3. CASE Discover
  <2>1. UNCHANGED agents /\ AgentsTyped'
    BY <1>1, <1>3 DEF Discover, agents, AgentsTyped, TypeOK
  <2>2. \/ StartStep("discover", [start EXCEPT !.at = "send"])
        \/ StartStep("discover", [start EXCEPT !.at = "attach"])
        \/ \E p \in Ports : StartStep("discover", [start EXCEPT !.at = "send", !.port = p])
    BY <1>3 DEF Discover
  <2>3. CASE \/ StartStep("discover", [start EXCEPT !.at = "send"])
             \/ StartStep("discover", [start EXCEPT !.at = "attach"])
    BY <1>2, <2>1, <2>3 DEF StartStep, StartGoesOn, Stages, agents
  <2>4. ASSUME NEW p \in Ports, StartStep("discover", [start EXCEPT !.at = "send", !.port = p])
        PROVE  StartGoesOn /\ start.at = "discover"
    <3>1. "send" \in Stages
      BY DEF Stages
    <3>. QED
      BY <1>1, <2>4, <3>1, WorkerMoves DEF StartStep, StartGoesOn
  <2>. QED
    BY <2>1, <2>2, <2>3, <2>4 DEF agents
<1>4. CASE Attach
  <2>1. PICK p \in Ports : /\ listener' = [listener EXCEPT ![p] = start.jvm] /\ start.jvm \in alive
                           /\ StartStep("attach", [start EXCEPT !.at = "wait", !.port = p])
    BY <1>4 DEF Attach, Selectable, FreePorts
  <2>2. UNCHANGED <<alive, agentRecording, running, waiting, overtaken>>
    BY <1>4 DEF Attach
  <2>3. "wait" \in Stages
    BY DEF Stages
  <2>4. StartGoesOn /\ start.at = "attach"
    BY <1>1, <2>1, <2>3, WorkerMoves DEF StartStep, StartGoesOn
  <2>. QED
    BY <1>1, <2>1, <2>2, <2>4 DEF AgentsTyped, TypeOK
<1>5. CASE AgentReady
  BY <1>1, <1>2, <1>5 DEF AgentReady, StartStep, StartGoesOn, Stages, agents, AgentsTyped, TypeOK
<1>6. CASE AttachFails \/ AgentNotReady
  BY <1>1, <1>6, AttemptEnds DEF AttachFails, AgentNotReady, StartStep, StartGoesOn, agents,
     AgentsTyped, TypeOK
<1>7. CASE StartRefused \/ StartBroken
  BY <1>1, <1>7, AttemptEnds DEF StartRefused, StartBroken, StartStep, StartGoesOn, agents,
     AgentsTyped, TypeOK
<1>. QED
  BY <1>3, <1>4, <1>5, <1>6, <1>7 DEF StartAlone

LEMMA StopAloneGoesOn ==
  ASSUME IInv, StopAlone
  PROVE  /\ StopGoesOn /\ UNCHANGED agents
         /\ AgentsTyped'
         /\ stop.at = "waiting" => ~Awaiting("stop")
<1>1. TypeOK /\ stop \in Worker
  BY DEF IInv, TypeOK
<1>. QED
  BY <1>1, StopAttemptEnds DEF StopAlone, StopRefused, StopBroken, StopStep, StopGoesOn, agents,
     AgentsTyped, TypeOK

LEMMA AloneKeeps ==
  ASSUME IInv, StartAlone \/ StopAlone
  PROVE  IInv'
<1>1. /\ StartGoesOn \/ StopGoesOn
      /\ AgentsTyped'
      /\ UNCHANGED <<running, waiting>>
  BY StartAloneGoesOn, StopAloneGoesOn DEF agents
<1>2. TypeOK' /\ StartExcludesStop'
  BY <1>1, GoingOnKeepsTypes DEF IInv
<1>3. Fewer
  BY <1>1 DEF Fewer, Places, Awaited, At
<1>4. SentByWorker'
  <2>1. CASE StartAlone
    <3>1. stop' = stop /\ (start.at = "waiting" => ~Awaiting("start"))
      BY <2>1, StartAloneGoesOn DEF StartGoesOn
    <3>. QED
      BY <1>3, <3>1, AwaitedSeen DEF IInv, SentByWorker, Fewer, Kinds
  <2>2. CASE StopAlone
    <3>1. start' = start /\ (stop.at = "waiting" => ~Awaiting("stop"))
      BY <2>2, StopAloneGoesOn DEF StopGoesOn
    <3>. QED
      BY <1>3, <3>1, AwaitedSeen DEF IInv, SentByWorker, Fewer, Kinds
  <2>. QED
    BY <2>1, <2>2
<1>5. OneAwaited'
  BY <1>3, FewerAwaited DEF IInv
<1>. QED
  BY <1>2, <1>4, <1>5 DEF IInv

\* A command is appended: it is the only one of its kind that is awaited.
LEMMA EnqueueAwaits ==
  ASSUME TypeOK, SentByWorker, OneAwaited, NEW p \in Ports, NEW kind \in Kinds, Enqueue(p, kind),
         IF kind = "start" THEN start.at # "waiting" ELSE stop.at # "waiting"
  PROVE  /\ AgentsTyped' /\ OneAwaited'
         /\ \A j \in Jvms : \A i \in Places(j)' : \A k \in Kinds :
              Awaited(j, i, k)' /\ k # kind => i \in Places(j) /\ Awaited(j, i, k)
<1> DEFINE new == [kind |-> kind, awaited |-> TRUE]
<1>1. PICK j \in Jvms : /\ waiting' = [waiting EXCEPT ![j] = Append(@, new)]
                        /\ UNCHANGED <<alive, listener, agentRecording, running, overtaken>>
  BY DEF Enqueue, TypeOK
<1>2. new \in Command /\ new.kind = kind /\ new.awaited
  BY CommandTypes
<1>. HIDE DEF new
<1>3. /\ \A k \in Jvms : waiting[k] \in Seq(Command) /\ (k # j => waiting'[k] = waiting[k])
      /\ waiting'[j] = Append(waiting[j], new)
  BY <1>1 DEF TypeOK
<1>4. AgentsTyped'
  BY <1>1, <1>2, <1>3 DEF AgentsTyped, TypeOK
\* Only the last place of j is new.
<1>5. ASSUME NEW k \in Jvms, NEW i \in Places(k)'
      PROVE  \/ i \in Places(k) /\ At(k, i)' = At(k, i)
             \/ k = j /\ i = Len(waiting[j]) + 1 /\ At(k, i)' = new
  <2>1. CASE k # j
    BY <1>1, <1>3, <2>1 DEF Places, At
  <2>2. CASE k = j
    <3>1. i \in 0..(Len(waiting[j]) + 1)
      BY <1>3, <2>2 DEF Places
    <3>2. CASE i = 0
      BY <1>1, <1>3, <2>2, <3>2 DEF Places, At
    <3>3. CASE i \in 1..Len(waiting[j])
      BY <1>3, <2>2, <3>3 DEF Places, At
    <3>4. CASE i = Len(waiting[j]) + 1
      BY <1>3, <2>2, <3>4 DEF At
    <3>. QED
      BY <1>3, <3>1, <3>2, <3>3, <3>4
  <2>. QED
    BY <2>1, <2>2
<1>6. \A k \in Jvms : \A i \in Places(k) : ~Awaited(k, i, kind)
  BY DEF SentByWorker, Kinds
<1>7. \A k \in Jvms : \A i \in Places(k)' :
        /\ Awaited(k, i, kind)' => k = j /\ i = Len(waiting[j]) + 1
        /\ \A other \in Kinds : Awaited(k, i, other)' /\ other # kind =>
             i \in Places(k) /\ Awaited(k, i, other)
  BY <1>2, <1>5, <1>6 DEF Awaited
<1>8. OneAwaited'
  BY <1>7 DEF OneAwaited
<1>. QED
  BY <1>4, <1>7, <1>8

LEMMA SendKeeps ==
  ASSUME IInv, SendStart \/ SendStop
  PROVE  IInv'
<1>1. TypeOK /\ SentByWorker /\ OneAwaited /\ start \in Worker /\ stop \in Worker
  BY DEF IInv, TypeOK
<1>2. /\ "waiting" \in Stages
      /\ \A w \in Worker : w.port \in Ports
      /\ Kinds = {"start", "stop"}
  BY DEF Stages, Worker, Kinds
<1>3. CASE SendStart
  <2>1. /\ start.at = "send" /\ start' = [start EXCEPT !.at = "waiting"]
        /\ UNCHANGED <<tui, stop>> /\ Enqueue(start.port, "start")
    BY <1>3 DEF SendStart, StartStep
  <2>2. StartGoesOn /\ start'.at = "waiting"
    BY <1>1, <1>2, <2>1, WorkerMoves DEF StartGoesOn
  <2>3. /\ AgentsTyped' /\ OneAwaited'
        /\ \A j \in Jvms : \A i \in Places(j)' :
             Awaited(j, i, "stop")' => i \in Places(j) /\ Awaited(j, i, "stop")
    BY <1>1, <1>2, <2>1, EnqueueAwaits
  <2>4. SentByWorker'
    BY <1>1, <2>1, <2>2, <2>3 DEF SentByWorker
  <2>. QED
    BY <2>2, <2>3, <2>4, GoingOnKeepsTypes DEF IInv
<1>4. CASE SendStop
  <2>1. /\ stop.at = "send" /\ stop' = [stop EXCEPT !.at = "waiting"]
        /\ UNCHANGED <<tui, start>> /\ Enqueue(stop.port, "stop")
    BY <1>4 DEF SendStop, StopStep
  <2>2. StopGoesOn /\ stop'.at = "waiting"
    BY <1>1, <1>2, <2>1, WorkerMoves DEF StopGoesOn
  <2>3. /\ AgentsTyped' /\ OneAwaited'
        /\ \A j \in Jvms : \A i \in Places(j)' :
             Awaited(j, i, "start")' => i \in Places(j) /\ Awaited(j, i, "start")
    BY <1>1, <1>2, <2>1, EnqueueAwaits
  <2>4. SentByWorker'
    BY <1>1, <2>1, <2>2, <2>3 DEF SentByWorker
  <2>. QED
    BY <2>2, <2>3, <2>4, GoingOnKeepsTypes DEF IInv
<1>. QED
  BY <1>3, <1>4

\* Who gives up takes its mark off every command.
LEMMA GivenUp ==
  ASSUME TypeOK, NEW kind \in Kinds, GiveUp(kind)
  PROVE  /\ AgentsTyped' /\ Fewer
         /\ \A j \in Jvms : \A i \in Places(j)' : ~Awaited(j, i, kind)'
         /\ \A j \in Jvms : /\ Len(waiting'[j]) = Len(waiting[j])
                            /\ \A i \in 1..Len(waiting[j]) :
                                 waiting'[j][i].kind = waiting[j][i].kind
<1>1. \A j \in Jvms : /\ running[j] \in Command \cup {Nothing} /\ waiting[j] \in Seq(Command)
                      /\ running'[j] = Given(running[j], kind)
                      /\ waiting'[j] = [i \in DOMAIN waiting[j] |-> Given(waiting[j][i], kind)]
  BY DEF GiveUp, TypeOK
<1>2. ASSUME NEW c \in Command \cup {Nothing}
      PROVE  /\ Given(c, kind) \in Command \cup {Nothing}
             /\ c \in Command => Given(c, kind) \in Command
             /\ Given(c, kind).kind = c.kind
             /\ Given(c, kind).awaited => c.awaited /\ c.kind # kind
  <2>1. CASE c \in Command
    BY <2>1, GivenCommand
  <2>2. CASE c = Nothing
    BY <2>2, GivenNothing, CommandTypes
  <2>. QED
    BY <2>1, <2>2, CommandTypes DEF Kinds
<1>3. ASSUME NEW j \in Jvms
      PROVE  /\ waiting'[j] \in Seq(Command) /\ Len(waiting'[j]) = Len(waiting[j])
             /\ \A i \in 1..Len(waiting[j]) : /\ waiting[j][i] \in Command
                                              /\ waiting'[j][i] = Given(waiting[j][i], kind)
  <2> DEFINE n == Len(waiting[j])
  <2>1. n \in Nat /\ DOMAIN waiting[j] = 1..n /\ \A i \in 1..n : waiting[j][i] \in Command
    <3>1. waiting[j] \in Seq(Command)
      BY <1>1
    <3>. QED
      BY <3>1
  <2>2. waiting'[j] = [i \in 1..n |-> Given(waiting[j][i], kind)]
    BY <1>1, <2>1
  <2>3. \A i \in 1..n : Given(waiting[j][i], kind) \in Command
    BY <1>2, <2>1
  <2>. HIDE DEF n
  <2>4. waiting'[j] \in [1..n -> Command]
    BY <2>2, <2>3
  <2>5. waiting'[j] \in Seq(Command) /\ Len(waiting'[j]) = n
    BY <2>1, <2>4
  <2>. QED
    BY <2>1, <2>2, <2>5 DEF n
<1>4. AgentsTyped'
  BY <1>1, <1>2, <1>3 DEF GiveUp, AgentsTyped, TypeOK
<1>5. ASSUME NEW j \in Jvms, NEW i \in Places(j)'
      PROVE  /\ i \in Places(j) /\ At(j, i) \in Command \cup {Nothing}
             /\ At(j, i)' = Given(At(j, i), kind)
  BY <1>1, <1>3 DEF Places, At
<1>6. Fewer
  BY <1>2, <1>5 DEF Fewer, Awaited
<1>7. \A j \in Jvms : \A i \in Places(j)' : ~Awaited(j, i, kind)'
  BY <1>2, <1>5 DEF Awaited
<1>. QED
  BY <1>2, <1>3, <1>4, <1>6, <1>7

LEMMA TimeOutKeeps ==
  ASSUME IInv, StartTimesOut \/ StopTimesOut
  PROVE  IInv'
<1>1. TypeOK /\ SentByWorker /\ OneAwaited /\ start \in Worker /\ stop \in Worker
  BY DEF IInv, TypeOK
<1>2. CASE StartTimesOut
  <2>1. StartGoesOn /\ GiveUp("start") /\ "start" \in Kinds
    BY <1>1, <1>2, AttemptEnds DEF StartTimesOut, StartStep, StartGoesOn, Kinds
  <2>2. SentByWorker'
    BY <1>1, <2>1, GivenUp DEF SentByWorker, Fewer, StartGoesOn, Kinds
  <2>. QED
    BY <1>1, <2>1, <2>2, GivenUp, FewerAwaited, GoingOnKeepsTypes DEF IInv
<1>3. CASE StopTimesOut
  <2>1. StopGoesOn /\ GiveUp("stop") /\ "stop" \in Kinds
    BY <1>1, <1>3, StopAttemptEnds DEF StopTimesOut, StopStep, StopGoesOn, Kinds
  <2>2. SentByWorker'
    BY <1>1, <2>1, GivenUp DEF SentByWorker, Fewer, StopGoesOn, Kinds
  <2>. QED
    BY <1>1, <2>1, <2>2, GivenUp, FewerAwaited, GoingOnKeepsTypes DEF IInv
<1>. QED
  BY <1>2, <1>3

----------------------------------------------------------------------------
(* Agents.                                                                 *)

LEMMA TakeLockKeeps ==
  ASSUME IInv, NEW j \in Jvms, TakeLock(j)
  PROVE  IInv'
<1>1. TypeOK /\ SentByWorker /\ OneAwaited
  BY DEF IInv
<1>2. PICK m \in DOMAIN waiting[j] :
        /\ running' = [running EXCEPT ![j] = waiting[j][m]]
        /\ waiting' = [waiting EXCEPT ![j] = RemoveAt(waiting[j], m)]
        /\ agentRecording' = [agentRecording EXCEPT ![j] = Flag(j, waiting[j][m])]
        /\ overtaken' = (overtaken \/ m # 1)
  BY Zenon DEF TakeLock
<1>3. waiting[j] \in Seq(Command) /\ m \in 1..Len(waiting[j])
  <2>1. waiting[j] \in Seq(Command)
    BY <1>1 DEF TypeOK
  <2>. QED
    BY <1>2, <2>1
<1>4. /\ waiting[j][m] \in Command
      /\ RemoveAt(waiting[j], m) \in Seq(Command)
      /\ Len(RemoveAt(waiting[j], m)) = Len(waiting[j]) - 1
      /\ \A n \in 1..(Len(waiting[j]) - 1) :
           RemoveAt(waiting[j], m)[n] = waiting[j][IF n < m THEN n ELSE n + 1]
  <2>1. waiting[j][m] \in Command
    BY <1>3
  <2>2. /\ RemoveAt(waiting[j], m) \in Seq(Command)
        /\ Len(RemoveAt(waiting[j], m)) = Len(waiting[j]) - 1
        /\ \A n \in 1..(Len(waiting[j]) - 1) :
             RemoveAt(waiting[j], m)[n] = waiting[j][IF n < m THEN n ELSE n + 1]
    BY Zenon, <1>3, RemoveAtFacts
  <2>. QED
    BY <2>1, <2>2
<1>5. UNCHANGED <<tui, workers, alive, listener>>
  BY DEF TakeLock
<1>6. TypeOK' /\ StartExcludesStop'
  BY <1>1, <1>2, <1>4, <1>5 DEF IInv, TypeOK, StartExcludesStop, Flag, tui, workers
\* The commands of j move up; every place has one that was at a place of its own.
<1> DEFINE from(k, i) == CASE k # j -> i
                           [] k = j /\ i = 0 -> m
                           [] k = j /\ i # 0 /\ i < m -> i
                           [] OTHER -> i + 1
<1>7. ASSUME NEW k \in Jvms, NEW i \in Places(k)'
      PROVE  from(k, i) \in Places(k) /\ At(k, i)' = At(k, from(k, i))
  <2>1. CASE k # j
    <3>1. running'[k] = running[k] /\ waiting'[k] = waiting[k]
      BY <1>1, <1>2, <2>1 DEF TypeOK
    <3>. QED
      BY <2>1, <3>1 DEF Places, At
  <2>2. CASE k = j
    <3>1. running'[j] = waiting[j][m] /\ waiting'[j] = RemoveAt(waiting[j], m)
      BY <1>1, <1>2 DEF TypeOK
    <3>2. i \in 0..(Len(waiting[j]) - 1) /\ Len(waiting[j]) \in Nat
      BY <1>3, <1>4, <2>2, <3>1 DEF Places
    <3>3. CASE i = 0
      BY <1>3, <2>2, <3>1, <3>3 DEF Places, At
    <3>4. CASE i # 0
      <4>1. i \in 1..(Len(waiting[j]) - 1) /\ At(k, i)' = waiting[j][IF i < m THEN i ELSE i + 1]
        BY <1>4, <2>2, <3>1, <3>2, <3>4 DEF At
      <4>2. from(k, i) = IF i < m THEN i ELSE i + 1
        BY <2>2, <3>4
      <4>3. from(k, i) \in 1..Len(waiting[j])
        BY <3>2, <4>1, <4>2
      <4>. QED
        BY <2>2, <4>1, <4>2, <4>3 DEF Places, At
    <3>. QED
      BY <3>3, <3>4
  <2>. QED
    BY <2>1, <2>2
<1>8. ASSUME NEW k \in Jvms, NEW i \in Places(k)', NEW n \in Places(k)', from(k, i) = from(k, n)
      PROVE  i = n
  BY <1>3, <1>8 DEF Places
<1>. HIDE DEF from
<1>9. \A k \in Jvms, kind \in Kinds : \A i \in Places(k)' :
        Awaited(k, i, kind)' => Awaited(k, from(k, i), kind)
  BY <1>7 DEF Awaited
<1>10. SentByWorker'
  BY <1>1, <1>5, <1>7, <1>9 DEF SentByWorker, Kinds, workers
<1>11. OneAwaited'
  BY <1>1, <1>7, <1>8, <1>9 DEF OneAwaited
<1>. QED
  BY <1>6, <1>10, <1>11 DEF IInv

LEMMA RepliedTypes ==
  ASSUME NEW w \in Worker, NEW kind \in Kinds, NEW c \in Command \cup {Nothing},
         c.awaited /\ c.kind = kind => w.at = "waiting"
  PROVE  /\ Replied(w, kind, c) \in Worker
         /\ Replied(w, kind, c).at # "none" <=> w.at # "none"
         /\ ~(c.awaited /\ c.kind = kind) => Replied(w, kind, c) = w
BY DEF Replied, Succeeded, Worker

LEMMA FinishKeeps ==
  ASSUME IInv, NEW j \in Jvms, Finish(j)
  PROVE  IInv'
<1>1. TypeOK /\ SentByWorker /\ OneAwaited /\ start \in Worker /\ stop \in Worker
  BY DEF IInv, TypeOK
<1>2. /\ running' = [running EXCEPT ![j] = Nothing]
      /\ start' = Replied(start, "start", running[j])
      /\ stop' = Replied(stop, "stop", running[j])
      /\ UNCHANGED <<tui, alive, listener, agentRecording, waiting, overtaken>>
  BY DEF Finish
<1>3. running[j] \in Command \cup {Nothing}
  BY <1>1 DEF TypeOK
<1>4. /\ 0 \in Places(j)
      /\ \A kind : Awaited(j, 0, kind) <=> running[j].awaited /\ running[j].kind = kind
  <2>1. Len(waiting[j]) \in Nat
    BY <1>1 DEF TypeOK
  <2>. QED
    BY <2>1 DEF Places, Awaited, At
<1>5. /\ start' \in Worker /\ (start'.at # "none" <=> start.at # "none")
      /\ stop' \in Worker /\ (stop'.at # "none" <=> stop.at # "none")
      /\ ~Awaited(j, 0, "start") => start' = start
      /\ ~Awaited(j, 0, "stop") => stop' = stop
  <2>1. "start" \in Kinds /\ "stop" \in Kinds
    BY DEF Kinds
  <2>2. /\ running[j].awaited /\ running[j].kind = "start" => start.at = "waiting"
        /\ running[j].awaited /\ running[j].kind = "stop" => stop.at = "waiting"
    BY <1>1, <1>4 DEF SentByWorker
  <2>3. /\ start' \in Worker /\ (start'.at # "none" <=> start.at # "none")
        /\ ~(running[j].awaited /\ running[j].kind = "start") => start' = start
    BY <1>1, <1>2, <1>3, <2>1, <2>2, RepliedTypes
  <2>4. /\ stop' \in Worker /\ (stop'.at # "none" <=> stop.at # "none")
        /\ ~(running[j].awaited /\ running[j].kind = "stop") => stop' = stop
    BY <1>1, <1>2, <1>3, <2>1, <2>2, RepliedTypes
  <2>. QED
    BY <1>4, <2>3, <2>4
<1>6. TypeOK' /\ StartExcludesStop'
  BY <1>1, <1>2, <1>5 DEF IInv, TypeOK, StartExcludesStop, tui
<1>7. \A k \in Jvms : \A i \in Places(k)' :
        /\ i \in Places(k)
        /\ \A kind : Awaited(k, i, kind)' => Awaited(k, i, kind) /\ ~(k = j /\ i = 0)
  <2>1. \A k \in Jvms : running'[k] = IF k = j THEN Nothing ELSE running[k]
    BY <1>1, <1>2 DEF TypeOK
  <2>. QED
    BY <1>2, <2>1, CommandTypes DEF Places, Awaited, At
<1>8. OneAwaited'
  BY <1>1, <1>7 DEF OneAwaited
\* The worker answered waited for this command, so for no other.
<1>9. SentByWorker'
  <2>1. ASSUME NEW k \in Jvms, NEW i \in Places(k)', Awaited(k, i, "start")'
        PROVE  start'.at = "waiting"
    <3>1. Awaited(k, i, "start") /\ i \in Places(k) /\ ~(k = j /\ i = 0)
      BY <1>7, <2>1
    <3>2. ~Awaited(j, 0, "start")
      BY <1>1, <1>4, <3>1 DEF OneAwaited, Kinds
    <3>. QED
      BY <1>1, <1>5, <3>1, <3>2 DEF SentByWorker
  <2>2. ASSUME NEW k \in Jvms, NEW i \in Places(k)', Awaited(k, i, "stop")'
        PROVE  stop'.at = "waiting"
    <3>1. Awaited(k, i, "stop") /\ i \in Places(k) /\ ~(k = j /\ i = 0)
      BY <1>7, <2>2
    <3>2. ~Awaited(j, 0, "stop")
      BY <1>1, <1>4, <3>1 DEF OneAwaited, Kinds
    <3>. QED
      BY <1>1, <1>5, <3>1, <3>2 DEF SentByWorker
  <2>. QED
    BY <2>1, <2>2 DEF SentByWorker
<1>. QED
  BY <1>6, <1>8, <1>9 DEF IInv

LEMMA DiesKeeps ==
  ASSUME IInv, NEW j \in Jvms, Dies(j)
  PROVE  IInv'
<1>1. TypeOK /\ SentByWorker /\ OneAwaited
  BY DEF IInv
<1>2. /\ alive' = alive \ {j} /\ UNCHANGED <<tui, workers, overtaken>>
      /\ listener' = [p \in Ports |-> IF listener[p] = j THEN None ELSE listener[p]]
      /\ agentRecording' = [agentRecording EXCEPT ![j] = FALSE]
      /\ running' = [running EXCEPT ![j] = Nothing]
      /\ waiting' = [waiting EXCEPT ![j] = <<>>]
  BY DEF Dies
<1>3. TypeOK' /\ StartExcludesStop'
  BY <1>1, <1>2 DEF IInv, TypeOK, StartExcludesStop, tui, workers
<1>4. Fewer
  <2>1. /\ \A k \in Jvms : k # j => running'[k] = running[k] /\ waiting'[k] = waiting[k]
        /\ running'[j] = Nothing /\ waiting'[j] = <<>> /\ Len(waiting[j]) \in Nat
    BY <1>1, <1>2 DEF TypeOK
  <2>. QED
    BY <2>1, CommandTypes DEF Fewer, Places, Awaited, At
<1>5. SentByWorker' /\ OneAwaited'
  BY <1>1, <1>2, <1>4, FewerAwaited, StillSent DEF workers
<1>. QED
  BY <1>3, <1>5 DEF IInv

----------------------------------------------------------------------------
LEMMA StepKeepsIInv == IInv /\ [Next]_vars => IInv'
<1>. SUFFICES ASSUME IInv, [Next]_vars PROVE IInv'
  OBVIOUS
<1>1. ASSUME LoopStep PROVE IInv'
  BY <1>1, LoopKeeps
<1>2. ASSUME StartWork \/ StopWork PROVE IInv'
  BY <1>2, AloneKeeps, SendKeeps, TimeOutKeeps DEF StartWork, StopWork, StartAlone, StopAlone
<1>3. ASSUME NEW j \in Jvms, TakeLock(j) \/ Finish(j) \/ Dies(j) PROVE IInv'
  BY <1>3, TakeLockKeeps, FinishKeeps, DiesKeeps
<1>4. ASSUME UNCHANGED vars PROVE IInv'
  BY <1>4 DEF vars, tui, workers, agents, IInv, TypeOK, StartExcludesStop, SentByWorker, OneAwaited,
     Places, Awaited, At
<1>. QED
  BY <1>1, <1>2, <1>3, <1>4 DEF Next, LoopStep

LEMMA InvariantHolds == Spec => []IInv
<1>1. IInv /\ [Next]_vars => IInv'
  BY StepKeepsIInv
<1>. QED
  BY <1>1, InitIInv, PTL DEF Spec

\* The variables keep their types, and each pending flag stands for exactly one
\* worker, which no late reply of an agent brings back (App::apply_result 1077-1104).
THEOREM SessionTypes == Spec => []TypeOK
<1>1. IInv => TypeOK
  BY DEF IInv
<1>. QED
  BY <1>1, InvariantHolds, PTL

\* A start and a stop are never under way together, with any number of JVMs,
\* ports and attempts (toggle_recording 530-554, auto_update 1179-1181).
THEOREM SessionStartExcludesStop == Spec => []StartExcludesStop
<1>1. IInv => StartExcludesStop
  BY DEF IInv
<1>. QED
  BY <1>1, InvariantHolds, PTL

----------------------------------------------------------------------------
(* Agreement.  An agent will do what the last command it was sent says,    *)
(* served or not, as long as it serves them in order.                      *)

WillRecord(j) ==
  IF waiting[j] = <<>> THEN agentRecording[j] ELSE waiting[j][Len(waiting[j])].kind = "start"

LeftWith(p, wanted) == listener[p] # None => (WillRecord(listener[p]) <=> wanted)

\* The worker has sent its command, and has not failed.
HasSent(worker) == worker.at = "waiting" \/ (worker.at = "done" /\ worker.success)

LastCommandLeft ==
  ~overtaken =>
    /\ HasSent(start) => LeftWith(start.port, TRUE)
    /\ HasSent(stop) => LeftWith(stop.port, FALSE)
    /\ ~startPending /\ ~stopPending /\ outcome = "ok" => LeftWith(agentPort, recording)

StopsOwnAgent == stopPending => stop.port = agentPort

AgreeInv == IInv /\ LastCommandLeft /\ StopsOwnAgent

LEMMA ListenerTypes ==
  ASSUME TypeOK
  PROVE  /\ \A p \in Ports : listener[p] # None => listener[p] \in Jvms
         /\ start.port \in Ports /\ stop.port \in Ports /\ agentPort \in Ports
         /\ recording \in BOOLEAN
         /\ \A j \in Jvms : agentRecording[j] \in BOOLEAN /\ waiting[j] \in Seq(Command)
BY DEF TypeOK, Worker

\* A start that is under way and has not sent its command says nothing yet.
LEMMA NothingSent ==
  ASSUME IInv', startPending', ~HasSent(start)'
  PROVE  LastCommandLeft' /\ StopsOwnAgent'
<1>1. stop'.at = "none" /\ ~stopPending'
  BY DEF IInv, TypeOK, StartExcludesStop
<1>. QED
  BY <1>1 DEF LastCommandLeft, StopsOwnAgent, HasSent

\* The event loop: a command begins, or its result is applied.
LEMMA LoopAgrees ==
  ASSUME AgreeInv, LoopStep, IInv'
  PROVE  AgreeInv'
<1>1. UNCHANGED agents
  BY DEF LoopStep, Key, RefreshJvms, SelectJvm, StartSession, LeaveStartCenter, ToggleStart,
         ToggleStop, AutoUpdate, StartSucceeds, StartFails, StopEnds
<1>2. \A p, wanted : LeftWith(p, wanted) => LeftWith(p, wanted)'
  BY <1>1 DEF agents, LeftWith, WillRecord
<1>3. /\ TypeOK /\ StartExcludesStop /\ LastCommandLeft /\ StopsOwnAgent /\ overtaken' = overtaken
      /\ start \in Worker /\ stop \in Worker
  BY <1>1 DEF AgreeInv, IInv, TypeOK, agents
<1>4. CASE UNCHANGED <<recording, agentPort, startPending, stopPending, outcome, start, stop>>
  <2>1. (HasSent(start)' <=> HasSent(start)) /\ (HasSent(stop)' <=> HasSent(stop))
    BY <1>4 DEF HasSent
  <2>. QED
    BY <1>2, <1>3, <1>4, <2>1 DEF AgreeInv, LastCommandLeft, StopsOwnAgent, HasSent
<1>5. CASE startPending' /\ start'.at = "discover"
  <2>1. ~HasSent(start)'
    BY <1>5 DEF HasSent
  <2>. QED
    BY <1>5, <2>1, NothingSent DEF AgreeInv
<1>6. CASE ToggleStop
  <2>1. /\ stopPending' /\ stop'.at = "send" /\ stop'.port = agentPort /\ agentPort' = agentPort
        /\ ~startPending'
    BY <1>3, <1>6 DEF ToggleStop, Idle, StartExcludesStop
  <2>2. start'.at = "none"
    BY <2>1 DEF IInv, TypeOK
  <2>. QED
    BY <2>1, <2>2 DEF AgreeInv, LastCommandLeft, StopsOwnAgent, HasSent
<1>7. CASE StartSucceeds
  <2>1. /\ HasSent(start) /\ start' = Idle /\ stop' = stop /\ agentPort' = start.port /\ recording' = TRUE
        /\ ~startPending' /\ stopPending' = stopPending
    BY <1>7 DEF StartSucceeds, HasSent, FoundPort
  <2>2. ~stopPending /\ stop.at = "none"
    BY <1>3, <1>7 DEF StartSucceeds, TypeOK, StartExcludesStop
  <2>3. ~HasSent(start)' /\ ~HasSent(stop)'
    BY <2>1, <2>2 DEF HasSent, Idle
  <2>. QED
    BY <1>2, <1>3, <2>1, <2>2, <2>3 DEF AgreeInv, LastCommandLeft, StopsOwnAgent
<1>8. CASE StartFails
  <2>1. /\ start' = Idle /\ stop' = stop /\ outcome' = "failed" /\ stopPending' = stopPending
    BY <1>8 DEF StartFails, FailsCleanly
  <2>2. ~stopPending /\ stop.at = "none"
    BY <1>3, <1>8 DEF StartFails, TypeOK, StartExcludesStop
  <2>. QED
    BY <2>1, <2>2 DEF AgreeInv, LastCommandLeft, StopsOwnAgent, HasSent, Idle
<1>9. CASE StopEnds
  <2>1. /\ stop.at = "done" /\ stop' = Idle /\ start' = start /\ ~stopPending'
        /\ stopPending /\ agentPort' = agentPort
        /\ recording' = (recording /\ ~stop.success)
        /\ outcome' = IF stop.success THEN "ok" ELSE "failed"
    BY <1>3, <1>9 DEF StopEnds, TypeOK
  <2>2. start.at = "none" /\ stop.port = agentPort
    BY <1>3, <2>1 DEF TypeOK, StartExcludesStop, StopsOwnAgent
  <2>3. ~HasSent(start)' /\ ~HasSent(stop)'
    BY <2>1, <2>2 DEF HasSent, Idle
  <2>4. CASE stop.success
    <3>1. HasSent(stop) /\ recording' = FALSE
      BY <2>1, <2>4 DEF HasSent
    <3>. QED
      BY <1>2, <1>3, <2>1, <2>2, <2>3, <3>1 DEF AgreeInv, LastCommandLeft, StopsOwnAgent
  <2>5. CASE ~stop.success
    BY <2>1, <2>3, <2>5 DEF AgreeInv, LastCommandLeft, StopsOwnAgent
  <2>. QED
    BY <2>4, <2>5
<1>. QED
  BY <1>4, <1>5, <1>6, <1>7, <1>8, <1>9 DEF LoopStep, Key, RefreshJvms, SelectJvm, StartSession,
     LeaveStartCenter, ToggleStart, AutoUpdate, StartIf, Idle, workers

\* A worker that has not sent yet, or whose attempt fails.
LEMMA AloneAgrees ==
  ASSUME AgreeInv, StartAlone \/ StopAlone, IInv'
  PROVE  AgreeInv'
<1>1. TypeOK /\ StartExcludesStop /\ start \in Worker /\ stop \in Worker
  BY DEF AgreeInv, IInv, TypeOK
<1>2. CASE StartAlone
  <2>1. startPending' /\ ~HasSent(start)'
    <3>1. /\ UNCHANGED <<tui, stop>> /\ start.at # "none"
          /\ start'.at \in {"send", "attach", "wait"} \/ (start'.at = "done" /\ ~start'.success)
      BY <1>1, <1>2 DEF StartAlone, Discover, Attach, AttachFails, AgentReady, AgentNotReady,
         StartRefused, StartBroken, StartStep, Failed, NextAttempt, Worker
    <3>. QED
      BY <1>1, <3>1 DEF TypeOK, tui, HasSent
  <2>. QED
    BY <2>1, NothingSent DEF AgreeInv
<1>3. CASE StopAlone
  <2>1. /\ UNCHANGED <<tui, start>> /\ stop.at # "none"
        /\ stop'.at = "done" /\ ~stop'.success /\ stop'.port = stop.port
    BY <1>1, <1>3 DEF StopAlone, StopRefused, StopBroken, StopStep, Failed, Worker
  <2>2. stopPending /\ start'.at = "none" /\ stopPending' /\ agentPort' = agentPort
    BY <1>1, <2>1 DEF TypeOK, StartExcludesStop, tui
  <2>. QED
    BY <2>1, <2>2 DEF AgreeInv, LastCommandLeft, StopsOwnAgent, HasSent
<1>. QED
  BY <1>2, <1>3

\* The agent that is sent a command will do as it says.
LEMMA EnqueueLeaves ==
  ASSUME TypeOK, NEW p \in Ports, NEW kind \in Kinds, Enqueue(p, kind)
  PROVE  LeftWith(p, kind = "start")'
<1> DEFINE new == [kind |-> kind, awaited |-> TRUE]
           j == listener[p]
<1>1. j \in Jvms /\ waiting' = [waiting EXCEPT ![j] = Append(@, new)] /\ listener' = listener
  BY ListenerTypes DEF Enqueue
<1>2. waiting[j] \in Seq(Command) /\ new \in Command /\ new.kind = kind
  BY <1>1, ListenerTypes, CommandTypes
<1>. HIDE DEF new
<1>3. waiting'[j] = Append(waiting[j], new)
  BY <1>1 DEF TypeOK
<1>4. waiting'[j] # <<>> /\ waiting'[j][Len(waiting'[j])] = new
  BY <1>2, <1>3, AppendProperties
<1>. QED
  BY <1>1, <1>2, <1>4 DEF LeftWith, WillRecord

LEMMA SendAgrees ==
  ASSUME AgreeInv, SendStart \/ SendStop, IInv'
  PROVE  AgreeInv'
<1>1. TypeOK /\ StartExcludesStop /\ StopsOwnAgent /\ start \in Worker /\ stop \in Worker
  BY DEF AgreeInv, IInv, TypeOK
<1>2. CASE SendStart
  <2>1. /\ UNCHANGED <<tui, stop>> /\ start.at = "send" /\ start'.port = start.port
        /\ Enqueue(start.port, "start")
    BY <1>1, <1>2 DEF SendStart, StartStep, Worker
  <2>2. startPending /\ ~stopPending /\ stop'.at = "none" /\ startPending' /\ ~stopPending'
    BY <1>1, <2>1 DEF TypeOK, StartExcludesStop, tui
  <2>3. PICK p \in Ports : p = start.port
    BY <1>1, ListenerTypes
  <2>4. LeftWith(p, TRUE)'
    BY <1>1, <2>1, <2>3, EnqueueLeaves DEF Kinds
  <2>5. LeftWith(start.port, TRUE)'
    BY <2>1, <2>3, <2>4
  <2>. QED
    BY <2>2, <2>5 DEF AgreeInv, LastCommandLeft, StopsOwnAgent, HasSent
<1>3. CASE SendStop
  <2>1. /\ UNCHANGED <<tui, start>> /\ stop.at = "send" /\ stop'.port = stop.port
        /\ Enqueue(stop.port, "stop")
    BY <1>1, <1>3 DEF SendStop, StopStep, Worker
  <2>2. /\ stopPending /\ start'.at = "none" /\ stopPending' /\ stop'.port = agentPort'
    BY <1>1, <2>1 DEF TypeOK, StartExcludesStop, StopsOwnAgent, tui
  <2>3. PICK p \in Ports : p = stop.port
    BY <1>1, ListenerTypes
  <2>4. LeftWith(p, FALSE)'
    BY <1>1, <2>1, <2>3, EnqueueLeaves DEF Kinds, LeftWith
  <2>5. LeftWith(stop.port, FALSE)'
    BY <2>1, <2>3, <2>4
  <2>. QED
    BY <2>2, <2>5 DEF AgreeInv, LastCommandLeft, StopsOwnAgent, HasSent
<1>. QED
  BY <1>2, <1>3

\* A step that ends or keeps what the workers have sent, and leaves every agent
\* that is still there to do what it would have done.
LEMMA SentOnAgrees ==
  ASSUME AgreeInv, IInv', UNCHANGED tui, overtaken' = overtaken,
         start'.port = start.port, HasSent(start)' => HasSent(start),
         stop'.port = stop.port, HasSent(stop)' => HasSent(stop),
         \A p \in Ports : listener'[p] # None =>
           listener'[p] = listener[p] /\ (WillRecord(listener[p])' <=> WillRecord(listener[p]))
  PROVE  AgreeInv'
<1>1. \A p \in Ports, wanted \in BOOLEAN : LeftWith(p, wanted) => LeftWith(p, wanted)'
  BY DEF LeftWith
<1>2. start.port \in Ports /\ stop.port \in Ports /\ agentPort \in Ports /\ recording \in BOOLEAN
  BY ListenerTypes DEF AgreeInv, IInv
<1>. QED
  BY <1>1, <1>2 DEF AgreeInv, LastCommandLeft, StopsOwnAgent, tui

LEMMA TimeOutAgrees ==
  ASSUME AgreeInv, StartTimesOut \/ StopTimesOut, IInv'
  PROVE  AgreeInv'
<1>1. TypeOK /\ start \in Worker /\ stop \in Worker
  BY DEF AgreeInv, IInv, TypeOK
<1>2. PICK kind \in Kinds : GiveUp(kind)
  BY DEF StartTimesOut, StopTimesOut, Kinds
<1>3. /\ UNCHANGED tui /\ overtaken' = overtaken
      /\ listener' = listener /\ agentRecording' = agentRecording
  BY <1>2 DEF GiveUp, StartTimesOut, StopTimesOut, StartStep, StopStep
<1>4. /\ start'.port = start.port /\ (HasSent(start)' => HasSent(start))
      /\ stop'.port = stop.port /\ (HasSent(stop)' => HasSent(stop))
  BY <1>1 DEF StartTimesOut, StopTimesOut, StartStep, StopStep, Succeeded, HasSent, Worker
<1>5. ASSUME NEW j \in Jvms PROVE WillRecord(j)' <=> WillRecord(j)
  <2>1. /\ Len(waiting'[j]) = Len(waiting[j])
        /\ \A i \in 1..Len(waiting[j]) : waiting'[j][i].kind = waiting[j][i].kind
    BY <1>1, <1>2, GivenUp
  <2>2. waiting[j] \in Seq(Command) /\ waiting'[j] \in Seq(Command)
    BY ListenerTypes DEF AgreeInv, IInv, TypeOK
  <2>3. waiting'[j] = <<>> <=> waiting[j] = <<>>
    BY <2>1, <2>2, EmptySeq
  <2>4. waiting[j] # <<>> => Len(waiting[j]) \in 1..Len(waiting[j])
    BY <2>2, EmptySeq, LenProperties
  <2>. QED
    BY <1>3, <2>1, <2>3, <2>4 DEF WillRecord
<1>6. \A p \in Ports : listener'[p] # None =>
        listener'[p] = listener[p] /\ (WillRecord(listener[p])' <=> WillRecord(listener[p]))
  <2>1. \A p \in Ports : listener[p] # None => listener[p] \in Jvms
    BY <1>1, ListenerTypes
  <2>. QED
    BY <1>3, <1>5, <2>1 DEF WillRecord
<1>. QED
  BY <1>3, <1>4, <1>6, SentOnAgrees

\* The oldest command is taken: what the agent does now is what it would do.
LEMMA TakeLockAgrees ==
  ASSUME AgreeInv, NEW j \in Jvms, TakeLock(j), IInv'
  PROVE  AgreeInv'
<1>1. PICK m \in DOMAIN waiting[j] :
        /\ waiting' = [waiting EXCEPT ![j] = RemoveAt(waiting[j], m)]
        /\ agentRecording' = [agentRecording EXCEPT ![j] = Flag(j, waiting[j][m])]
        /\ overtaken' = (overtaken \/ m # 1)
  BY Zenon DEF TakeLock
<1>2. UNCHANGED <<tui, workers, listener>>
  BY DEF TakeLock
<1>3. CASE overtaken'
  BY <1>2, <1>3 DEF AgreeInv, LastCommandLeft, StopsOwnAgent, tui, workers
<1>4. CASE ~overtaken'
  <2>1. m = 1 /\ overtaken' = overtaken
    <3>1. overtaken \in BOOLEAN
      BY DEF AgreeInv, IInv, TypeOK
    <3>. QED
      BY <1>1, <1>4, <3>1
  <2>2. /\ waiting[j] \in Seq(Command) /\ 1 \in 1..Len(waiting[j])
        /\ \A k \in Jvms : k # j => waiting'[k] = waiting[k] /\ agentRecording'[k] = agentRecording[k]
        /\ waiting'[j] = RemoveAt(waiting[j], 1) /\ agentRecording'[j] = Flag(j, waiting[j][1])
    <3>1. waiting[j] \in Seq(Command)
      BY ListenerTypes DEF AgreeInv, IInv
    <3>2. DOMAIN waiting[j] = 1..Len(waiting[j])
      BY <3>1, LenProperties
    <3>. QED
      BY <1>1, <2>1, <3>1, <3>2 DEF AgreeInv, IInv, TypeOK
  <2>3. /\ waiting'[j] \in Seq(Command) /\ Len(waiting'[j]) = Len(waiting[j]) - 1
        /\ \A n \in 1..(Len(waiting[j]) - 1) : waiting'[j][n] = waiting[j][IF n < 1 THEN n ELSE n + 1]
    <3>1. /\ RemoveAt(waiting[j], 1) \in Seq(Command)
          /\ Len(RemoveAt(waiting[j], 1)) = Len(waiting[j]) - 1
          /\ \A n \in 1..(Len(waiting[j]) - 1) :
               RemoveAt(waiting[j], 1)[n] = waiting[j][IF n < 1 THEN n ELSE n + 1]
      BY Zenon, <2>2, RemoveAtFacts
    <3>. QED
      BY <2>2, <3>1
  <2>4. WillRecord(j)' <=> WillRecord(j)
    <3>1. CASE Len(waiting[j]) = 1
      <4>1. waiting'[j] = <<>> /\ waiting[j] # <<>>
        BY <2>2, <2>3, <3>1, EmptySeq
      <4>. QED
        BY <2>2, <3>1, <4>1 DEF WillRecord, Flag
    <3>2. CASE Len(waiting[j]) # 1
      <4>1. Len(waiting[j]) \in Nat /\ Len(waiting[j]) - 1 \in Nat \ {0}
        BY <2>2, <3>2, LenProperties
      <4>2. waiting'[j] # <<>> /\ waiting[j] # <<>>
        <5>1. Len(waiting'[j]) # 0 /\ Len(waiting[j]) # 0
          BY <2>3, <4>1
        <5>. QED
          BY <5>1
      <4>3. Len(waiting[j]) - 1 \in 1..(Len(waiting[j]) - 1)
        <5>1. \A n \in Nat \ {0} : n \in 1..n
          OBVIOUS
        <5>. QED
          BY <4>1, <5>1
      <4>4. waiting'[j][Len(waiting'[j])] = waiting[j][Len(waiting[j])]
        BY <2>3, <4>1, <4>3
      <4>. QED
        BY <4>2, <4>4 DEF WillRecord
    <3>. QED
      BY <3>1, <3>2
  <2>5. \A k \in Jvms : WillRecord(k)' <=> WillRecord(k)
    BY <2>2, <2>4 DEF WillRecord
  <2>6. \A p \in Ports : listener'[p] # None =>
          listener'[p] = listener[p] /\ (WillRecord(listener[p])' <=> WillRecord(listener[p]))
    <3>1. \A p \in Ports : listener[p] # None => listener[p] \in Jvms
      BY ListenerTypes DEF AgreeInv, IInv
    <3>. QED
      BY <1>2, <2>5, <3>1 DEF WillRecord
  <2>. QED
    BY <1>2, <2>1, <2>6, SentOnAgrees DEF workers, HasSent
<1>. QED
  BY <1>3, <1>4

\* A command has been carried out; its worker, if it waits, is told.
LEMMA FinishAgrees ==
  ASSUME AgreeInv, NEW j \in Jvms, Finish(j), IInv'
  PROVE  AgreeInv'
<1>1. TypeOK /\ SentByWorker /\ start \in Worker /\ stop \in Worker
  BY DEF AgreeInv, IInv, TypeOK
<1>2. /\ start' = Replied(start, "start", running[j])
      /\ stop' = Replied(stop, "stop", running[j])
      /\ UNCHANGED <<tui, alive, listener, agentRecording, waiting, overtaken>>
  BY DEF Finish
<1>3. /\ running[j].awaited /\ running[j].kind = "start" => start.at = "waiting"
      /\ running[j].awaited /\ running[j].kind = "stop" => stop.at = "waiting"
  <2>1. Len(waiting[j]) \in Nat
    BY <1>1 DEF TypeOK
  <2>2. 0 \in Places(j)
    BY <2>1 DEF Places
  <2>. QED
    BY <1>1, <2>2 DEF SentByWorker, Awaited, At
<1>4. /\ start'.port = start.port /\ (HasSent(start)' => HasSent(start))
      /\ stop'.port = stop.port /\ (HasSent(stop)' => HasSent(stop))
  BY <1>1, <1>2, <1>3 DEF Replied, Succeeded, HasSent, Worker
<1>5. \A p \in Ports : listener'[p] # None =>
        listener'[p] = listener[p] /\ (WillRecord(listener[p])' <=> WillRecord(listener[p]))
  BY <1>2 DEF WillRecord
<1>. QED
  BY <1>2, <1>4, <1>5, SentOnAgrees

\* Nobody listens any more where a JVM has ended.
LEMMA DiesAgrees ==
  ASSUME AgreeInv, NEW j \in Jvms, Dies(j), IInv'
  PROVE  AgreeInv'
<1>1. TypeOK
  BY DEF AgreeInv, IInv
<1>2. /\ UNCHANGED <<tui, workers, overtaken>>
      /\ listener' = [p \in Ports |-> IF listener[p] = j THEN None ELSE listener[p]]
      /\ agentRecording' = [agentRecording EXCEPT ![j] = FALSE]
      /\ waiting' = [waiting EXCEPT ![j] = <<>>]
  BY DEF Dies
<1>3. \A k \in Jvms : k # j => waiting'[k] = waiting[k] /\ agentRecording'[k] = agentRecording[k]
  BY <1>1, <1>2 DEF TypeOK
<1>4. ASSUME NEW p \in Ports, listener'[p] # None
      PROVE  listener'[p] = listener[p] /\ (WillRecord(listener[p])' <=> WillRecord(listener[p]))
  <2>1. listener[p] # j /\ listener'[p] = listener[p] /\ listener[p] \in Jvms
    BY <1>1, <1>2, <1>4, ListenerTypes
  <2>. QED
    BY <1>3, <2>1 DEF WillRecord
<1>. QED
  BY <1>2, <1>4, SentOnAgrees DEF workers, HasSent

LEMMA StepAgrees ==
  ASSUME AgreeInv, [Next]_vars
  PROVE  AgreeInv'
<1>1. IInv'
  BY StepKeepsIInv DEF AgreeInv
<1>2. CASE UNCHANGED vars
  BY <1>1, <1>2 DEF vars, tui, workers, agents, AgreeInv, LastCommandLeft, StopsOwnAgent, HasSent,
     LeftWith, WillRecord
<1>3. ASSUME NEW j \in Jvms, TakeLock(j) \/ Finish(j) \/ Dies(j) PROVE AgreeInv'
  BY <1>1, <1>3, TakeLockAgrees, FinishAgrees, DiesAgrees
<1>. QED
  BY <1>1, <1>2, <1>3, LoopAgrees, AloneAgrees, SendAgrees, TimeOutAgrees
     DEF Next, LoopStep, StartWork, StopWork, StartAlone, StopAlone

\* Once nothing is under way, the TUI shows what the agent on its port does, also
\* after commands that were taken for done before they were, as long as the
\* agent served its commands in order (App::apply_result 1077-1104).
THEOREM SessionAgreement == Spec => []Agreement
<1>1. Init => AgreeInv
  <2>. SUFFICES ASSUME Init PROVE AgreeInv
    OBVIOUS
  <2>1. IInv
    BY InitIInv
  <2>. QED
    BY <2>1 DEF Init, Idle, AgreeInv, LastCommandLeft, StopsOwnAgent, HasSent
<1>2. AgreeInv /\ [Next]_vars => AgreeInv'
  BY StepAgrees
<1>3. ASSUME AgreeInv PROVE Agreement
  <2>. SUFFICES ASSUME Quiet, outcome = "ok", ~overtaken, listener[agentPort] # None
                PROVE  recording = agentRecording[listener[agentPort]]
    BY DEF Agreement
  <2>1. listener[agentPort] \in Jvms /\ recording \in BOOLEAN
    BY <1>3, ListenerTypes DEF AgreeInv, IInv
  <2>2. agentRecording[listener[agentPort]] \in BOOLEAN /\ waiting[listener[agentPort]] = <<>>
    BY <1>3, <2>1, ListenerTypes DEF AgreeInv, IInv, Quiet
  <2>3. WillRecord(listener[agentPort]) <=> recording
    BY <1>3 DEF AgreeInv, LastCommandLeft, LeftWith, Quiet
  <2>. QED
    BY <2>1, <2>2, <2>3 DEF WillRecord
<1>. QED
  BY <1>1, <1>2, <1>3, PTL DEF Spec
=============================================================================
