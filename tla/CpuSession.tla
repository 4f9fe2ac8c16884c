---------------------------- MODULE CpuSession ----------------------------
(***************************************************************************)
(* Starting and stopping CPU recording from the TUI: the event loop of     *)
(* app.rs, the worker threads it spawns, the client of protocol.rs with    *)
(* its timeouts, and the agents that serve the commands.                   *)
(*                                                                         *)
(* A start finds the agent or attaches one, then sends the command, up to  *)
(* Attempts times; a stop sends its command once.  Either takes a timeout  *)
(* of the reply for success, while the command stays where it is: waiting  *)
(* for recordingLock, or running.  Locks are handed over in no order.      *)
(*                                                                         *)
(* Any JVM may already hold an agent, recording or not: quitting the TUI   *)
(* leaves it there.  The steps of the event loop (poll, update, key) come  *)
(* in any order here.  Not modelled: the fetches, whose results change     *)
(* nothing but what is drawn, and ports taken by other programs.           *)
(***************************************************************************)
EXTENDS Integers, SequencesExt

CONSTANTS
  Jvms,      \* JVMs on this machine
  None,      \* no JVM
  Ports,     \* TCP ports an agent may be given
  Preferred, \* the port given on the command line, or 8849
  Attempts,  \* how often a start is sent (3 in the code)
  MaxWaiting \* bound: commands of one agent that wait for its lock

ASSUME SessionAssumption ==
  /\ None \notin Jvms
  /\ Ports \subseteq Nat /\ Preferred \in Ports
  /\ Attempts \in Nat \ {0} /\ MaxWaiting \in Nat

VARIABLES
  \* the event loop's own
  started,        \* the start center has been left
  jvms,           \* the list of the last refresh
  selected,       \* selected_pid
  recording,      \* cpu.recording
  agentPort,      \* cpu.agent_port
  initialPending, \* pending_initial_cpu_start
  startPending, stopPending, \* cpu_recording_start_pending, cpu_recording_stop_pending
  outcome,        \* history: how the last command ended
  \* its workers
  start, stop,
  \* the JVMs
  alive,
  listener,       \* per port: the JVM whose agent listens there
  agentRecording, \* JavaAgent.recording
  running,        \* per JVM: the command that holds recordingLock
  waiting,        \* per JVM: the commands that wait for it, oldest first
  overtaken       \* history: a command was served before an older one

tui     == <<started, jvms, selected, recording, agentPort, initialPending,
             startPending, stopPending, outcome>>
workers == <<start, stop>>
agents  == <<alive, listener, agentRecording, running, waiting, overtaken>>
vars    == <<tui, workers, agents>>

Idle == [at |-> "none", jvm |-> None, port |-> Preferred, attempt |-> 1, success |-> FALSE]

\* A command in an agent; awaited: the worker that sent it still waits.
Command == [kind : {"start", "stop"}, awaited : BOOLEAN]
Nothing == [kind |-> "none", awaited |-> FALSE]

Init ==
  /\ started = FALSE /\ jvms = {} /\ selected = None
  /\ recording = FALSE /\ agentPort = Preferred
  /\ initialPending = FALSE /\ startPending = FALSE /\ stopPending = FALSE
  /\ outcome = "none"
  /\ start = Idle /\ stop = Idle
  /\ alive = Jvms
  /\ listener \in [Ports -> Jvms \cup {None}]
  /\ \A p, q \in Ports : listener[p] = listener[q] /\ p # q => listener[p] = None
  /\ agentRecording \in [Jvms -> BOOLEAN]
  /\ \A j \in Jvms : agentRecording[j] => \E p \in Ports : listener[p] = j
  /\ running = [j \in Jvms |-> Nothing] /\ waiting = [j \in Jvms |-> <<>>]
  /\ overtaken = FALSE

----------------------------------------------------------------------------
(* The event loop.                                                         *)

\* Mutant: only a start under way is looked at.
NotStarting == ~startPending

\* spawn_start_cpu_recording, from the key or by itself.
MayStart == ~recording /\ ~startPending

StartIf(wanted) ==
  IF wanted /\ MayStart /\ selected' # None
  THEN /\ startPending' = TRUE
       /\ start' = [Idle EXCEPT !.at = "discover", !.jvm = selected', !.port = agentPort]
  ELSE UNCHANGED <<start, startPending>>

\* The first JVM of the list, or one that looks like the demo server.
EnsureSelected(list) ==
  IF selected = None /\ list # {} THEN selected' \in list ELSE UNCHANGED selected

\* jps answers: after the start center, a list means that recording is wanted.
RefreshJvms ==
  /\ jvms' = alive
  /\ EnsureSelected(alive)
  /\ initialPending' = (initialPending \/ (started /\ selected' # None /\ ~recording))
  /\ UNCHANGED <<started, recording, agentPort, startPending, stopPending, outcome>>
  /\ UNCHANGED <<workers, agents>>

\* next_jvm and prev_jvm: the arrow keys select only in the start center.
SelectJvm ==
  /\ ~started
  /\ selected' \in jvms
  /\ UNCHANGED <<started, jvms, recording, agentPort, initialPending, startPending,
                 stopPending, outcome>>
  /\ UNCHANGED <<workers, agents>>

\* start_selected_jvm_session.
StartSession ==
  /\ ~started
  /\ EnsureSelected(jvms)
  /\ started' = (selected' # None)
  /\ StartIf(TRUE)
  /\ UNCHANGED <<jvms, recording, agentPort, initialPending, stopPending, outcome>>
  /\ UNCHANGED <<stop, agents>>

\* Keys 1 to 4, left and right leave the start center without a session.
LeaveStartCenter ==
  /\ ~started
  /\ started' = TRUE
  /\ UNCHANGED <<jvms, selected, recording, agentPort, initialPending, startPending,
                 stopPending, outcome>>
  /\ UNCHANGED <<workers, agents>>

\* toggle_recording, after the start center.
ToggleStart ==
  /\ started /\ ~recording
  /\ UNCHANGED selected
  /\ StartIf(TRUE)
  /\ UNCHANGED <<started, jvms, recording, agentPort, initialPending, stopPending,
                 outcome>>
  /\ UNCHANGED <<stop, agents>>

ToggleStop ==
  /\ started /\ recording
  /\ ~stopPending
  /\ stopPending' = TRUE
  /\ stop' = [Idle EXCEPT !.at = "send", !.port = agentPort]
  /\ UNCHANGED <<started, jvms, selected, recording, agentPort, initialPending, startPending,
                 outcome>>
  /\ UNCHANGED <<start, agents>>

\* auto_update starts what is pending, with no key.
AutoUpdate ==
  /\ selected # None \/ recording
  /\ initialPending' = (initialPending /\ ~started)
  /\ UNCHANGED selected
  /\ StartIf(initialPending /\ started)
  /\ UNCHANGED <<started, jvms, recording, agentPort, stopPending, outcome>>
  /\ UNCHANGED <<stop, agents>>

\* Mutant: the port the agent was found on is forgotten.
KeepPort == agentPort

FoundPort == start.port

\* apply_result of a start.
StartSucceeds ==
  /\ start.at = "done" /\ start.success
  /\ start' = Idle
  /\ startPending' = FALSE
  /\ agentPort' = FoundPort
  /\ recording' = TRUE
  /\ outcome' = "ok"
  /\ UNCHANGED <<started, jvms, selected, initialPending, stopPending>>
  /\ UNCHANGED <<stop, agents>>

\* Mutant: only success ends the pending start.
FailsPending == start' = Idle /\ UNCHANGED startPending

FailsCleanly == start' = Idle /\ startPending' = FALSE

StartFails ==
  /\ start.at = "done" /\ ~start.success
  /\ FailsCleanly
  /\ recording' = FALSE
  /\ outcome' = "failed"
  /\ UNCHANGED <<started, jvms, selected, agentPort, initialPending, stopPending>>
  /\ UNCHANGED <<stop, agents>>

\* apply_result of a stop; if it failed, recording is still shown.
StopEnds ==
  /\ stop.at = "done"
  /\ stop' = Idle
  /\ stopPending' = FALSE
  /\ recording' = (recording /\ ~stop.success)
  /\ outcome' = IF stop.success THEN "ok" ELSE "failed"
  /\ UNCHANGED <<started, jvms, selected, agentPort, initialPending, startPending>>
  /\ UNCHANGED <<start, agents>>

Key == SelectJvm \/ StartSession \/ LeaveStartCenter \/ ToggleStart \/ ToggleStop

----------------------------------------------------------------------------
(* Workers.                                                                *)

StartStep(from, to) ==
  /\ start.at = from
  /\ start' = to
  /\ UNCHANGED <<tui, stop>>

Failed(worker) == [worker EXCEPT !.at = "done", !.success = FALSE]
Succeeded(worker) == [worker EXCEPT !.at = "done", !.success = TRUE]

\* discover_openprofiler_agent_port: the preferred port is asked first and
\* whoever answers there is taken; a probe may time out.
Discover ==
  /\ \/ /\ listener[start.port] # None
        /\ StartStep("discover", [start EXCEPT !.at = "send"])
     \/ \E p \in Ports :
          /\ listener[p] = start.jvm
          /\ StartStep("discover", [start EXCEPT !.at = "send", !.port = p])
     \/ StartStep("discover", [start EXCEPT !.at = "attach"])
  /\ UNCHANGED agents

FreePorts == {p \in Ports : listener[p] = None}

\* select_attach_port: the preferred port if it is free, else the lowest.
Selectable == {p \in FreePorts : IF start.port \in FreePorts THEN p = start.port
                                                         ELSE \A q \in FreePorts : p <= q}

Attach ==
  /\ \E p \in Selectable :
       /\ start.jvm \in alive
       /\ listener' = [listener EXCEPT ![p] = start.jvm]
       /\ StartStep("attach", [start EXCEPT !.at = "wait", !.port = p])
  /\ UNCHANGED <<alive, agentRecording, running, waiting, overtaken>>

\* No port, no permission, or the JVM is gone.
AttachFails ==
  /\ StartStep("attach", Failed(start))
  /\ UNCHANGED agents

\* wait_for_openprofiler_agent, and its eight seconds.
AgentReady ==
  /\ listener[start.port] = start.jvm
  /\ StartStep("wait", [start EXCEPT !.at = "send"])
  /\ UNCHANGED agents

AgentNotReady ==
  /\ StartStep("wait", Failed(start))
  /\ UNCHANGED agents

\* Mutant: one attempt too many.
OneAttemptMore ==
  IF start.attempt <= Attempts
  THEN [start EXCEPT !.at = "send", !.attempt = @ + 1] ELSE Failed(start)

\* A failed attempt is made again, from the connection on.
NextAttempt ==
  IF start.attempt < Attempts
  THEN [start EXCEPT !.at = "send", !.attempt = @ + 1] ELSE Failed(start)

Enqueue(port, kind) ==
  LET j == listener[port]
  IN  /\ j # None
      /\ Len(waiting[j]) < MaxWaiting
      /\ waiting' = [waiting EXCEPT ![j] = Append(@, [kind |-> kind, awaited |-> TRUE])]
      /\ UNCHANGED <<alive, listener, agentRecording, running, overtaken>>

SendStart ==
  /\ StartStep("send", [start EXCEPT !.at = "waiting"])
  /\ Enqueue(start.port, "start")

\* Nobody listens there, or the connection is not made within 250 ms.
StartRefused ==
  /\ StartStep("send", NextAttempt)
  /\ UNCHANGED agents

Awaiting(kind) == \E j \in Jvms :
  \E c \in {running[j]} \cup ToSet(waiting[j]) : c.kind = kind /\ c.awaited

\* Nobody waits for the command any more; it stays in the agent.
Given(c, kind) == IF c.kind = kind THEN [c EXCEPT !.awaited = FALSE] ELSE c

GiveUp(kind) ==
  /\ Awaiting(kind)
  /\ running' = [j \in Jvms |-> Given(running[j], kind)]
  /\ waiting' = [j \in Jvms |-> [i \in DOMAIN waiting[j] |-> Given(waiting[j][i], kind)]]
  /\ UNCHANGED <<alive, listener, agentRecording, overtaken>>

\* send_command_allow_response_timeout: a timeout is success.
StartTimesOut ==
  /\ StartStep("waiting", Succeeded(start))
  /\ GiveUp("start")

\* The JVM ended: the connection breaks.
StartBroken ==
  /\ ~Awaiting("start")
  /\ StartStep("waiting", NextAttempt)
  /\ UNCHANGED agents

StartWork ==
  \/ Discover \/ Attach \/ AttachFails \/ AgentReady \/ AgentNotReady
  \/ SendStart \/ StartRefused \/ StartTimesOut \/ StartBroken

StopStep(from, to) ==
  /\ stop.at = from
  /\ stop' = to
  /\ UNCHANGED <<tui, start>>

SendStop ==
  /\ StopStep("send", [stop EXCEPT !.at = "waiting"])
  /\ Enqueue(stop.port, "stop")

StopRefused ==
  /\ StopStep("send", Failed(stop))
  /\ UNCHANGED agents

StopTimesOut ==
  /\ StopStep("waiting", Succeeded(stop))
  /\ GiveUp("stop")

StopBroken ==
  /\ ~Awaiting("stop")
  /\ StopStep("waiting", Failed(stop))
  /\ UNCHANGED agents

StopWork == SendStop \/ StopRefused \/ StopTimesOut \/ StopBroken

----------------------------------------------------------------------------
(* The agents: handlers of TcpServer, and the JVMs.                        *)

\* Mutant: a command whose client has gone is not carried out.
IfAwaited(j, c) == IF c.awaited THEN c.kind = "start" ELSE agentRecording[j]

Flag(j, c) == c.kind = "start"

\* Any waiting handler may get the lock; it sets the flag at once.
TakeLock(j) ==
  /\ running[j] = Nothing
  /\ \E i \in DOMAIN waiting[j] :
       /\ running' = [running EXCEPT ![j] = waiting[j][i]]
       /\ waiting' = [waiting EXCEPT ![j] = RemoveAt(@, i)]
       /\ agentRecording' = [agentRecording EXCEPT ![j] = Flag(j, waiting[j][i])]
       /\ overtaken' = (overtaken \/ i # 1)
  /\ UNCHANGED <<tui, workers, alive, listener>>

\* The classes are done, the lock is released, the heartbeat is sent.
Replied(worker, kind, c) == IF c.awaited /\ c.kind = kind THEN Succeeded(worker) ELSE worker

Finish(j) ==
  /\ running[j] # Nothing
  /\ running' = [running EXCEPT ![j] = Nothing]
  /\ start' = Replied(start, "start", running[j])
  /\ stop' = Replied(stop, "stop", running[j])
  /\ UNCHANGED <<tui, alive, listener, agentRecording, waiting, overtaken>>

Dies(j) ==
  /\ j \in alive
  /\ alive' = alive \ {j}
  /\ listener' = [p \in Ports |-> IF listener[p] = j THEN None ELSE listener[p]]
  /\ agentRecording' = [agentRecording EXCEPT ![j] = FALSE]
  /\ running' = [running EXCEPT ![j] = Nothing]
  /\ waiting' = [waiting EXCEPT ![j] = <<>>]
  /\ UNCHANGED <<tui, workers, overtaken>>

Next ==
  \/ Key \/ RefreshJvms \/ AutoUpdate
  \/ StartSucceeds \/ StartFails \/ StopEnds
  \/ StartWork \/ StopWork
  \/ \E j \in Jvms : TakeLock(j) \/ Finish(j) \/ Dies(j)

\* A command goes on until its result is applied, and an agent serves what it
\* was sent; no user need press a key, and no JVM need end.
Fairness ==
  /\ WF_vars(StartWork \/ StartSucceeds \/ StartFails)
  /\ WF_vars(StopWork \/ StopEnds)
  /\ \A j \in Jvms : WF_vars(TakeLock(j) \/ Finish(j))

Spec     == Init /\ [][Next]_vars
FairSpec == Spec /\ Fairness

----------------------------------------------------------------------------
Worker == [at : {"none", "discover", "attach", "wait", "send", "waiting", "done"},
           jvm : Jvms \cup {None}, port : Ports, attempt : 1 .. Attempts, success : BOOLEAN]

(* The values the variables take; a pending flag stands for its worker.     *)
TypeOK ==
  /\ {started, recording, initialPending, startPending, stopPending, overtaken}
       \subseteq BOOLEAN
  /\ jvms \subseteq Jvms /\ selected \in Jvms \cup {None}
  /\ agentPort \in Ports
  /\ outcome \in {"none", "ok", "failed"}
  /\ start \in Worker /\ stop \in Worker
  /\ startPending <=> start.at # "none"
  /\ stopPending <=> stop.at # "none"
  /\ alive \subseteq Jvms
  /\ listener \in [Ports -> alive \cup {None}]
  /\ agentRecording \in [Jvms -> BOOLEAN]
  /\ running \in [Jvms -> Command \cup {Nothing}]
  /\ waiting \in [Jvms -> Seq(Command)]

(* StartExcludesStop: whatever keys, lists and late results come together,  *)
(* a start and a stop are never under way at once, and neither overtakes    *)
(* its own predecessor (toggle_recording 530-554, auto_update 1179-1181).   *)
StartExcludesStop ==
  /\ ~(startPending /\ stopPending)
  /\ stopPending => recording
  /\ startPending => ~recording

Quiet ==
  /\ ~startPending /\ ~stopPending
  /\ \A j \in Jvms : running[j] = Nothing /\ waiting[j] = <<>>

(* Agreement: once nothing is under way, a session whose last command was   *)
(* taken for done, on time or not, shows what the agent on its port does,   *)
(* unless a handler got the lock before an older one (1078-1104).           *)
Agreement ==
  Quiet /\ outcome = "ok" /\ ~overtaken /\ listener[agentPort] # None =>
    recording = agentRecording[listener[agentPort]]

(* PendingClears: no key stays dead: every start and every stop ends,       *)
(* through time-outs, refused connections and JVMs that end.                *)
PendingClears ==
  /\ startPending ~> ~startPending
  /\ stopPending ~> ~stopPending

(* StopTakesEffect: a stop that was shown as done, although the agent had   *)
(* not answered, stops the recording before anything else happens or the    *)
(* user has had it started again.                                           *)
StopTakesEffect ==
  \A j \in Jvms :
    (outcome = "ok" /\ ~recording /\ listener[agentPort] = j)
      ~> (~agentRecording[j] \/ startPending \/ overtaken)

(* RightJvm: "CPU recording enabled for JVM {pid}" (app.rs:835) names the   *)
(* JVM whose agent has been told to record.                                 *)
RightJvm ==
  start.at = "done" /\ start.success => listener[start.port] \in {start.jvm, None}
=============================================================================
