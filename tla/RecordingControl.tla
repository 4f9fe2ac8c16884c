-------------------------- MODULE RecordingControl --------------------------
(***************************************************************************)
(* startRecording and stopRecording of JavaAgent.java, run by the threads  *)
(* of TcpServer, against classes the program loads meanwhile.              *)
(*                                                                         *)
(* Both commands hold recordingLock; class loading does not.  It reads the *)
(* recording flag in ProfilingClassFileTransformer.transform, adds the     *)
(* class NAME to transformedClasses, and only later is the class among     *)
(* those getAllLoadedClasses lists.  A start retransforms the listed       *)
(* classes whose name is not in the set, a stop those whose name is.       *)
(*                                                                         *)
(* Classes stand for those that shouldInspect and shouldRecordMethods (or  *)
(* isAllocationTraceClass) accept; the others are never touched.  What the *)
(* hooks do is in MethodHooks.tla, the ids they get in MethodRegistry.tla. *)
(***************************************************************************)
EXTENDS FiniteSets

CONSTANTS
  Handlers, \* threads that serve a connection
  Classes,  \* classes to instrument
  Name      \* their names; two class loaders may define the same name

ASSUME ControlAssumption == DOMAIN Name = Classes

VARIABLES
  recording,   \* JavaAgent.recording
  lock,        \* the holder of recordingLock, as a set
  handler,     \* per handler: what it does, the classes left to visit
  transformed, \* transformedClasses: names
  loading,     \* per class: how far loading it has got
  hooked,      \* classes whose current bytecode has the hooks
  straddled,   \* history: classes being loaded when the last scan was begun
  failed       \* history: classes the last attempt to change failed for

classes == <<transformed, loading, hooked>>
vars    == <<recording, lock, handler, classes, straddled, failed>>

IdleHandler == [at |-> "idle", todo |-> {}, class |-> {}]

Init ==
  /\ recording = FALSE
  /\ lock = {}
  /\ handler = [h \in Handlers |-> IdleHandler]
  /\ transformed = {} /\ hooked = {}
  /\ loading \in [Classes -> {"unloaded", "loaded"}]
  /\ straddled = {} /\ failed = {}

Loaded == {c \in Classes : loading[c] = "loaded"}

----------------------------------------------------------------------------
(* Loading a class: the JVM calls transform, then defines the class.       *)

LoadingStep(c, from, to) ==
  /\ loading[c] = from
  /\ loading' = [loading EXCEPT ![c] = to]
  /\ UNCHANGED <<recording, lock, handler, straddled>>

ReadFlag(c) ==
  /\ LoadingStep(c, "unloaded", IF recording THEN "to_hook" ELSE "plain")
  /\ UNCHANGED <<transformed, hooked, failed>>

\* An exception in the visitor is caught: the class is loaded as it is.
VisitorFails(c) ==
  /\ LoadingStep(c, "to_hook", "plain")
  /\ failed' = failed \cup {c}
  /\ UNCHANGED <<transformed, hooked>>

\* Mutant: only a retransformation is remembered.
NotRemembered(c) ==
  /\ LoadingStep(c, "to_hook", "named")
  /\ UNCHANGED <<transformed, hooked, failed>>

Remember(c) ==
  /\ LoadingStep(c, "to_hook", "named")
  /\ transformed' = transformed \cup {Name[c]}
  /\ UNCHANGED <<hooked, failed>>

Define(c) ==
  \/ /\ LoadingStep(c, "named", "loaded")
     /\ hooked' = hooked \cup {c}
     /\ UNCHANGED <<transformed, failed>>
  \/ /\ LoadingStep(c, "plain", "loaded")
     /\ UNCHANGED <<transformed, hooked, failed>>

\* toByteArray throws (the hooked method is too large): the name has been remembered, and
\* the class is loaded as it is.
WriterFails(c) ==
  /\ LoadingStep(c, "named", "loaded")
  /\ failed' = failed \cup {c}
  /\ UNCHANGED <<transformed, hooked>>

Load(c) == ReadFlag(c) \/ VisitorFails(c) \/ Remember(c) \/ WriterFails(c) \/ Define(c)

----------------------------------------------------------------------------
(* The commands.                                                           *)

\* Mutant: the commands are not synchronized.
NotSynchronized == TRUE

Free == lock = {}

HandlerStep(h, from, to) ==
  /\ handler[h].at = from
  /\ handler' = [handler EXCEPT ![h].at = to]
  /\ UNCHANGED loading

\* The lock is taken and the flag set before anything another thread sees.
Begin(h, flag, to) ==
  /\ HandlerStep(h, "idle", to)
  /\ Free
  /\ lock' = {h}
  /\ recording' = flag
  /\ UNCHANGED <<transformed, hooked, straddled, failed>>

StartRecording(h) == Begin(h, TRUE, "start_list")
StopRecording(h)  == Begin(h, FALSE, "stop_list")

\* getAllLoadedClasses: classes still being loaded are not in the list.
List(h, from, to, lastChance) ==
  /\ handler[h].at = from
  /\ handler' = [handler EXCEPT ![h] = [at |-> to, todo |-> Loaded, class |-> @.class]]
  /\ straddled' = {c \in Classes : loading[c] \in lastChance}
  /\ UNCHANGED <<recording, lock, classes, failed>>

\* What the scan will not see: plain classes at a start, hooked ones at a stop.
StartList(h) == List(h, "start_list", "start_visit", {"plain"})
StopList(h)  == List(h, "stop_list", "stop_visit", {"to_hook", "named"})

Visit(h, from, to, c) ==
  /\ handler[h].at = from
  /\ c \in handler[h].todo
  /\ handler' = [handler EXCEPT ![h] = [at |-> to, todo |-> @.todo \ {c}, class |-> {c}]]
  /\ UNCHANGED <<recording, lock, loading, hooked, straddled, failed>>

Current(h) == CHOOSE c \in Classes : handler[h].class = {c}

StartSkip(h, c) ==
  /\ Name[c] \in transformed
  /\ Visit(h, "start_visit", "start_visit", c)
  /\ UNCHANGED transformed

StartVisit(h, c) ==
  /\ Name[c] \notin transformed
  /\ Visit(h, "start_visit", "start_transform", c)
  /\ UNCHANGED transformed

\* The transformer, called back by retransformClasses: it remembers the name.
StartTransform(h) ==
  /\ HandlerStep(h, "start_transform", "start_redefine")
  /\ transformed' = transformed \cup {Name[Current(h)]}
  /\ UNCHANGED <<recording, lock, hooked, straddled, failed>>

\* The transformer hands back the original bytecode, and the class is redefined with it.
RedefinedPlain(h, from) ==
  /\ HandlerStep(h, from, "start_visit")
  /\ hooked' = hooked \ {Current(h)}
  /\ failed' = failed \cup {Current(h)}
  /\ UNCHANGED <<recording, lock, transformed, straddled>>

\* The visitor fails: the class is not remembered.
StartTransformFails(h) == RedefinedPlain(h, "start_transform")

\* toByteArray fails: it is.
StartWriterFails(h) == RedefinedPlain(h, "start_redefine")

StartRedefine(h) ==
  /\ HandlerStep(h, "start_redefine", "start_visit")
  /\ hooked' = hooked \cup {Current(h)}
  /\ failed' = failed \ {Current(h)}
  /\ UNCHANGED <<recording, lock, transformed, straddled>>

\* retransformClasses throws: the class keeps the bytecode it had.
StartRedefineFails(h) ==
  /\ HandlerStep(h, "start_redefine", "start_visit")
  /\ failed' = failed \cup {Current(h)}
  /\ UNCHANGED <<recording, lock, transformed, hooked, straddled>>

StopSkip(h, c) ==
  /\ Name[c] \notin transformed
  /\ Visit(h, "stop_visit", "stop_visit", c)
  /\ UNCHANGED transformed

\* Mutant: the name is forgotten before the class is restored.
ForgetFirst(h, c) ==
  /\ Name[c] \in transformed
  /\ Visit(h, "stop_visit", "stop_restore", c)
  /\ transformed' = transformed \ {Name[c]}

StopVisit(h, c) ==
  /\ Name[c] \in transformed
  /\ Visit(h, "stop_visit", "stop_restore", c)
  /\ UNCHANGED transformed

\* recording is FALSE, so the transformer hands back the original bytecode.
StopRestore(h) ==
  /\ HandlerStep(h, "stop_restore", "stop_mark")
  /\ hooked' = hooked \ {Current(h)}
  /\ failed' = failed \ {Current(h)}
  /\ UNCHANGED <<recording, lock, transformed, straddled>>

StopRestoreFails(h) ==
  /\ HandlerStep(h, "stop_restore", "stop_visit")
  /\ failed' = failed \cup {Current(h)}
  /\ UNCHANGED <<recording, lock, transformed, hooked, straddled>>

\* Mutant: a restored class is never forgotten.
NeverMarked(h) ==
  /\ HandlerStep(h, "stop_mark", "stop_visit")
  /\ UNCHANGED <<recording, lock, transformed, hooked, straddled, failed>>

MarkRestored(h) ==
  /\ HandlerStep(h, "stop_mark", "stop_visit")
  /\ transformed' = transformed \ {Name[Current(h)]}
  /\ UNCHANGED <<recording, lock, hooked, straddled, failed>>

\* The lock is released and the command is answered.
Answer(h) ==
  /\ handler[h].at \in {"start_visit", "stop_visit"}
  /\ handler[h].todo = {}
  /\ handler' = [handler EXCEPT ![h] = IdleHandler]
  /\ lock' = {}
  /\ UNCHANGED <<recording, classes, straddled, failed>>

Scan(h) ==
  \/ StartList(h) \/ (\E c \in Classes : StartSkip(h, c) \/ StartVisit(h, c))
  \/ StartTransform(h) \/ StartTransformFails(h)
  \/ StartRedefine(h) \/ StartRedefineFails(h) \/ StartWriterFails(h)
  \/ StopList(h) \/ (\E c \in Classes : StopSkip(h, c) \/ StopVisit(h, c))
  \/ StopRestore(h) \/ StopRestoreFails(h) \/ MarkRestored(h)
  \/ Answer(h)

Next ==
  \/ \E c \in Classes : Load(c)
  \/ \E h \in Handlers : StartRecording(h) \/ StopRecording(h) \/ Scan(h)

Spec == Init /\ [][Next]_vars

----------------------------------------------------------------------------
Places == {"start_list", "start_visit", "start_transform", "start_redefine",
           "stop_list", "stop_visit", "stop_restore", "stop_mark"}

(* The values the variables take; a handler at work holds the lock.         *)
TypeOK ==
  /\ recording \in BOOLEAN
  /\ lock \subseteq Handlers
  /\ handler \in [Handlers -> [at : {"idle"} \cup Places, todo : SUBSET Classes,
                               class : SUBSET Classes]]
  /\ \A h \in Handlers : handler[h].at \in Places <=> lock = {h}
  /\ transformed \subseteq {Name[c] : c \in Classes}
  /\ loading \in [Classes -> {"unloaded", "to_hook", "plain", "named", "loaded"}]
  /\ hooked \subseteq Loaded

NoTwins == \A c, d \in Classes : Name[c] = Name[d] => c = d

(* HookedKnown: a class that has the hooks can always be restored by the    *)
(* next stop, because its name is in the set: also after a failed restore   *)
(* and for classes loaded while a scan is going on (69-76, 31-40).          *)
HookedKnown == NoTwins => \A c \in hooked : Name[c] \in transformed

(* StartCovers: once a start has been answered every loaded class has the   *)
(* hooks, but for classes that were being loaded, unhooked, while the start *)
(* listed them, and classes the JVM or the transformer refused: "waits for  *)
(* agent to finish enabling instrumentation" (docs/architecture.md:30).     *)
StartCovers ==
  NoTwins /\ lock = {} /\ recording => Loaded \subseteq hooked \cup straddled \cup failed

(* StopCovers: once a stop has been answered the hooks are gone, but for    *)
(* classes that were being loaded, hooked, while the stop listed them, and  *)
(* classes the JVM refused to restore; the next stop takes the former.      *)
StopCovers ==
  NoTwins /\ lock = {} /\ ~recording => hooked \subseteq straddled \cup failed
=============================================================================
