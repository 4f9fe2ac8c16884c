----------------------- MODULE RecordingControlProofs -----------------------
(***************************************************************************)
(* Proofs about RecordingControl, for any number of connections and        *)
(* classes: that a start and a stop cover the classes they promise to, and *)
(* that what has hooks is known to the next stop.                          *)
(*                                                                         *)
(* The invariant follows a scan: what is loaded and not as the command     *)
(* wants it is still to be visited, was being loaded when the classes were *)
(* listed, or was refused; and, with distinct names, the set of names is   *)
(* exactly that of the hooked classes but for those refused and the one in *)
(* work.                                                                   *)
(***************************************************************************)
EXTENDS RecordingControl, TLAPS

StartPlaces == {"start_list", "start_visit", "start_transform", "start_redefine"}
StopPlaces  == {"stop_list", "stop_visit", "stop_restore", "stop_mark"}
AtClass     == {"start_transform", "start_redefine", "stop_restore", "stop_mark"}
Unsettled   == {"start_transform", "start_redefine", "stop_restore"}
Mismatched  == {"start_redefine", "stop_mark"}

WorksOn(h, places, c) == handler[h].at \in places /\ handler[h].class = {c}

Listing == \E h \in lock : handler[h].at \in {"start_list", "stop_list"}

\* Classes the scan under way has still to settle.
Left == {c \in Classes : \E h \in lock : c \in handler[h].todo \/ WorksOn(h, Unsettled, c)}

\* The class whose name and bytecode are changed one after the other.
HalfDone == {c \in Classes : \E h \in lock : WorksOn(h, Mismatched, c)}

OnePhase == \A h \in lock : handler[h].at \in IF recording THEN StartPlaces ELSE StopPlaces

TodoLoaded == \A h \in Handlers : handler[h].todo \subseteq Loaded

ClassLoaded ==
  \A h \in Handlers : handler[h].at \in AtClass => \E c \in Loaded : handler[h].class = {c}

RedefinedKnown ==
  \A h \in Handlers, c \in Classes : WorksOn(h, {"start_redefine"}, c) => Name[c] \in transformed

MarkedUnhooked ==
  \A h \in Handlers, c \in Classes : WorksOn(h, {"stop_mark"}, c) => c \notin hooked

NamedKnown == \A c \in Classes : loading[c] = "named" => Name[c] \in transformed

PlainUnknown ==
  \A c \in Classes : loading[c] \in {"unloaded", "to_hook", "plain"} => Name[c] \notin transformed

AllHookedKnown == \A c \in hooked : Name[c] \in transformed

KnownHooked ==
  \A c \in Loaded : Name[c] \in transformed => c \in hooked \cup failed \cup HalfDone

StartScan ==
  recording /\ ~Listing =>
    /\ \A c \in Classes : loading[c] = "plain" => c \in straddled \cup failed
    /\ \A c \in Loaded : c \in hooked \cup straddled \cup failed \cup Left

StopScan ==
  ~recording /\ ~Listing =>
    /\ \A c \in Classes : loading[c] \in {"to_hook", "named"} => c \in straddled
    /\ \A c \in hooked : c \in straddled \cup failed \cup Left

\* What the handlers are about.
Work == OnePhase /\ TodoLoaded /\ ClassLoaded

\* The names against the bytecode.
Names ==
  RedefinedKnown /\ MarkedUnhooked /\ NamedKnown /\ PlainUnknown /\ AllHookedKnown /\ KnownHooked

Scans == StartScan /\ StopScan

IInv == TypeOK /\ Work /\ (NoTwins => Names /\ Scans)

----------------------------------------------------------------------------
LEMMA InitIInv == Init => IInv
<1>. SUFFICES ASSUME Init PROVE IInv
  OBVIOUS
<1>1. TypeOK
  BY DEF Init, TypeOK, IdleHandler, Places, Loaded
<1>2. Work
  BY DEF Init, Work, OnePhase, TodoLoaded, ClassLoaded, IdleHandler, AtClass, Loaded
<1>3. Names
  BY DEF Init, Names, RedefinedKnown, MarkedUnhooked, NamedKnown, PlainUnknown, AllHookedKnown,
     KnownHooked, IdleHandler, WorksOn
<1>4. Scans
  BY DEF Init, Scans, StartScan, StopScan
<1>. QED
  BY <1>1, <1>2, <1>3, <1>4 DEF IInv

----------------------------------------------------------------------------
(* A handler at work is alone.                                             *)

LEMMA CurrentIs ==
  ASSUME NEW h \in Handlers, NEW c \in Classes, handler[h].class = {c}
  PROVE  Current(h) = c
BY DEF Current

LEMMA Alone ==
  ASSUME TypeOK, NEW h \in Handlers, handler[h].at \in Places
  PROVE  /\ lock = {h}
         /\ \A g \in Handlers : g # h => handler[g].at = "idle"
BY DEF TypeOK

----------------------------------------------------------------------------
(* Loading.                                                                *)

LEMMA LoadKeeps ==
  ASSUME IInv, NEW c \in Classes, Load(c)
  PROVE  IInv'
<1> DEFINE to == loading'[c]
<1>1. /\ UNCHANGED <<recording, lock, handler, straddled>>
      /\ loading' = [loading EXCEPT ![c] = to]
      /\ loading \in [Classes -> {"unloaded", "to_hook", "plain", "named", "loaded"}]
      /\ failed \subseteq failed'
  BY DEF Load, ReadFlag, VisitorFails, Remember, WriterFails, Define, LoadingStep, IInv, TypeOK
<1>2. TypeOK'
  BY DEF Load, ReadFlag, VisitorFails, Remember, WriterFails, Define, LoadingStep, IInv, TypeOK, Loaded
<1>3. Loaded \subseteq Loaded'
  BY <1>1 DEF Load, ReadFlag, VisitorFails, Remember, WriterFails, Define, LoadingStep, Loaded
<1>4. Work'
  BY <1>1, <1>3 DEF IInv, Work, OnePhase, TodoLoaded, ClassLoaded
<1>5. UNCHANGED <<Listing, Left, HalfDone>>
  BY <1>1 DEF Listing, Left, HalfDone, WorksOn
<1>6. ASSUME NoTwins PROVE Names' /\ Scans'
  <2>1. Names /\ Scans
    BY <1>6 DEF IInv
  <2>2. CASE ReadFlag(c)
    <3>1. Names'
      BY <1>1, <1>5, <2>1, <2>2 DEF ReadFlag, LoadingStep, Names, RedefinedKnown, MarkedUnhooked,
         NamedKnown, PlainUnknown, AllHookedKnown, KnownHooked, WorksOn, Loaded
    <3>2. Scans'
      BY <1>1, <1>5, <2>1, <2>2 DEF ReadFlag, LoadingStep, Scans, StartScan, StopScan, Loaded
    <3>. QED
      BY <3>1, <3>2
  <2>3. CASE VisitorFails(c)
    <3>1. Names'
      BY <1>1, <1>5, <2>1, <2>3 DEF VisitorFails, LoadingStep, Names, RedefinedKnown, MarkedUnhooked,
         NamedKnown, PlainUnknown, AllHookedKnown, KnownHooked, WorksOn, Loaded
    <3>2. Scans'
      BY <1>1, <1>5, <2>1, <2>3 DEF VisitorFails, LoadingStep, Scans, StartScan, StopScan, Loaded
    <3>. QED
      BY <3>1, <3>2
  <2>4. CASE Remember(c)
    <3>1. Names'
      BY <1>1, <1>5, <1>6, <2>1, <2>4 DEF Remember, LoadingStep, Names, RedefinedKnown,
         MarkedUnhooked, NamedKnown, PlainUnknown, AllHookedKnown, KnownHooked, WorksOn, Loaded,
         NoTwins
    <3>2. Scans'
      BY <1>1, <1>5, <2>1, <2>4 DEF Remember, LoadingStep, Scans, StartScan, StopScan, Loaded
    <3>. QED
      BY <3>1, <3>2
  <2>5. CASE Define(c)
    <3>1. loading[c] # "loaded" /\ UNCHANGED <<transformed, failed>>
      BY <2>5 DEF Define, LoadingStep
    <3>2. MarkedUnhooked'
      BY <1>1, <2>1, <2>5, <3>1 DEF Define, LoadingStep, IInv, Work, ClassLoaded, AtClass, Loaded,
         Names, MarkedUnhooked, WorksOn
    <3>3. Names'
      BY <1>1, <1>5, <2>1, <2>5, <3>1, <3>2 DEF Define, LoadingStep, Names, RedefinedKnown,
         NamedKnown, PlainUnknown, AllHookedKnown, KnownHooked, WorksOn, Loaded
    <3>4. Scans'
      BY <1>1, <1>5, <2>1, <2>5, <3>1 DEF Define, LoadingStep, Scans, StartScan, StopScan, Loaded
    <3>. QED
      BY <3>3, <3>4
  <2>6. CASE WriterFails(c)
    <3>1. Names'
      BY <1>1, <1>5, <2>1, <2>6 DEF WriterFails, LoadingStep, IInv, TypeOK, Names, RedefinedKnown,
         MarkedUnhooked, NamedKnown, PlainUnknown, AllHookedKnown, KnownHooked, WorksOn, Loaded
    <3>2. Scans'
      BY <1>1, <1>5, <2>1, <2>6 DEF WriterFails, LoadingStep, Scans, StartScan, StopScan, Loaded
    <3>. QED
      BY <3>1, <3>2
  <2>. QED
    BY <2>2, <2>3, <2>4, <2>5, <2>6 DEF Load
<1>7. NoTwins' = NoTwins
  BY DEF NoTwins
<1>. QED
  BY <1>2, <1>4, <1>6, <1>7 DEF IInv

----------------------------------------------------------------------------
(* The commands.  Every lemma first says what becomes of the holder.       *)

HandlerState == [at : {"idle"} \cup Places, todo : SUBSET Classes, class : SUBSET Classes]

HandlersTyped ==
  /\ handler \in [Handlers -> HandlerState]
  /\ \A h \in Handlers : handler[h].at \in Places <=> lock = {h}

LEMMA HandlerMoves ==
  ASSUME TypeOK, NEW h \in Handlers, NEW state \in HandlerState,
         \A g \in Handlers : g # h => handler[g].at = "idle",
         handler' = [handler EXCEPT ![h] = state],
         lock' = IF state.at = "idle" THEN {} ELSE {h}
  PROVE  HandlersTyped'
<1>1. handler \in [Handlers -> HandlerState]
  BY DEF TypeOK, HandlerState
<1>2. handler' \in [Handlers -> HandlerState]
  BY <1>1
<1>3. "idle" \notin Places /\ state.at \in {"idle"} \cup Places
  BY DEF Places, HandlerState
<1>4. ASSUME NEW g \in Handlers PROVE (handler[g].at)' \in Places <=> lock' = {g}
  <2>1. CASE g = h
    BY <1>1, <1>3, <2>1
  <2>2. CASE g # h
    BY <1>1, <1>3, <2>2
  <2>. QED
    BY <2>1, <2>2
<1>. QED
  BY <1>2, <1>4 DEF HandlersTyped

LEMMA BeginKeeps ==
  ASSUME IInv, NEW h \in Handlers, StartRecording(h) \/ StopRecording(h)
  PROVE  IInv'
<1>1. /\ lock = {} /\ lock' = {h}
      /\ handler[h].at = "idle"
      /\ UNCHANGED <<classes, straddled, failed>>
      /\ handler' = [handler EXCEPT ![h].at = IF recording' THEN "start_list" ELSE "stop_list"]
      /\ recording' \in BOOLEAN
  BY DEF StartRecording, StopRecording, Begin, HandlerStep, Free, classes
<1>2. TypeOK'
  <2>1. TypeOK /\ \A g \in Handlers : handler[g].at = "idle"
    BY <1>1 DEF IInv, TypeOK
  <2> DEFINE state == [handler[h] EXCEPT !.at = IF recording' THEN "start_list" ELSE "stop_list"]
  <2>2. state \in HandlerState /\ state.at # "idle"
    BY <2>1 DEF TypeOK, HandlerState, Places
  <2>3. handler' = [handler EXCEPT ![h] = state]
    BY <1>1
  <2>4. HandlersTyped'
    BY <1>1, <2>1, <2>2, <2>3, HandlerMoves
  <2>. QED
    BY <1>1, <2>1, <2>4 DEF HandlersTyped, HandlerState, TypeOK, classes, Loaded
<1>3. Work'
  BY <1>1 DEF IInv, TypeOK, Work, OnePhase, TodoLoaded, ClassLoaded, AtClass, StartPlaces,
     StopPlaces, classes, Loaded
<1>4. ASSUME NoTwins PROVE Names' /\ Scans'
  <2>1. Listing'
    BY <1>1 DEF Listing, IInv, TypeOK
  <2>2. HalfDone = {}
    BY <1>1 DEF HalfDone
  <2>3. Names'
    BY <1>1, <1>4, <2>2 DEF IInv, TypeOK, Names, RedefinedKnown, MarkedUnhooked, NamedKnown,
       PlainUnknown, AllHookedKnown, KnownHooked, WorksOn, classes, Loaded
  <2>4. Scans'
    BY <2>1 DEF Scans, StartScan, StopScan
  <2>. QED
    BY <2>3, <2>4
<1>. QED
  BY <1>2, <1>3, <1>4 DEF IInv, NoTwins

LEMMA ListKeeps ==
  ASSUME IInv, NEW h \in Handlers, StartList(h) \/ StopList(h)
  PROVE  IInv'
<1> DEFINE to == IF StartList(h) THEN "start_visit" ELSE "stop_visit"
<1>1. /\ handler[h].at \in {"start_list", "stop_list"}
      /\ handler[h].at = "start_list" => to = "start_visit"
      /\ handler[h].at = "stop_list" => to = "stop_visit"
      /\ UNCHANGED <<recording, lock, classes, failed>>
      /\ handler' = [handler EXCEPT ![h] = [at |-> to, todo |-> Loaded, class |-> @.class]]
  BY DEF StartList, StopList, List
<1>. HIDE DEF to
<1>2. /\ lock = {h} /\ lock' = {h}
      /\ \A g \in Handlers : g # h => handler[g].at = "idle"
  BY <1>1, Alone DEF IInv, Places
<1>3. TypeOK'
  <2> DEFINE state == [at |-> to, todo |-> Loaded, class |-> handler[h].class]
  <2>1. TypeOK /\ to \in Places
    BY <1>1 DEF IInv, Places
  <2>2. state \in HandlerState /\ state.at # "idle"
    <3>1. handler[h] \in HandlerState
      BY <2>1 DEF TypeOK, HandlerState
    <3>2. Loaded \in SUBSET Classes /\ to # "idle"
      BY <1>1 DEF Loaded
    <3>. QED
      BY <2>1, <3>1, <3>2 DEF HandlerState
  <2>3. handler' = [handler EXCEPT ![h] = state]
    BY <1>1
  <2>4. HandlersTyped'
    BY <1>2, <2>1, <2>2, <2>3, HandlerMoves
  <2>. QED
    BY <1>1, <1>2, <2>1, <2>4 DEF HandlersTyped, HandlerState, TypeOK, classes, Loaded
<1>4. Work'
  BY <1>1, <1>2 DEF IInv, TypeOK, Work, OnePhase, TodoLoaded, ClassLoaded, AtClass, StartPlaces,
     StopPlaces, classes, Loaded
<1>5. ASSUME NoTwins PROVE Names' /\ Scans'
  <2>1. Names /\ Scans /\ TypeOK
    BY <1>5 DEF IInv
  <2>2. HalfDone = {}
    BY <1>1, <1>2 DEF HalfDone, WorksOn, Mismatched
  <2>3. Names'
    BY <1>1, <2>1, <2>2 DEF TypeOK, Names, RedefinedKnown, MarkedUnhooked, NamedKnown,
       PlainUnknown, AllHookedKnown, KnownHooked, WorksOn, classes, Loaded
  <2>4. handler'[h].todo = Loaded
    BY <1>1, <2>1 DEF TypeOK
  <2>5. Loaded \subseteq Left' /\ hooked \subseteq Loaded
    BY <1>2, <2>1, <2>4 DEF Left, TypeOK, Loaded
  <2>6. Scans'
    BY <1>1, <1>2, <2>1, <2>5 DEF StartList, StopList, List, IInv, Work, OnePhase, StartPlaces,
       StopPlaces, Scans, StartScan, StopScan, classes, Loaded
  <2>. QED
    BY <2>3, <2>6
<1>. QED
  BY <1>3, <1>4, <1>5 DEF IInv, NoTwins

LEMMA AnswerKeeps ==
  ASSUME IInv, NEW h \in Handlers, Answer(h)
  PROVE  IInv'
<1>1. /\ handler[h].at \in {"start_visit", "stop_visit"} /\ handler[h].todo = {}
      /\ handler' = [handler EXCEPT ![h] = IdleHandler]
      /\ lock' = {}
      /\ UNCHANGED <<recording, classes, straddled, failed>>
  BY DEF Answer
<1>2. lock = {h} /\ \A g \in Handlers : g # h => handler[g].at = "idle"
  BY <1>1, Alone DEF IInv, Places
<1>3. TypeOK'
  BY <1>1, <1>2 DEF IInv, TypeOK, Places, IdleHandler, classes, Loaded
<1>4. Work'
  BY <1>1, <1>2 DEF IInv, TypeOK, Work, OnePhase, TodoLoaded, ClassLoaded, AtClass, IdleHandler,
     classes, Loaded
<1>5. ASSUME NoTwins PROVE Names' /\ Scans'
  <2>1. Names /\ Scans /\ TypeOK
    BY <1>5 DEF IInv
  <2>2. HalfDone = {} /\ Left = {} /\ ~Listing
    BY <1>1, <1>2 DEF HalfDone, Left, Listing, WorksOn, Mismatched, Unsettled
  <2>3. Names'
    BY <1>1, <2>1, <2>2 DEF TypeOK, Names, RedefinedKnown, MarkedUnhooked, NamedKnown,
       PlainUnknown, AllHookedKnown, KnownHooked, WorksOn, IdleHandler, classes, Loaded
  <2>4. Scans'
    BY <1>1, <2>1, <2>2 DEF Scans, StartScan, StopScan, classes, Loaded
  <2>. QED
    BY <2>3, <2>4
<1>. QED
  BY <1>3, <1>4, <1>5 DEF IInv, NoTwins

----------------------------------------------------------------------------
(* The holder picks a class of those left.                                 *)

Picks(h, c) == StartSkip(h, c) \/ StartVisit(h, c) \/ StopSkip(h, c) \/ StopVisit(h, c)

LEMMA PickKeeps ==
  ASSUME IInv, NEW h \in Handlers, NEW c \in Classes, Picks(h, c)
  PROVE  IInv'
<1> DEFINE to == handler'[h].at
           state == [at |-> to, todo |-> handler[h].todo \ {c}, class |-> {c}]
<1>1. /\ TypeOK /\ Work
      /\ handler[h] \in HandlerState
  BY DEF IInv, TypeOK, HandlerState
<1>2. /\ c \in handler[h].todo
      /\ UNCHANGED <<recording, lock, classes, straddled, failed>>
      /\ handler' = [handler EXCEPT ![h] = state]
      /\ handler[h].at = "start_visit" => to \in {"start_visit", "start_transform"}
      /\ handler[h].at = "stop_visit" => to \in {"stop_visit", "stop_restore"}
      /\ handler[h].at \in {"start_visit", "stop_visit"}
      /\ to = "start_visit" => Name[c] \in transformed
      /\ to = "stop_visit" => Name[c] \notin transformed
  BY <1>1 DEF Picks, StartSkip, StartVisit, StopSkip, StopVisit, Visit, TypeOK, classes
<1>3. state \in HandlerState /\ to \in Places /\ to # "idle"
  BY <1>1, <1>2 DEF HandlerState, Places
<1>4. /\ lock = {h} /\ lock' = {h}
      /\ \A g \in Handlers : g # h => handler[g].at = "idle"
  BY <1>1, <1>2, Alone DEF Places
<1>5. /\ handler'[h] = state
      /\ \A g \in Handlers : g # h => handler'[g] = handler[g]
  BY <1>1, <1>2 DEF TypeOK
<1>6. c \in Loaded
  BY <1>1, <1>2 DEF Work, TodoLoaded
<1>7. TypeOK'
  <2>1. HandlersTyped'
    BY <1>1, <1>2, <1>3, <1>4, HandlerMoves
  <2>. QED
    BY <1>1, <1>2, <2>1 DEF HandlersTyped, HandlerState, TypeOK, classes, Loaded
<1>. HIDE DEF to
<1>8. Work'
  <2>1. OnePhase'
    BY <1>1, <1>2, <1>4, <1>5 DEF Work, OnePhase, StartPlaces, StopPlaces
  <2>2. TodoLoaded' /\ ClassLoaded'
    BY <1>1, <1>2, <1>5, <1>6 DEF Work, TodoLoaded, ClassLoaded, classes, Loaded
  <2>. QED
    BY <2>1, <2>2 DEF Work
<1>9. ASSUME NoTwins PROVE Names' /\ Scans'
  <2>1. Names /\ Scans
    BY <1>9 DEF IInv
  <2>2. HalfDone = {} /\ HalfDone' = {}
    BY <1>2, <1>4, <1>5 DEF HalfDone, WorksOn, Mismatched
  <2>3. /\ RedefinedKnown' /\ MarkedUnhooked'
        /\ NamedKnown' /\ PlainUnknown' /\ AllHookedKnown' /\ KnownHooked'
    BY <1>2, <1>4, <1>5, <2>1, <2>2 DEF Names, RedefinedKnown, MarkedUnhooked, NamedKnown,
       PlainUnknown, AllHookedKnown, KnownHooked, WorksOn, classes, Loaded
  <2>4. ~Listing /\ Listing' = FALSE
    BY <1>2, <1>4, <1>5 DEF Listing
  \* What is skipped is as the command wants it, or was refused.
  <2>5. \A d \in Left : d \in Left' \/ d = c
    BY <1>2, <1>4, <1>5 DEF Left, WorksOn, Unsettled
  <2>6. /\ to \in {"start_transform", "stop_restore"} => c \in Left'
        /\ to = "start_visit" => c \in hooked \cup failed
        /\ to = "stop_visit" => c \notin hooked
    <3>1. /\ to = "start_visit" => c \in hooked \cup failed
          /\ to = "stop_visit" => c \notin hooked
      BY <1>2, <1>6, <2>1, <2>2 DEF Names, KnownHooked, AllHookedKnown
    <3>2. to \in {"start_transform", "stop_restore"} => c \in Left'
      BY <1>4, <1>5 DEF Left, WorksOn, Unsettled
    <3>. QED
      BY <3>1, <3>2
  <2>7. /\ recording => to \in {"start_visit", "start_transform"}
        /\ ~recording => to \in {"stop_visit", "stop_restore"}
    BY <1>1, <1>2, <1>4 DEF Work, OnePhase, StartPlaces, StopPlaces
  <2>8. UNCHANGED <<recording, loading, Loaded, transformed, hooked, straddled, failed>>
    BY <1>2 DEF classes, Loaded
  <2>9. StartScan'
    BY <2>1, <2>4, <2>5, <2>6, <2>7, <2>8 DEF Scans, StartScan
  <2>10. StopScan'
    BY <2>1, <2>4, <2>5, <2>6, <2>7, <2>8 DEF Scans, StopScan
  <2>. QED
    BY <2>3, <2>9, <2>10 DEF Names, Scans
<1>. QED
  BY <1>7, <1>8, <1>9 DEF IInv, NoTwins

----------------------------------------------------------------------------
(* The holder changes the class it has picked.                             *)

Changes(h) ==
  \/ StartTransform(h) \/ StartTransformFails(h)
  \/ StartRedefine(h) \/ StartRedefineFails(h) \/ StartWriterFails(h)
  \/ StopRestore(h) \/ StopRestoreFails(h) \/ MarkRestored(h)

LEMMA ChangeKeeps ==
  ASSUME IInv, NEW h \in Handlers, Changes(h)
  PROVE  IInv'
<1> DEFINE to == handler'[h].at
           state == [handler[h] EXCEPT !.at = to]
<1>1. /\ TypeOK /\ Work
      /\ handler[h] \in HandlerState
  BY DEF IInv, TypeOK, HandlerState
<1>2. /\ handler[h].at \in AtClass
      /\ UNCHANGED <<recording, lock, loading, straddled>>
      /\ handler' = [handler EXCEPT ![h] = state]
      /\ handler[h].at \in StartPlaces => to \in {"start_visit", "start_redefine"}
      /\ handler[h].at \in StopPlaces => to \in {"stop_visit", "stop_mark"}
  BY <1>1 DEF Changes, StartTransform, StartTransformFails, StartRedefine, StartRedefineFails,
     StartWriterFails, RedefinedPlain, StopRestore, StopRestoreFails, MarkRestored, HandlerStep, TypeOK, HandlerState, AtClass,
     StartPlaces, StopPlaces
<1>3. state \in HandlerState /\ state.at # "idle"
  BY <1>1, <1>2 DEF HandlerState, Places, AtClass, StartPlaces, StopPlaces
<1>4. /\ lock = {h} /\ lock' = {h}
      /\ \A g \in Handlers : g # h => handler[g].at = "idle"
  BY <1>1, <1>2, Alone DEF Places, AtClass
<1>5. /\ handler'[h] = state
      /\ \A g \in Handlers : g # h => handler'[g] = handler[g]
  BY <1>1, <1>2 DEF TypeOK
<1>6. PICK c \in Loaded : handler[h].class = {c} /\ Current(h) = c
  BY <1>1, <1>2, CurrentIs DEF Work, ClassLoaded, Loaded
<1>7. TypeOK'
  <2>1. HandlersTyped'
    BY <1>1, <1>2, <1>3, <1>4, HandlerMoves
  <2>2. transformed' \subseteq transformed \cup {Name[c]} /\ hooked' \subseteq hooked \cup {c}
    BY <1>6 DEF Changes, StartTransform, StartTransformFails, StartRedefine,
       StartRedefineFails, StartWriterFails, RedefinedPlain, StopRestore, StopRestoreFails,
       MarkRestored
  <2>. QED
    BY <1>1, <1>2, <1>6, <2>1, <2>2 DEF HandlersTyped, HandlerState, TypeOK, Loaded
<1>8. /\ state.at = to /\ state.todo = handler[h].todo /\ state.class = {c}
  BY <1>1, <1>6 DEF HandlerState
<1>. HIDE DEF state
<1>9. Work'
  <2>1. OnePhase'
    BY <1>1, <1>2, <1>4, <1>5, <1>8 DEF Work, OnePhase, StartPlaces, StopPlaces
  <2>2. TodoLoaded' /\ ClassLoaded'
    BY <1>1, <1>2, <1>5, <1>6, <1>8 DEF Work, TodoLoaded, ClassLoaded, Loaded
  <2>. QED
    BY <2>1, <2>2 DEF Work
<1>10. ASSUME NoTwins PROVE Names' /\ Scans'
  <2>1. Names /\ Scans
    BY <1>10 DEF IInv
  \* The class in work is the only one whose state changes.
  <2>2. \A d \in Classes : d # c =>
          /\ Name[d] \in transformed' <=> Name[d] \in transformed
          /\ d \in hooked' <=> d \in hooked
          /\ d \in failed' <=> d \in failed
          /\ d \notin HalfDone
          /\ d \in Left => d \in Left'
    <3>1. \A d \in Classes : d # c =>
            /\ Name[d] \in transformed' <=> Name[d] \in transformed
            /\ d \in hooked' <=> d \in hooked
            /\ d \in failed' <=> d \in failed
      BY <1>6, <1>10 DEF Changes, StartTransform, StartTransformFails, StartRedefine,
         StartRedefineFails, StartWriterFails, RedefinedPlain, StopRestore, StopRestoreFails,
         MarkRestored, NoTwins, Loaded
    <3>2. \A d \in Classes : d # c => d \notin HalfDone /\ (d \in Left => d \in Left')
      BY <1>4, <1>5, <1>6, <1>8 DEF HalfDone, Left, WorksOn
    <3>. QED
      BY <3>1, <3>2
  \* And it is as its place says.
  <2>3. /\ to = "start_redefine" => Name[c] \in transformed'
        /\ to = "stop_mark" => c \notin hooked'
        /\ to = "start_visit" => c \in hooked' \cup failed'
        /\ to = "stop_visit" => c \notin hooked' \/ c \in failed'
        /\ c \in hooked' => Name[c] \in transformed'
        /\ Name[c] \in transformed' => c \in hooked' \cup failed' \/ to \in Mismatched
    <3>1. /\ handler[h].at = "start_redefine" => Name[c] \in transformed
          /\ handler[h].at = "stop_mark" => c \notin hooked
          /\ c \in hooked => Name[c] \in transformed
          /\ Name[c] \in transformed =>
               c \in hooked \cup failed \/ handler[h].at \in Mismatched
      BY <1>4, <1>6, <2>1 DEF Names, RedefinedKnown, MarkedUnhooked, AllHookedKnown, KnownHooked,
         HalfDone, WorksOn, Loaded
    <3>2. c \in Classes /\ handler'[h].at = to
      BY <1>6 DEF Loaded
    <3>3. CASE StartTransform(h)
      BY <1>1, <1>5, <1>6, <1>8, <3>1, <3>3 DEF StartTransform, HandlerStep, TypeOK, Mismatched
    <3>4. CASE StartTransformFails(h)
      BY <1>1, <1>5, <1>6, <1>8, <3>1, <3>4 DEF StartTransformFails, RedefinedPlain, HandlerStep,
         TypeOK, Mismatched
    <3>5. CASE StartRedefine(h)
      BY <1>1, <1>5, <1>6, <1>8, <3>1, <3>5 DEF StartRedefine, HandlerStep, TypeOK, Mismatched
    <3>6. CASE StartRedefineFails(h)
      BY <1>1, <1>5, <1>6, <1>8, <3>1, <3>6 DEF StartRedefineFails, HandlerStep, TypeOK, Mismatched
    <3>7. CASE StopRestore(h)
      BY <1>1, <1>5, <1>6, <1>8, <3>1, <3>7 DEF StopRestore, HandlerStep, TypeOK, Mismatched
    <3>8. CASE StopRestoreFails(h)
      BY <1>1, <1>5, <1>6, <1>8, <3>1, <3>8 DEF StopRestoreFails, HandlerStep, TypeOK, Mismatched
    <3>9. CASE MarkRestored(h)
      BY <1>1, <1>5, <1>6, <1>8, <3>1, <3>9 DEF MarkRestored, HandlerStep, TypeOK, Mismatched
    <3>10. CASE StartWriterFails(h)
      BY <1>1, <1>5, <1>6, <1>8, <3>1, <3>10 DEF StartWriterFails, RedefinedPlain, HandlerStep,
         TypeOK, Mismatched
    <3>. QED
      BY <3>3, <3>4, <3>5, <3>6, <3>7, <3>8, <3>9, <3>10 DEF Changes
  <2>4. to \in Mismatched <=> c \in HalfDone'
    BY <1>4, <1>5, <1>6, <1>8 DEF HalfDone, WorksOn, Loaded
  <2>5. Names'
    <3>1. RedefinedKnown' /\ MarkedUnhooked'
      BY <1>1, <1>4, <1>5, <1>8, <2>3 DEF RedefinedKnown, MarkedUnhooked, WorksOn
    <3>2. NamedKnown' /\ PlainUnknown'
      BY <1>2, <1>6, <2>1, <2>2 DEF Names, NamedKnown, PlainUnknown, Loaded
    <3>3. AllHookedKnown'
      BY <1>2, <1>6, <1>7, <2>1, <2>2, <2>3 DEF Names, AllHookedKnown, TypeOK, Loaded
    <3>4. KnownHooked'
      BY <1>2, <1>6, <2>1, <2>2, <2>3, <2>4 DEF Names, KnownHooked, Loaded
    <3>. QED
      BY <3>1, <3>2, <3>3, <3>4 DEF Names
  <2>6. ~Listing /\ Listing' = FALSE
    BY <1>2, <1>4, <1>5, <1>8 DEF Listing, AtClass, StartPlaces, StopPlaces
  <2>7. /\ recording => to \in {"start_visit", "start_redefine"}
        /\ ~recording => to \in {"stop_visit", "stop_mark"}
    BY <1>1, <1>2, <1>4 DEF Work, OnePhase
  <2>8. to = "start_redefine" => c \in Left'
    BY <1>4, <1>5, <1>6, <1>8 DEF Left, WorksOn, Unsettled, Loaded
  <2>9. UNCHANGED <<recording, loading, Loaded, straddled>>
    BY <1>2 DEF Loaded
  <2>10. StartScan'
    BY <1>6, <2>1, <2>2, <2>3, <2>6, <2>7, <2>8, <2>9 DEF Scans, StartScan, Loaded
  <2>11. StopScan'
    BY <1>1, <1>6, <1>7, <2>1, <2>2, <2>3, <2>6, <2>7, <2>9 DEF Scans, StopScan, TypeOK, Loaded
  <2>. QED
    BY <2>5, <2>10, <2>11 DEF Scans
<1>. QED
  BY <1>7, <1>9, <1>10 DEF IInv, NoTwins

----------------------------------------------------------------------------
LEMMA StepKeepsIInv == IInv /\ [Next]_vars => IInv'
<1>. SUFFICES ASSUME IInv, [Next]_vars PROVE IInv'
  OBVIOUS
<1>1. ASSUME NEW c \in Classes, Load(c) PROVE IInv'
  BY <1>1, LoadKeeps
<1>2. ASSUME NEW h \in Handlers, StartRecording(h) \/ StopRecording(h) PROVE IInv'
  BY <1>2, BeginKeeps
<1>3. ASSUME NEW h \in Handlers, Scan(h) PROVE IInv'
  BY <1>3, ListKeeps, PickKeeps, ChangeKeeps, AnswerKeeps DEF Scan, Picks, Changes
<1>4. ASSUME UNCHANGED vars PROVE IInv'
  BY <1>4 DEF vars, classes, IInv, TypeOK, Work, OnePhase, TodoLoaded, ClassLoaded, Names,
     RedefinedKnown, MarkedUnhooked, NamedKnown, PlainUnknown, AllHookedKnown, KnownHooked, Scans,
     StartScan, StopScan, Listing, Left, HalfDone, WorksOn, Loaded, NoTwins
<1>. QED
  BY <1>1, <1>2, <1>3, <1>4 DEF Next

LEMMA InvariantHolds == Spec => []IInv
<1>1. IInv /\ [Next]_vars => IInv'
  BY StepKeepsIInv
<1>. QED
  BY <1>1, InitIInv, PTL DEF Spec

LEMMA IInvCovers == IInv => HookedKnown /\ StartCovers /\ StopCovers
<1>. SUFFICES ASSUME IInv PROVE HookedKnown /\ StartCovers /\ StopCovers
  OBVIOUS
<1>1. HookedKnown
  BY DEF IInv, Names, AllHookedKnown, HookedKnown
<1>2. lock = {} => ~Listing /\ Left = {}
  BY DEF Listing, Left
<1>3. StartCovers
  BY <1>2 DEF IInv, Scans, StartScan, StartCovers
<1>4. StopCovers
  BY <1>2 DEF IInv, Scans, StopScan, StopCovers
<1>. QED
  BY <1>1, <1>3, <1>4

\* The variables keep their types, and whoever scans holds the lock
\* (JavaAgent.startRecording and stopRecording, synchronized on recordingLock).
THEOREM ControlTypes == Spec => []TypeOK
<1>1. IInv => TypeOK
  BY DEF IInv
<1>. QED
  BY <1>1, InvariantHolds, PTL

\* Whatever fails and whatever is loaded meanwhile, the next stop knows every
\* class that has the hooks (ProfilingClassFileTransformer 31-40, 69-76).
THEOREM ControlHookedKnown == Spec => []HookedKnown
BY InvariantHolds, IInvCovers, PTL

\* An answered start has covered what was loaded, but for the classes it
\* could not see and those that were refused (JavaAgent.startRecording).
THEOREM ControlStartCovers == Spec => []StartCovers
BY InvariantHolds, IInvCovers, PTL

\* An answered stop has restored what had the hooks, but for the same
\* (JavaAgent.stopRecording).
THEOREM ControlStopCovers == Spec => []StopCovers
BY InvariantHolds, IInvCovers, PTL
=============================================================================
