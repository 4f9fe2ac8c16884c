----------------------------- MODULE TuiProofs -----------------------------
(***************************************************************************)
(* Proofs about Tui, for any JVMs, lists, replies, limits and scenarios:   *)
(* where the user is and what the sidebar marks, and that what is shown is *)
(* of the JVM of the session and compared with what was shown before.      *)
(*                                                                         *)
(* The data outlive what they were asked for.  So the invariant follows    *)
(* the queries as well: one asked in a session is of the JVM selected, and *)
(* after the first sample of a session no older query is left.             *)
(*                                                                         *)
(* Then the tables (TablesOK), what is drawn, highlighted and acted on of  *)
(* them, what moves a cursor, and that both ways to a table of CPU times,  *)
(* picking before and after sorting, agree.                                *)
(***************************************************************************)
EXTENDS Tui, DataFacts

----------------------------------------------------------------------------
(* Where the user is.                                                      *)

Opened == view # "StartCenter"

NavigationOK ==
  /\ category \in 1..Len(Categories)
  /\ item \in 1..Len(Categories[category])
  /\ Opened => view = Categories[category][item]

\* What a step does to the view and the selected JVM.
StaysOpen == Opened => Opened' /\ (selected # None => selected' = selected)

LEMMA CategoryViews ==
  /\ Len(Categories) = 4
  /\ \A c \in 1..4 : /\ Len(Categories[c]) = 1
                     /\ Categories[c][1] # "StartCenter"
                     /\ \A d \in 1..4 : Categories[c][1] = Categories[d][1] => c = d
<1>1. Len(Categories) = 4
  BY DEF Categories
<1>2. /\ Categories[1] = <<"Telemetries">> /\ Categories[2] = <<"CpuHotSpots">>
      /\ Categories[3] = <<"Allocations">> /\ Categories[4] = <<"Jdbc">>
  BY DEF Categories
<1>3. \A c \in 1..4 : c = 1 \/ c = 2 \/ c = 3 \/ c = 4
  OBVIOUS
<1>. QED
  BY <1>1, <1>2, <1>3

LEMMA GoToKeeps ==
  ASSUME NEW c \in 1..Len(Categories), NEW i \in 1..Len(Categories[c]), GoTo(c, i)
  PROVE  NavigationOK' /\ Opened'
BY CategoryViews DEF GoTo, NavigationOK, Opened

LEMMA NextCategoryKeeps ==
  ASSUME NEW by \in Int, category \in 1..Len(Categories), NextCategory(by)
  PROVE  NavigationOK' /\ Opened'
<1>. DEFINE next == ((category - 1 + by) % Len(Categories)) + 1
<1>1. next \in 1..Len(Categories)
  BY CategoryViews
<1>2. 1 \in 1..Len(Categories[next])
  BY <1>1, CategoryViews
<1>. QED
  BY <1>1, <1>2, GoToKeeps DEF NextCategory

LEMMA NavigationStep ==
  ASSUME NavigationOK, [Next]_vars
  PROVE  NavigationOK' /\ StaysOpen
<1>. USE DEF NavigationOK, StaysOpen, Opened
<1>1. ASSUME UNCHANGED <<view, category, item, selected>>
      PROVE  NavigationOK' /\ StaysOpen
  BY <1>1 DEF Categories
<1>2. ASSUME JvmsAnswer  PROVE NavigationOK' /\ StaysOpen
  <2>1. selected # None => selected' = selected
    BY <1>2 DEF JvmsAnswer, Default
  <2>. QED
    BY <1>2, <2>1 DEF JvmsAnswer, nav
<1>3. ASSUME Move  PROVE NavigationOK' /\ StaysOpen
  <2>1. PICK k \in DOMAIN Delta :
          SelectJvm(Delta[k]) \/ MoveInTable(Delta[k]) \/ MoveInSidebar(Delta[k])
    BY <1>3 DEF Move
  <2>2. CASE SelectJvm(Delta[k])
    BY <2>2 DEF SelectJvm, nav
  <2>3. CASE MoveInTable(Delta[k])
    BY <2>3, <1>1 DEF MoveInTable, nav
  <2>4. CASE MoveInSidebar(Delta[k])
    <3>. DEFINE step == IF Delta[k] < 0 THEN -1 ELSE 1
    <3>1. step \in Int /\ selected' = selected
      BY <2>4 DEF MoveInSidebar
    <3>2. CASE item + step \in 1..Len(Categories[category])
      BY <2>4, <3>1, <3>2, GoToKeeps DEF MoveInSidebar
    <3>3. CASE item + step \notin 1..Len(Categories[category])
      <4>1. NextCategory(step)
        BY <2>4, <3>3 DEF MoveInSidebar
      <4>. QED
        BY <3>1, <4>1, NextCategoryKeeps
    <3>. QED
      BY <3>2, <3>3
  <2>. QED
    BY <2>1, <2>2, <2>3, <2>4
<1>4. ASSUME Sideways  PROVE NavigationOK' /\ StaysOpen
  BY <1>4, NextCategoryKeeps DEF Sideways
<1>5. ASSUME StartSession  PROVE NavigationOK' /\ StaysOpen
  <2>1. 1 \in 1..Len(Categories) /\ 1 \in 1..Len(Categories[1])
    BY CategoryViews
  <2>. QED
    BY <1>5, <2>1, GoToKeeps DEF StartSession
<1>6. ASSUME OpenItem  PROVE NavigationOK' /\ StaysOpen
  BY <1>6, GoToKeeps DEF OpenItem
<1>7. ASSUME Jump  PROVE NavigationOK' /\ StaysOpen
  <2>1. \A c \in 1..Len(Categories) : 1 \in 1..Len(Categories[c])
    BY CategoryViews
  <2>. QED
    BY <1>7, <2>1, GoToKeeps DEF Jump
<1>8. ASSUME Expand \/ Collapse \/ SwitchFocus \/ Refresh \/ MarkHeap \/ ToggleHelp
               \/ EnterFilter \/ TypeFilter
      PROVE  UNCHANGED <<view, category, item, selected>>
  BY <1>8 DEF Expand, Collapse, SwitchFocus, Refresh, MarkHeap, ToggleHelp, EnterFilter,
              TypeFilter, nav
<1>9. ASSUME TelemetryAnswer \/ (\E reply \in scenario.memory : MemoryAnswer(reply))
               \/ (\E reply \in scenario.cpu : CpuAnswer(reply)) \/ MemoryError \/ CpuError
               \/ Recorded \/ (\E due \in BOOLEAN : AutoUpdate(due)) \/ UNCHANGED vars
      PROVE  UNCHANGED <<view, category, item, selected>>
  BY <1>9 DEF TelemetryAnswer, MemoryAnswer, CpuAnswer, MemoryError, CpuError, Recorded,
              AutoUpdate, nav, vars
<1>. QED
  BY <1>1, <1>2, <1>3, <1>4, <1>5, <1>6, <1>7, <1>8, <1>9 DEF Next, Poll, HandleKey

LEMMA NavigationInit ==
  ASSUME Init  PROVE NavigationOK
BY CategoryViews DEF Init, NavigationOK, Opened

LEMMA NavigationHolds == Spec => []NavigationOK
BY NavigationInit, NavigationStep, PTL DEF Spec

(* However a view was reached, the sidebar marks exactly one category and  *)
(* enter in it stays in the view: the sidebar's indices always name the    *)
(* view, though digits, arrows, enter and a new session change either.      *)
THEOREM OneCategoryMarkedHolds == Spec => []OneCategoryMarked
<1>1. ASSUME NavigationOK  PROVE OneCategoryMarked
  <2>1. SUFFICES ASSUME view # "StartCenter"
                 PROVE  /\ Cardinality({c \in 1..Len(Categories) : Marked(c)}) = 1
                        /\ Categories[category][item] = view
    BY DEF OneCategoryMarked
  <2>2. view = Categories[category][item] /\ item = 1 /\ category \in 1..4
    BY <1>1, <2>1, CategoryViews DEF NavigationOK, Opened
  <2>3. \A c \in 1..4 : Marked(c) <=> c = category
    BY <2>2, CategoryViews DEF Marked
  <2>4. {c \in 1..Len(Categories) : Marked(c)} = {category}
    BY <2>2, <2>3, CategoryViews
  <2>. QED
    BY <2>2, <2>4, FS_Singleton
<1>. QED
  BY <1>1, NavigationHolds, PTL

(* A session is of one JVM: outside the start center no key and no list of *)
(* JVMs, not even one the selected JVM is missing from, changes it.        *)
THEOREM JvmFixedHolds == Spec => JvmFixed
<1>1. NavigationOK /\ [Next]_vars =>
        [view # "StartCenter" =>
           view' # "StartCenter" /\ (selected # None => selected' = selected)]_vars
  BY NavigationStep DEF StaysOpen, Opened
<1>. QED
  BY <1>1, NavigationHolds, PTL DEF Spec, JvmFixed

----------------------------------------------------------------------------
(* What is asked for and what has come.                                    *)

\* The fields that a move of the cursor leaves alone.
HasFields(m) == {"rows", "previous", "of"} \subseteq DOMAIN m

SameRows(m, n) == n.rows = m.rows /\ n.previous = m.previous /\ n.of = m.of

\* The bytes of each class of a histogram, as a query is given them to compare with.
Sizes(rows) ==
  [n \in {r.name : r \in ToSet(rows)} |-> (CHOOSE r \in ToSet(rows) : r.name = n).bytes]

MemoryOfSelected ==
  /\ \A q \in memoryQuery : Opened /\ selected # None /\ q.jvm = selected
  /\ memory.of # None => Opened /\ memory.of = selected

ComparedWithShown ==
  /\ \A q \in memoryQuery : q.previous = memory.previous
  /\ memory.previous = Sizes(memory.rows)

MemoryOK == HasFields(memory) /\ MemoryOfSelected /\ ComparedWithShown

KeepsMemory ==
  /\ HasFields(memory') /\ SameRows(memory, memory')
  /\ memoryQuery' = memoryQuery \/ (memoryQuery' = {} /\ memory' = memory)

AsksMemory ==
  /\ HasFields(memory') /\ SameRows(memory, memory')
  /\ Opened /\ selected # None
  /\ memoryQuery' = {[jvm |-> selected, previous |-> memory.previous]}

LEMMA CursorMoves ==
  ASSUME NEW m, HasFields(m), NEW count, NEW delta
  PROVE  /\ HasFields(KeepVisible(m)) /\ SameRows(m, KeepVisible(m))
         /\ HasFields(Clamped(m, count)) /\ SameRows(m, Clamped(m, count))
         /\ HasFields(Moved(m, delta, count)) /\ SameRows(m, Moved(m, delta, count))
         /\ HasFields(KeepVisible(Clamped(m, count)))
         /\ SameRows(m, KeepVisible(Clamped(m, count)))
<1>1. ASSUME NEW x
      PROVE  /\ HasFields([m EXCEPT !.sel = x]) /\ SameRows(m, [m EXCEPT !.sel = x])
             /\ HasFields([m EXCEPT !.off = x]) /\ SameRows(m, [m EXCEPT !.off = x])
  BY DEF HasFields, SameRows
<1>2. ASSUME NEW n, HasFields(n)
      PROVE  HasFields(KeepVisible(n)) /\ SameRows(n, KeepVisible(n))
  <2>1. ASSUME NEW x
        PROVE  HasFields([n EXCEPT !.off = x]) /\ SameRows(n, [n EXCEPT !.off = x])
    BY <1>2 DEF HasFields, SameRows
  <2>. QED
    BY <2>1 DEF KeepVisible
<1>3. HasFields(Clamped(m, count)) /\ SameRows(m, Clamped(m, count))
  BY <1>1 DEF Clamped
<1>4. HasFields(Moved(m, delta, count)) /\ SameRows(m, Moved(m, delta, count))
  <2>. DEFINE x == IF delta < 0 THEN Max({m.sel + delta, 0})
                   ELSE Min({m.sel + delta, LastIndex(count)})
              n == [m EXCEPT !.sel = x]
  <2>1. Moved(m, delta, count) = KeepVisible(n)
    BY DEF Moved
  <2>2. HasFields(n) /\ SameRows(m, n)
    BY <1>1
  <2>3. HasFields(KeepVisible(n)) /\ SameRows(n, KeepVisible(n))
    <3>. HIDE DEF n
    <3>. QED
      BY <1>2, <2>2
  <2>. HIDE DEF n
  <2>. QED
    BY <2>1, <2>2, <2>3 DEF SameRows
<1>. QED
  BY <1>2, <1>3, <1>4 DEF SameRows

LEMMA MemorySteps ==
  ASSUME HasFields(memory), [Next]_vars
  PROVE  \/ KeepsMemory
         \/ AsksMemory /\ UNCHANGED <<view, selected>>
         \/ \E reply \in scenario.memory : MemoryAnswer(reply)
<1>1. ASSUME UNCHANGED <<memory, memoryQuery>>  PROVE KeepsMemory
  BY <1>1 DEF KeepsMemory, SameRows, HasFields
<1>2. ASSUME AskMemory, selected # None, view = "Allocations"  PROVE AsksMemory
  BY <1>2 DEF AskMemory, AsksMemory, SameRows, HasFields, Opened
<1>3. ASSUME NEW due \in BOOLEAN, AutoUpdate(due)
      PROVE  KeepsMemory \/ (AsksMemory /\ UNCHANGED <<view, selected>>)
  <2>1. CASE ~memory.loaded /\ selected # None /\ view = "Allocations"
    <3>1. CASE memoryQuery = {}
      BY <1>2, <1>3, <2>1, <3>1 DEF AutoUpdate, nav
    <3>2. CASE memoryQuery # {}
      BY <1>3, <2>1, <3>2 DEF AutoUpdate, KeepsMemory, SameRows, HasFields
    <3>. QED
      BY <3>1, <3>2
  <2>2. CASE ~(~memory.loaded /\ selected # None /\ view = "Allocations")
    BY <1>1, <1>3, <2>2 DEF AutoUpdate
  <2>. QED
    BY <2>1, <2>2
<1>4. ASSUME Refresh  PROVE KeepsMemory \/ (AsksMemory /\ UNCHANGED <<view, selected>>)
  BY <1>1, <1>2, <1>4 DEF Refresh, nav
<1>5. ASSUME Move  PROVE KeepsMemory
  <2>1. PICK k \in DOMAIN Delta :
          SelectJvm(Delta[k]) \/ MoveInTable(Delta[k]) \/ MoveInSidebar(Delta[k])
    BY <1>5 DEF Move
  <2>2. CASE SelectJvm(Delta[k]) \/ MoveInSidebar(Delta[k])
    BY <1>1, <2>2 DEF SelectJvm, MoveInSidebar, tables, queries
  <2>3. CASE MoveInTable(Delta[k])
    <3>1. memoryQuery' = memoryQuery
      BY <2>3 DEF MoveInTable, queries
    <3>2. \/ memory' = memory
          \/ memory' = Moved(memory, Delta[k], Len(VisibleSites(memory)))
      BY <2>3 DEF MoveInTable
    <3>. QED
      BY <1>1, <3>1, <3>2, CursorMoves DEF KeepsMemory
  <2>. QED
    BY <2>1, <2>2, <2>3
<1>6. ASSUME Expand  PROVE KeepsMemory
  <2>. DEFINE new == [memory EXCEPT !.expanded = Toggled(@, SelectedSite)]
  <2>1. memoryQuery' = memoryQuery
    BY <1>6 DEF Expand, queries
  <2>2. memory' = memory \/ memory' = Clamped(new, Len(VisibleSites(new)))
    BY <1>6 DEF Expand
  <2>3. HasFields(new) /\ SameRows(memory, new)
    BY DEF HasFields, SameRows
  <2>4. /\ HasFields(Clamped(new, Len(VisibleSites(new))))
        /\ SameRows(new, Clamped(new, Len(VisibleSites(new))))
    BY <2>3, CursorMoves
  <2>. QED
    BY <1>1, <2>1, <2>2, <2>3, <2>4 DEF KeepsMemory, SameRows
<1>7. ASSUME Collapse \/ MarkHeap  PROVE KeepsMemory
  <2>1. memoryQuery' = memoryQuery
    BY <1>7 DEF Collapse, MarkHeap, queries
  <2>2. PICK x : \/ memory' = memory
                 \/ memory' = [memory EXCEPT !.expanded = x]
                 \/ memory' = [memory EXCEPT !.mark = x]
    BY <1>7 DEF Collapse, MarkHeap
  <2>. QED
    BY <2>1, <2>2 DEF KeepsMemory, HasFields, SameRows
<1>8. ASSUME MemoryError  PROVE KeepsMemory
  BY <1>8 DEF MemoryError, tables, KeepsMemory, SameRows, HasFields
<1>9. ASSUME \/ JvmsAnswer \/ TelemetryAnswer \/ (\E reply \in scenario.cpu : CpuAnswer(reply))
             \/ CpuError \/ Recorded \/ Sideways \/ StartSession \/ OpenItem \/ Jump
             \/ SwitchFocus \/ ToggleHelp \/ EnterFilter \/ TypeFilter \/ UNCHANGED vars
      PROVE  KeepsMemory
  <2>1. UNCHANGED <<memory, memoryQuery>>
    BY <1>9 DEF JvmsAnswer, TelemetryAnswer, CpuAnswer, CpuError, Recorded, Sideways,
                StartSession, OpenItem, Jump, SwitchFocus, ToggleHelp, EnterFilter, TypeFilter,
                vars, tables, queries
  <2>. QED
    BY <1>1, <2>1
<1>. QED
  BY <1>3, <1>4, <1>5, <1>6, <1>7, <1>8, <1>9 DEF Next, Poll, HandleKey

\* What an answer makes of the table, the cursor left aside.
LEMMA AnswerRows ==
  ASSUME HasFields(memory), NEW reply, MemoryAnswer(reply)
  PROVE  /\ memoryQuery' = {} /\ HasFields(memory')
         /\ UNCHANGED <<view, selected>>
         /\ \E q \in memoryQuery :
              /\ memory'.rows = Compared(Histogram(reply.lines), q.previous)
              /\ memory'.previous = Sizes(memory'.rows) /\ memory'.of = q.jvm
<1>1. PICK q \in memoryQuery, sites \in AllocationHotspots : MemoryAnswer(reply)!(q, sites)
  BY DEF MemoryAnswer
<1>. DEFINE rows  == Compared(Histogram(reply.lines), q.previous)
            names == {r.name : r \in ToSet(rows)}
            bytes(n) == (CHOOSE r \in ToSet(rows) : r.name = n).bytes
            sizes == [n \in names |-> bytes(n)]
            tree  == AllocationRows(sites)
            new   == [memory EXCEPT !.rows = rows, !.tree = tree, !.previous = sizes,
                                    !.of = q.jvm]
            passes(r) == Passes(filter, r.name)
            count == IF view = "Allocations" THEN Len(VisibleSites(new))
                     ELSE Len(Those(rows, passes))
<1>2. memory' = KeepVisible(Clamped(new, count))
  BY <1>1, Zenon
<1>3. HasFields(new) /\ new.rows = rows /\ new.of = q.jvm /\ new.previous = Sizes(rows)
  <2>1. sizes = Sizes(rows)
    BY Zenon DEF Sizes
  <2>2. HasFields(new) /\ new.rows = rows /\ new.of = q.jvm /\ new.previous = sizes
    <3>. HIDE DEF rows, sizes, tree
    <3>. QED
      BY DEF HasFields
  <2>. QED
    BY <2>1, <2>2
<1>4. HasFields(memory') /\ SameRows(new, memory')
  <2>. HIDE DEF new, count
  <2>. QED
    BY <1>2, <1>3, CursorMoves
<1>5. memory'.rows = rows /\ memory'.of = q.jvm /\ memory'.previous = Sizes(rows)
  BY <1>3, <1>4 DEF SameRows
<1>. QED
  BY <1>1, <1>4, <1>5 DEF nav

LEMMA MemoryInit ==
  ASSUME Init  PROVE MemoryOK
<1>1. ToSet(<<>>) = {}
  BY DEF ToSet
<1>2. <<>> = Sizes(<<>>)
  BY <1>1 DEF Sizes
<1>. QED
  BY <1>2 DEF Init, MemoryOK, HasFields, MemoryOfSelected, ComparedWithShown

LEMMA MemoryStep ==
  ASSUME MemoryOK, NavigationOK, [Next]_vars
  PROVE  MemoryOK'
<1>1. StaysOpen
  BY NavigationStep
<1>2. CASE KeepsMemory
  BY <1>1, <1>2 DEF KeepsMemory, MemoryOK, MemoryOfSelected, ComparedWithShown, SameRows, StaysOpen
<1>3. CASE AsksMemory /\ UNCHANGED <<view, selected>>
  BY <1>3 DEF AsksMemory, MemoryOK, MemoryOfSelected, ComparedWithShown, SameRows, Opened
<1>4. CASE \E reply \in scenario.memory : MemoryAnswer(reply)
  BY <1>4, AnswerRows DEF MemoryOK, MemoryOfSelected, ComparedWithShown, Opened
<1>. QED
  BY <1>2, <1>3, <1>4, MemorySteps DEF MemoryOK

LEMMA MemoryHolds == Spec => []MemoryOK
BY MemoryInit, MemoryStep, NavigationHolds, PTL DEF Spec

(* The growth a histogram shows is counted from the histogram on the       *)
(* screen until then: whichever query is answered in the end was given     *)
(* just that one, since the answer to an earlier one would have ended it.  *)
THEOREM DeltasAgainstShownHold == Spec => DeltasAgainstShown
<1>1. ASSUME MemoryOK, [Next]_vars, MemoryAnswered, NEW r \in ToSet(memory'.rows)
      PROVE  LET before == {o \in ToSet(memory.rows) : o.name = r.name}
             IN r.delta = IF before = {} THEN 0
                          ELSE r.bytes - (CHOOSE o \in before : TRUE).bytes
  <2>. DEFINE before == {o \in ToSet(memory.rows) : o.name = r.name}
  <2>1. PICK reply \in scenario.memory : MemoryAnswer(reply)
    BY <1>1, MemorySteps DEF MemoryOK, KeepsMemory, AsksMemory, MemoryAnswered
  <2>2. memory'.rows = Compared(Histogram(reply.lines), Sizes(memory.rows))
    BY <1>1, <2>1, AnswerRows DEF MemoryOK, ComparedWithShown
  <2>. DEFINE sizes == Sizes(memory.rows)
  <2>3. r.delta = IF r.name \in DOMAIN sizes THEN r.bytes - sizes[r.name] ELSE 0
    BY <2>2 DEF Compared, ToSet
  <2>4. r.name \in DOMAIN sizes <=> before # {}
    BY DEF Sizes
  <2>5. ASSUME before # {}
        PROVE  sizes[r.name] = (CHOOSE o \in before : TRUE).bytes
    <3>1. sizes[r.name] = (CHOOSE o \in ToSet(memory.rows) : o.name = r.name).bytes
      BY <2>5 DEF Sizes
    <3>2. (CHOOSE o \in before : TRUE) = (CHOOSE o \in ToSet(memory.rows) : o.name = r.name)
      OBVIOUS
    <3>. QED
      BY <3>1, <3>2
  <2>. QED
    BY <2>3, <2>4, <2>5
<1>2. MemoryOK /\ [Next]_vars => DeltasAgainstShown!1
  BY <1>1
<1>. QED
  BY <1>2, MemoryHolds, PTL DEF Spec, DeltasAgainstShown

----------------------------------------------------------------------------
(* The telemetry.                                                          *)

\* A reading compared with another JVM's.
IsMixed(x) == x.session /\ x.known /\ x.since \notin {None, x.jvm}

SamplesOK ==
  LET s == telemetry.samples
  IN  /\ s \in Seq(ToSet(s))
      /\ \A q \in telemetryQuery : q.session => Opened /\ selected # None /\ q.jvm = selected
      /\ \A i \in 1..Len(s) : s[i].session =>
           /\ Opened /\ selected # None
           /\ \A q \in telemetryQuery : q.session
           /\ s[i].known => telemetry.last = selected
      /\ \A i, j \in 1..Len(s) : i <= j /\ s[i].session => s[j].jvm = selected
      /\ \A i, j \in 1..Len(s) : IsMixed(s[i]) /\ IsMixed(s[j]) => i = j

AsksTelemetry ==
  /\ telemetry' = telemetry /\ selected' # None
  /\ telemetryQuery' = {[jvm |-> selected', session |-> Opened']}

LEMMA TelemetrySteps ==
  ASSUME NavigationOK, [Next]_vars
  PROVE  UNCHANGED <<telemetry, telemetryQuery>> \/ AsksTelemetry \/ TelemetryAnswer
<1>1. ASSUME NEW due \in BOOLEAN, AutoUpdate(due)
      PROVE  UNCHANGED <<telemetry, telemetryQuery>> \/ AsksTelemetry
  BY <1>1 DEF AutoUpdate, AskTelemetry, AsksTelemetry, Opened, nav
<1>2. ASSUME Refresh  PROVE UNCHANGED <<telemetry, telemetryQuery>> \/ AsksTelemetry
  BY <1>2 DEF Refresh, AskTelemetry, AsksTelemetry, Opened, nav
<1>3. ASSUME StartSession  PROVE UNCHANGED <<telemetry, telemetryQuery>> \/ AsksTelemetry
  <2>1. CASE selected' = None
    BY <1>3, <2>1 DEF StartSession, tables
  <2>2. CASE selected' # None
    <3>1. Opened' = TRUE
      <4>1. 1 \in 1..Len(Categories) /\ 1 \in 1..Len(Categories[1])
        BY CategoryViews
      <4>. QED
        BY <1>3, <2>2, <4>1, GoToKeeps DEF StartSession, Opened
    <3>. QED
      BY <1>3, <2>2, <3>1 DEF StartSession, AskTelemetry, AsksTelemetry, tables
  <2>. QED
    BY <2>1, <2>2
<1>4. ASSUME Move  PROVE UNCHANGED <<telemetry, telemetryQuery>>
  <2>1. PICK k \in DOMAIN Delta :
          SelectJvm(Delta[k]) \/ MoveInTable(Delta[k]) \/ MoveInSidebar(Delta[k])
    BY <1>4 DEF Move
  <2>. QED
    BY <2>1 DEF SelectJvm, MoveInTable, MoveInSidebar, tables, queries
<1>5. ASSUME \/ JvmsAnswer \/ (\E reply \in scenario.memory : MemoryAnswer(reply))
             \/ (\E reply \in scenario.cpu : CpuAnswer(reply)) \/ MemoryError \/ CpuError
             \/ Recorded \/ UNCHANGED vars
      PROVE  UNCHANGED <<telemetry, telemetryQuery>>
  BY <1>5 DEF JvmsAnswer, MemoryAnswer, CpuAnswer, MemoryError, CpuError, Recorded, vars, tables,
              queries
<1>6. ASSUME \/ Expand \/ Collapse \/ Sideways \/ OpenItem \/ Jump \/ SwitchFocus \/ MarkHeap
             \/ ToggleHelp \/ EnterFilter \/ TypeFilter
      PROVE  UNCHANGED <<telemetry, telemetryQuery>>
  BY <1>6 DEF Expand, Collapse, Sideways, OpenItem, Jump, SwitchFocus, MarkHeap, ToggleHelp,
              EnterFilter, TypeFilter, tables, queries
<1>. QED
  BY <1>1, <1>2, <1>3, <1>4, <1>5, <1>6 DEF Next, Poll, HandleKey

Suffix(all, low) == SubSeq(all, low, Len(all))

\* The samples after a sample x.
Window(s, x) == Suffix(Append(s, x), Max({1, Len(Append(s, x)) - SampleLimit + 1}))

LEMMA LastOf ==
  ASSUME NEW S, NEW all \in Seq(S), NEW low \in 1..Len(all)
  PROVE  /\ Suffix(all, low) \in Seq(S)
         /\ Len(Suffix(all, low)) = Len(all) - low + 1
         /\ \A i \in 1 .. Len(all) - low + 1 : Suffix(all, low)[i] = all[low + i - 1]
<1>1. Len(all) \in Int /\ low \in Int /\ low <= Len(all) /\ 1 <= low
  BY LenProperties
<1>2. \A i \in low .. Len(all) : all[i] \in S
  BY <1>1, ElementOfSeq
<1>. QED
  BY <1>1, <1>2, SubSeqProperties DEF Suffix

\* The samples that are kept: the last of all, in their order, the new one behind.
LEMMA LastSamples ==
  ASSUME NEW s, s \in Seq(ToSet(s)), NEW x, NEW w, w = Window(s, x)
  PROVE  /\ w \in Seq(ToSet(w))
         /\ Len(s) \in Nat
         /\ \E d \in 0..Len(s) :
              /\ Len(w) = Len(s) + 1 - d
              /\ w[Len(w)] = x
              /\ \A i \in 1..Len(w) : i # Len(w) => i + d \in 1..Len(s) /\ w[i] = s[i + d]
<1>. DEFINE T == ToSet(s) \cup {x}
<1>. PICK all : all = Append(s, x)
  OBVIOUS
<1>1. s \in Seq(T) /\ x \in T
  OBVIOUS
<1>2. /\ all \in Seq(T) /\ Len(s) \in Nat /\ Len(all) = Len(s) + 1
      /\ \A i \in 1..Len(s) : all[i] = s[i]
      /\ all[Len(s) + 1] = x
  BY <1>1, AppendProperties, LenProperties
<1>3. PICK d \in 0..Len(s) : Max({1, Len(all) - SampleLimit + 1}) = d + 1
  <2>1. SampleLimit \in Nat \ {0}
    BY TuiAssumption
  <2>2. PICK b \in Int : b = Len(all) - SampleLimit + 1
    BY <1>2, <2>1, SMTT(30)
  <2>3. \E m \in {1, b} : \A y \in {1, b} : m >= y
    BY <2>2
  <2>4. Max({1, b}) \in {1, b} /\ \A y \in {1, b} : Max({1, b}) >= y
    BY <2>3 DEF Max
  <2>5. Max({1, b}) \in Int /\ 1 <= Max({1, b}) /\ Max({1, b}) <= Len(all)
    BY <1>2, <2>1, <2>2, <2>4
  <2>6. Max({1, b}) - 1 \in 0..Len(s) /\ Max({1, b}) = (Max({1, b}) - 1) + 1
    BY <1>2, <2>5
  <2>. QED
    BY <2>2, <2>6
<1>4. w = Suffix(all, d + 1)
  BY <1>3 DEF Window
<1>5. /\ w \in Seq(T) /\ Len(w) = Len(s) + 1 - d
      /\ \A i \in 1..Len(w) : w[i] = all[i + d]
  <2>1. d + 1 \in 1..Len(all)
    BY <1>2, <1>3
  <2>. PICK low \in 1..Len(all) : low = d + 1
    BY <2>1
  <2>2. /\ w \in Seq(T) /\ Len(w) = Len(all) - low + 1
        /\ \A i \in 1 .. Len(all) - low + 1 : w[i] = all[low + i - 1]
    <3>1. w = Suffix(all, low)
      BY <1>4
    <3>. HIDE DEF T
    <3>2. w \in Seq(T)
      BY <1>2, <3>1, LastOf
    <3>3. Len(w) = Len(all) - low + 1
      BY <1>2, <3>1, LastOf
    <3>4. ASSUME NEW i \in 1 .. Len(all) - low + 1  PROVE w[i] = all[low + i - 1]
      <4>1. Suffix(all, low)[i] = all[low + i - 1]
        BY <1>2, LastOf
      <4>. QED
        BY <3>1, <4>1
    <3>. QED
      BY <3>2, <3>3, <3>4
  <2>3. Len(all) - low + 1 = Len(s) + 1 - d /\ \A i \in 1..Len(s) + 1 - d : low + i - 1 = i + d
    BY <1>2, <1>3
  <2>. QED
    BY <2>2, <2>3
<1>6. Len(w) \in 1..Len(w) /\ Len(w) + d = Len(s) + 1
  BY <1>2, <1>3, <1>5
<1>7. w[Len(w)] = x
  BY <1>2, <1>5, <1>6
<1>8. \A i \in 1..Len(w) : i # Len(w) => i + d \in 1..Len(s) /\ w[i] = s[i + d]
  <2>. TAKE i \in 1..Len(w)
  <2>. HAVE i # Len(w)
  <2>1. i + d \in 1..Len(s)
    BY <1>2, <1>3, <1>5
  <2>. QED
    BY <1>2, <1>5, <2>1
<1>9. w \in Seq(ToSet(w))
  <2>1. DOMAIN w = 1..Len(w) /\ Len(w) \in Nat
    <3>. HIDE DEF T
    <3>. QED
      BY <1>5, LenProperties
  <2>2. w \in [1..Len(w) -> ToSet(w)]
    <3>1. w \in [1..Len(w) -> T]
      <4>. HIDE DEF T
      <4>. QED
        BY <1>5, LenProperties
    <3>2. \A i \in 1..Len(w) : w[i] \in ToSet(w)
      BY <2>1 DEF ToSet
    <3>. QED
      BY <3>1, <3>2
  <2>. QED
    BY <2>1, <2>2, SeqDef
<1>. QED
  BY <1>2, <1>3, <1>5, <1>7, <1>8, <1>9

LEMMA SamplesInit ==
  ASSUME Init  PROVE SamplesOK
<1>1. telemetry.samples = <<>> /\ telemetryQuery = {}
  BY DEF Init
<1>2. <<>> \in Seq(ToSet(<<>>)) /\ Len(<<>>) = 0
  OBVIOUS
<1>. QED
  BY <1>1, <1>2 DEF SamplesOK

LEMMA SamplesStep ==
  ASSUME SamplesOK, NavigationOK, [Next]_vars
  PROVE  SamplesOK'
<1>. DEFINE s == telemetry.samples
<1>0. StaysOpen
  BY NavigationStep
<1>1. CASE UNCHANGED <<telemetry, telemetryQuery>>
  <2>1. s' = s
    BY <1>1
  <2>2. ASSUME NEW q \in telemetryQuery', q.session
        PROVE  (Opened /\ selected # None /\ q.jvm = selected)'
    BY <1>0, <1>1, <2>2 DEF SamplesOK, StaysOpen
  <2>3. ASSUME NEW i \in 1..Len(s), s[i].session
        PROVE  /\ Opened' /\ selected' = selected /\ selected # None
               /\ \A q \in telemetryQuery' : q.session
               /\ s[i].known => telemetry'.last = selected'
    BY <1>0, <1>1, <2>3 DEF SamplesOK, StaysOpen
  <2>4. \A i, j \in 1..Len(s) : i <= j /\ s[i].session => s[j].jvm = selected'
    BY <2>3 DEF SamplesOK
  <2>. QED
    BY <1>1, <2>1, <2>2, <2>3, <2>4 DEF SamplesOK
<1>2. CASE AsksTelemetry
  <2>1. s' = s /\ telemetry'.last = telemetry.last
    BY <1>2 DEF AsksTelemetry
  <2>2. ASSUME NEW q \in telemetryQuery'
        PROVE  (q.session <=> Opened') /\ selected' # None /\ q.jvm = selected'
    BY <1>2, <2>2 DEF AsksTelemetry
  <2>3. ASSUME NEW i \in 1..Len(s), s[i].session
        PROVE  /\ Opened' /\ selected' = selected /\ selected # None
               /\ s[i].known => telemetry'.last = selected'
    BY <1>0, <2>1, <2>3 DEF SamplesOK, StaysOpen
  <2>4. \A i, j \in 1..Len(s) : i <= j /\ s[i].session => s[j].jvm = selected'
    BY <2>3 DEF SamplesOK
  <2>. QED
    BY <2>1, <2>2, <2>3, <2>4 DEF SamplesOK
<1>3. CASE TelemetryAnswer
  <2>0. PICK q \in telemetryQuery : \E read \in QueryProcess(q.jvm) : TelemetryAnswer!(q)!(read)
    BY <1>3 DEF TelemetryAnswer
  <2>00. PICK read \in QueryProcess(q.jvm) : TelemetryAnswer!(q)!(read)
    BY <2>0
  <2>01. PICK x : x = [jvm |-> q.jvm, session |-> q.session, since |-> telemetry.last,
                       known |-> read # None]
    OBVIOUS
  <2>02. PICK w : w = Window(s, x)
    OBVIOUS
  <2>1. /\ x.jvm = q.jvm /\ x.session = q.session /\ x.since = telemetry.last
        /\ x.known = (read # None)
        /\ s' = w
        /\ telemetry'.last = IF read # None THEN read ELSE telemetry.last
        /\ read \in {q.jvm, None}
        /\ telemetryQuery' = {}
        /\ view' = view /\ selected' = selected
    BY <2>00, <2>01, <2>02 DEF QueryProcess, LastRead, nav, Window, Suffix
  <2>03. s \in Seq(ToSet(s))
    BY DEF SamplesOK
  <2>2. /\ w \in Seq(ToSet(w)) /\ Len(s) \in Nat
        /\ \E d \in 0..Len(s) :
             /\ Len(w) = Len(s) + 1 - d
             /\ w[Len(w)] = x
             /\ \A i \in 1..Len(w) : i # Len(w) => i + d \in 1..Len(s) /\ w[i] = s[i + d]
    <3>. HIDE DEF s
    <3>1. w \in Seq(ToSet(w))
      BY <2>02, <2>03, LastSamples
    <3>2. Len(s) \in Nat
      BY <2>02, <2>03, LastSamples
    <3>3. \E d \in 0..Len(s) :
            /\ Len(w) = Len(s) + 1 - d
            /\ w[Len(w)] = x
            /\ \A i \in 1..Len(w) : i # Len(w) => i + d \in 1..Len(s) /\ w[i] = s[i + d]
      BY <2>02, <2>03, LastSamples, SMTT(30)
    <3>. QED
      BY <3>1, <3>2, <3>3
  <2>3. PICK d \in 0..Len(s) :
          /\ Len(w) = Len(s) + 1 - d
          /\ w[Len(w)] = x
          /\ \A i \in 1..Len(w) : i # Len(w) => i + d \in 1..Len(s) /\ w[i] = s[i + d]
    BY <2>2
  <2>4. x.session => Opened /\ selected # None /\ x.jvm = selected
    BY <2>1 DEF SamplesOK
  <2>5. ASSUME NEW i \in 1..Len(s), s[i].session
        PROVE  /\ Opened /\ selected # None /\ x.session /\ x.jvm = selected
               /\ s[i].known => telemetry.last = selected
    <3>1. q.session
      BY <2>1, <2>5 DEF SamplesOK
    <3>. QED
      BY <2>1, <2>4, <2>5, <3>1 DEF SamplesOK
  <2>6. ASSUME NEW i \in 1..Len(w), w[i].session
        PROVE  /\ Opened' /\ selected' # None
               /\ w[i].known => telemetry'.last = selected'
    <3>1. CASE i = Len(w)
      BY <2>1, <2>3, <2>4, <2>6, <3>1 DEF Opened
    <3>2. CASE i # Len(w)
      BY <2>1, <2>3, <2>4, <2>5, <2>6, <3>2 DEF Opened
    <3>. QED
      BY <3>1, <3>2
  <2>7. ASSUME NEW i \in 1..Len(w), NEW j \in 1..Len(w), i <= j, w[i].session
        PROVE  w[j].jvm = selected'
    <3>1. CASE j = Len(w)
      <4>1. CASE i = Len(w)
        BY <2>1, <2>3, <2>4, <2>7, <3>1, <4>1
      <4>2. CASE i # Len(w)
        BY <2>1, <2>3, <2>5, <2>7, <3>1, <4>2
      <4>. QED
        BY <4>1, <4>2
    <3>2. CASE j # Len(w)
      <4>1. /\ i + d \in 1..Len(s) /\ w[i] = s[i + d]
            /\ j + d \in 1..Len(s) /\ w[j] = s[j + d]
            /\ i + d <= j + d
        <5>0. Len(w) \in Int
          BY <2>2, <2>3
        <5>1. i # Len(w)
          <6>1. i \in Int /\ j \in Int /\ i <= j /\ j < Len(w)
            BY <5>0, <2>7, <3>2
          <6>. QED
            BY <5>0, <6>1
        <5>2. i + d \in 1..Len(s) /\ w[i] = s[i + d]
          BY <2>3, <5>1
        <5>3. j + d \in 1..Len(s) /\ w[j] = s[j + d]
          BY <2>3, <3>2
        <5>4. i + d <= j + d
          BY <2>2, <2>3, <2>7
        <5>. QED
          BY <5>2, <5>3, <5>4
      <4>. QED
        BY <2>1, <2>7, <4>1 DEF SamplesOK
    <3>. QED
      BY <3>1, <3>2
  <2>8. ASSUME NEW i \in 1..Len(s), IsMixed(s[i])  PROVE ~IsMixed(x)
    <3>1. telemetry.last = selected /\ x.jvm = selected
      BY <2>5, <2>8 DEF IsMixed
    <3>. QED
      BY <2>1, <3>1 DEF IsMixed
  <2>9. ASSUME NEW i \in 1..Len(w), NEW j \in 1..Len(w), IsMixed(w[i]), IsMixed(w[j])
        PROVE  i = j
    <3>1. CASE i = Len(w) \/ j = Len(w)
      BY <2>3, <2>8, <2>9, <3>1
    <3>2. CASE i # Len(w) /\ j # Len(w)
      <4>1. /\ i + d \in 1..Len(s) /\ w[i] = s[i + d]
            /\ j + d \in 1..Len(s) /\ w[j] = s[j + d]
        BY <2>3, <3>2
      <4>2. i + d = j + d
        BY <2>9, <4>1 DEF SamplesOK
      <4>. QED
        BY <2>2, <4>2
    <3>. QED
      BY <3>1, <3>2
  <2>. QED
    BY <2>1, <2>2, <2>6, <2>7, <2>9 DEF SamplesOK
<1>. QED
  BY <1>1, <1>2, <1>3, TelemetrySteps

(* What is shown is of the selected JVM: a query asked in a session is of  *)
(* the JVM that stays selected, the older ones are gone after the first    *)
(* sample asked for in it, and only that sample can have been compared     *)
(* with another JVM's.                                                     *)
THEOREM DataOfSelectedHolds == Spec => []DataOfSelected
<1>1. ASSUME MemoryOK, SamplesOK  PROVE DataOfSelected
  <2>. DEFINE s == telemetry.samples
              mixed == {i \in 1..Len(s) :
                          s[i].session /\ s[i].known /\ s[i].since \notin {None, s[i].jvm}}
  <2>1. memory.of \in {None, selected}
    BY <1>1 DEF MemoryOK, MemoryOfSelected
  <2>2. \A i, j \in 1..Len(s) : i <= j /\ s[i].session => s[j].jvm = selected
    BY <1>1 DEF SamplesOK
  <2>3. \A i, j \in mixed : i = j
    BY <1>1 DEF SamplesOK, IsMixed
  <2>4. Cardinality(mixed) <= 1
    <3>1. CASE mixed = {}
      BY <3>1, FS_EmptySet
    <3>2. CASE mixed # {}
      <4>1. PICK i \in mixed : TRUE
        BY <3>2
      <4>2. mixed = {i}
        BY <2>3, <4>1
      <4>3. Cardinality(mixed) = 1
        BY <4>2, FS_Singleton
      <4>. QED
        <5>. HIDE DEF mixed
        <5>. QED
          BY <4>3
    <3>. QED
      BY <3>1, <3>2
  <2>. QED
    BY <2>1, <2>2, <2>4 DEF DataOfSelected
<1>2. Spec => []SamplesOK
  BY SamplesInit, SamplesStep, NavigationHolds, PTL DEF Spec
<1>. QED
  BY <1>1, <1>2, MemoryHolds, PTL

----------------------------------------------------------------------------
(* What the tables are made of.                                            *)

LEMMA MinMax ==
  ASSUME NEW a \in Int, NEW b \in Int
  PROVE  /\ Min({a, b}) = IF a <= b THEN a ELSE b
         /\ Max({a, b}) = IF a <= b THEN b ELSE a
<1>1. \E x \in {a, b} : \A y \in {a, b} : x <= y
  OBVIOUS
<1>2. Min({a, b}) \in {a, b} /\ Min({a, b}) <= a /\ Min({a, b}) <= b
  BY <1>1 DEF Min
<1>3. \E x \in {a, b} : \A y \in {a, b} : x >= y
  OBVIOUS
<1>4. Max({a, b}) \in {a, b} /\ Max({a, b}) >= a /\ Max({a, b}) >= b
  BY <1>3 DEF Max
<1>. QED
  BY <1>2, <1>4

LEMMA Elements ==
  ASSUME NEW s, IsSeq(s)
  PROVE  /\ Len(s) \in Nat /\ DOMAIN s = 1..Len(s)
         /\ ToSet(s) = {s[i] : i \in 1..Len(s)}
         /\ \A i \in 1..Len(s) : s[i] \in ToSet(s)
<1>1. Len(s) \in Nat /\ DOMAIN s = 1..Len(s)
  BY IsSeqOf DEF IsSeq
<1>. QED
  BY <1>1 DEF ToSet

LEMMA Listed ==
  ASSUME NEW n \in Nat, NEW s, DOMAIN s = 1..n, s = [i \in 1..n |-> s[i]]
  PROVE  IsSeq(s) /\ Len(s) = n
<1>1. s \in [1..n -> ToSet(s)]
  BY DEF ToSet
<1>. QED
  BY <1>1 DEF IsSeq

LEMMA Truncated ==
  ASSUME NEW s, IsSeq(s), NEW limit \in Nat
  PROVE  /\ IsSeq(Truncate(s, limit)) /\ ToSet(Truncate(s, limit)) \subseteq ToSet(s)
         /\ Len(Truncate(s, limit)) = IF limit <= Len(s) THEN limit ELSE Len(s)
         /\ \A i \in 1..Len(Truncate(s, limit)) : i \in 1..Len(s) /\ Truncate(s, limit)[i] = s[i]
<1>. DEFINE n == IF limit <= Len(s) THEN limit ELSE Len(s)
<1>1. Len(s) \in Nat /\ s \in Seq(ToSet(s)) /\ \A i \in 1..Len(s) : s[i] \in ToSet(s)
  BY Elements DEF IsSeq
<1>2. Truncate(s, limit) = SubSeq(s, 1, n) /\ n \in 0..Len(s)
  <2>1. limit \in Int /\ Len(s) \in Int
    BY <1>1
  <2>2. Min({limit, Len(s)}) = n
    BY <2>1, MinMax
  <2>3. n \in 0..Len(s)
    BY <1>1
  <2>4. Truncate(s, limit) = SubSeq(s, 1, Min({limit, Len(s)}))
    BY Zenon DEF Truncate
  <2>. HIDE DEF n
  <2>. QED
    BY <2>2, <2>3, <2>4
<1>. HIDE DEF n
<1>3. SubSeq(s, 1, n) = [i \in 1..n |-> s[i]] /\ n \in Nat
  BY <1>1, <1>2
<1>4. \A i \in 1..n : i \in 1..Len(s) /\ SubSeq(s, 1, n)[i] = s[i]
  BY <1>1, <1>2, <1>3
<1>5. IsSeq(SubSeq(s, 1, n)) /\ Len(SubSeq(s, 1, n)) = n
  <2>1. PICK t : t = [i \in 1..n |-> s[i]]
    OBVIOUS
  <2>2. DOMAIN t = 1..n /\ t = [i \in 1..n |-> t[i]]
    BY <2>1
  <2>3. IsSeq(t) /\ Len(t) = n
    BY <1>3, <2>2, Listed
  <2>. QED
    BY <1>3, <2>1, <2>3
<1>6. ToSet(SubSeq(s, 1, n)) \subseteq ToSet(s)
  <2>1. PICK t : t = SubSeq(s, 1, n)
    OBVIOUS
  <2>2. IsSeq(t) /\ Len(t) = n /\ \A i \in 1..n : i \in 1..Len(s) /\ t[i] = s[i]
    BY <1>4, <1>5, <2>1, Zenon
  <2>3. ToSet(t) = {t[i] : i \in 1..Len(t)}
    BY <2>2, Elements
  <2>4. ToSet(t) \subseteq ToSet(s)
    BY <1>1, <2>2, <2>3
  <2>. QED
    BY <2>1, <2>4
<1>. QED
  BY <1>2, <1>4, <1>5, <1>6 DEF n

\* The callees of a row that CpuItems has under it.
Shown(r, rows, edges, expanded, limit) ==
  IF r.id # NoId /\ r.id \in expanded
  THEN Min({limit, Len(Children(r.id, rows, edges))}) ELSE 0

LEMMA ChildrenFew ==
  ASSUME NEW rows, NEW edges, IsSeq(edges), NEW id
  PROVE  Len(Children(id, rows, edges)) \in Nat /\ Len(Children(id, rows, edges)) <= Len(edges)
<1>. DEFINE known(e) == e.from = id /\ \E i \in 1..Len(rows) : rows[i].id = e.to /\ ~rows[i].sql
            places == {i \in 1..Len(edges) : known(edges[i])}
            those == At(edges, places)
            key == [i \in 1..Len(those) |-> those[i].duration]
<1>1. Children(id, rows, edges) = Sorted(those, key)
  BY Zenon DEF Children, Those, LargestFirst
<1>2. places \in SUBSET (1..Len(edges))
  OBVIOUS
<1>. HIDE DEF places
<1>3. Len(those) \in Nat /\ Len(those) <= Len(edges)
  BY <1>2, PickedRows, Zenon
<1>. HIDE DEF those, key
<1>4. Sorted(those, key) = [k \in 1..Len(those) |->
                              those[CHOOSE i \in 1..Len(those) : Ranks(key, Len(those))[i] = k]]
  BY DEF Sorted
<1>5. Len(Sorted(those, key)) = Len(those)
  BY <1>3, <1>4
<1>. QED
  BY <1>1, <1>3, <1>5

(* The rows of the method table: each method's row and the rows of those   *)
(* callees that are shown.                                                 *)
LEMMA ItemRows ==
  ASSUME NEW rows, IsSeq(rows), NEW edges, IsSeq(edges), NEW passed, NEW expanded,
         NEW limit \in Nat
  PROVE  LET methods == MethodRows(rows, passed)
             items == CpuItems(rows, edges, passed, expanded, limit)
         IN /\ IsSeq(methods) /\ IsSeq(items)
            /\ \A r \in ToSet(methods) : Shown(r, rows, edges, expanded, limit) \in Nat
            /\ ToSet(items) =
                 UNION {{[id |-> r.id, callee |-> k] :
                           k \in 0..Shown(r, rows, edges, expanded, limit)} : r \in ToSet(methods)}
<1>. DEFINE shown(r) == ~r.sql /\ Passes(passed, r.name)
            places == {i \in 1..Len(rows) : shown(rows[i])}
            methods == At(rows, places)
            num(r) == Shown(r, rows, edges, expanded, limit)
            itemsOf(r) == [i \in 1..(num(r) + 1) |-> [id |-> r.id, callee |-> i - 1]]
            parts == [i \in 1..Len(methods) |-> itemsOf(methods[i])]
<1>1. MethodRows(rows, passed) = methods
  BY Zenon DEF MethodRows, Those
<1>2. CpuItems(rows, edges, passed, expanded, limit) = FlattenSeq(parts)
  BY <1>1, Zenon DEF CpuItems, Shown
<1>3. IsSeq(methods)
  <2>1. places \in SUBSET (1..Len(rows))
    OBVIOUS
  <2>. HIDE DEF places
  <2>. QED
    BY <2>1, PickedRows, Zenon
<1>. HIDE DEF places, methods
<1>4. ASSUME NEW r  PROVE num(r) \in Nat
  <2>1. 0 \in Int /\ limit \in Int /\ Len(Children(r.id, rows, edges)) \in Nat
    BY ChildrenFew
  <2>2. Min({limit, Len(Children(r.id, rows, edges))}) \in Nat
    BY <2>1, MinMax
  <2>. QED
    BY <2>2 DEF Shown
<1>5. Len(methods) \in Nat /\ ToSet(methods) = {methods[i] : i \in 1..Len(methods)}
  BY <1>3, Elements
<1>. HIDE DEF num
<1>6. ASSUME NEW r
      PROVE  IsSeq(itemsOf(r)) /\ ToSet(itemsOf(r)) = {[id |-> r.id, callee |-> k] : k \in 0..num(r)}
  <2>1. num(r) + 1 \in Nat
    BY <1>4
  <2>2. DOMAIN itemsOf(r) = 1..(num(r) + 1) /\ itemsOf(r) = [i \in 1..(num(r) + 1) |-> itemsOf(r)[i]]
    OBVIOUS
  <2>3. IsSeq(itemsOf(r)) /\ Len(itemsOf(r)) = num(r) + 1
    <3>1. PICK t : t = itemsOf(r)
      OBVIOUS
    <3>2. DOMAIN t = 1..(num(r) + 1) /\ t = [i \in 1..(num(r) + 1) |-> t[i]]
      BY <3>1
    <3>. HIDE DEF itemsOf
    <3>. QED
      BY <2>1, <3>1, <3>2, Listed
  <2>4. ToSet(itemsOf(r)) = {[id |-> r.id, callee |-> i - 1] : i \in 1..(num(r) + 1)}
    BY DEF ToSet
  <2>5. \A k \in 0..num(r) : k + 1 \in 1..(num(r) + 1) /\ (k + 1) - 1 = k
    BY <1>4
  <2>6. \A i \in 1..(num(r) + 1) : i - 1 \in 0..num(r)
    BY <1>4
  <2>. QED
    BY <2>3, <2>4, <2>5, <2>6
<1>. HIDE DEF itemsOf
<1>7. /\ IsSeq(parts) /\ Len(parts) = Len(methods)
      /\ \A i \in 1..Len(methods) : parts[i] = itemsOf(methods[i])
  <2>1. PICK t : t = parts
    OBVIOUS
  <2>2. DOMAIN t = 1..Len(methods) /\ t = [i \in 1..Len(methods) |-> t[i]]
    BY <2>1
  <2>3. IsSeq(t) /\ Len(t) = Len(methods)
    BY <1>5, <2>2, Listed
  <2>. QED
    BY <2>1, <2>3
<1>. HIDE DEF parts
<1>8. \A i \in 1..Len(parts) : IsSeq(parts[i])
  BY <1>6, <1>7
<1>9. /\ IsSeq(FlattenSeq(parts))
      /\ ToSet(FlattenSeq(parts)) = UNION {ToSet(parts[i]) : i \in 1..Len(parts)}
  BY <1>7, <1>8, FlattenRows, Zenon
<1>10. UNION {ToSet(parts[i]) : i \in 1..Len(parts)} =
         UNION {{[id |-> r.id, callee |-> k] : k \in 0..num(r)} : r \in ToSet(methods)}
  <2>1. \A i \in 1..Len(parts) :
          ToSet(parts[i]) = {[id |-> methods[i].id, callee |-> k] : k \in 0..num(methods[i])}
    BY <1>6, <1>7
  <2>. QED
    BY <1>5, <1>7, <2>1
<1>. QED
  BY <1>1, <1>2, <1>3, <1>4, <1>9, <1>10 DEF num

----------------------------------------------------------------------------
(* Cursors.                                                                *)

Cursors(t) == {"sel", "off"} \subseteq DOMAIN t /\ t.sel \in Nat /\ t.off \in Nat

\* A row is on the page and highlighted, as long as there are so many.
OnPage(t, count) == t.sel < count /\ t.off <= t.sel /\ t.sel < t.off + PageRows

\* The same where there is so much room.
InSight(t, count, room) == t.sel < count /\ t.off <= t.sel /\ t.sel < t.off + room

\* A terminal's height, or a page where that is more.
Roomy(room) == room \in Nat /\ room >= PageRows

\* Nothing but the cursor is different.
CursorOnly(t, u) ==
  DOMAIN u = DOMAIN t /\ \A f \in DOMAIN t \ {"sel", "off"} : u[f] = t[f]

LEMMA PageInSight ==
  ASSUME NEW t, Cursors(t), NEW count, NEW room, Roomy(room), OnPage(t, count)
  PROVE  InSight(t, count, room)
BY TuiAssumption DEF Cursors, Roomy, OnPage, InSight

LEMMA CursorClamped ==
  ASSUME NEW t, Cursors(t), NEW count \in Nat
  PROVE  /\ Cursors(Clamped(t, count)) /\ CursorOnly(t, Clamped(t, count))
         /\ count # 0 => Clamped(t, count).sel < count
<1>1. LastIndex(count) \in Nat /\ (count # 0 => LastIndex(count) < count)
  <2>1. count - 1 \in Int /\ 0 \in Int
    OBVIOUS
  <2>2. LastIndex(count) = IF count - 1 <= 0 THEN 0 ELSE count - 1
    BY <2>1, MinMax DEF LastIndex
  <2>. QED
    BY <2>2
<1>2. Min({t.sel, LastIndex(count)}) \in Nat /\ Min({t.sel, LastIndex(count)}) <= LastIndex(count)
  <2>1. t.sel \in Int /\ LastIndex(count) \in Int /\ t.sel \in Nat
    BY <1>1 DEF Cursors
  <2>2. Min({t.sel, LastIndex(count)}) = IF t.sel <= LastIndex(count) THEN t.sel ELSE LastIndex(count)
    BY <2>1, MinMax
  <2>. QED
    BY <1>1, <2>1, <2>2
<1>3. PICK x : x = Min({t.sel, LastIndex(count)})
  OBVIOUS
<1>4. Clamped(t, count) = [t EXCEPT !.sel = x]
  BY <1>3 DEF Clamped
<1>. QED
  BY <1>1, <1>2, <1>3, <1>4 DEF Cursors, CursorOnly

LEMMA CursorVisible ==
  ASSUME NEW t, Cursors(t)
  PROVE  /\ Cursors(KeepVisible(t)) /\ CursorOnly(t, KeepVisible(t))
         /\ KeepVisible(t).sel = t.sel
         /\ \A count \in Nat : t.sel < count => OnPage(KeepVisible(t), count)
<1>. DEFINE x == CASE t.sel < t.off             -> t.sel
                   [] t.sel >= t.off + PageRows -> t.sel - PageRows + 1
                   [] OTHER                     -> t.off
<1>1. t.sel \in Nat /\ t.off \in Nat /\ PageRows \in Nat \ {0}
  BY TuiAssumption DEF Cursors
<1>2. x \in Nat /\ x <= t.sel /\ t.sel < x + PageRows
  <2>1. CASE t.sel < t.off
    BY <1>1, <2>1
  <2>2. CASE t.sel >= t.off + PageRows
    <3>1. ~(t.sel < t.off)
      BY <1>1, <2>2
    <3>2. x = t.sel - PageRows + 1
      BY <2>2, <3>1
    <3>. HIDE DEF x
    <3>. QED
      BY <1>1, <2>2, <3>2
  <2>3. CASE ~(t.sel < t.off) /\ ~(t.sel >= t.off + PageRows)
    BY <1>1, <2>3
  <2>. QED
    BY <2>1, <2>2, <2>3
<1>3. KeepVisible(t) = [t EXCEPT !.off = x]
  BY DEF KeepVisible
<1>. HIDE DEF x
<1>4. KeepVisible(t).sel = t.sel /\ KeepVisible(t).off = x
  BY <1>3 DEF Cursors
<1>5. Cursors(KeepVisible(t)) /\ CursorOnly(t, KeepVisible(t))
  BY <1>1, <1>2, <1>3, <1>4 DEF Cursors, CursorOnly
<1>. QED
  BY <1>2, <1>4, <1>5 DEF OnPage

\* The answer to a query.
LEMMA CursorAnswered ==
  ASSUME NEW t, Cursors(t), NEW count \in Nat
  PROVE  LET u == KeepVisible(Clamped(t, count))
         IN Cursors(u) /\ CursorOnly(t, u) /\ (count # 0 => OnPage(u, count))
<1>1. PICK c : c = Clamped(t, count)
  OBVIOUS
<1>2. Cursors(c) /\ CursorOnly(t, c) /\ (count # 0 => c.sel < count)
  BY <1>1, CursorClamped
<1>3. /\ Cursors(KeepVisible(c)) /\ CursorOnly(c, KeepVisible(c))
      /\ c.sel < count => OnPage(KeepVisible(c), count)
  BY <1>2, CursorVisible
<1>4. CursorOnly(t, KeepVisible(c))
  BY <1>2, <1>3 DEF CursorOnly
<1>. QED
  BY <1>1, <1>2, <1>3, <1>4

LEMMA CursorMoved ==
  ASSUME NEW t, Cursors(t), NEW count \in Nat, NEW delta \in Int
  PROVE  /\ Cursors(Moved(t, delta, count)) /\ CursorOnly(t, Moved(t, delta, count))
         /\ count # 0 /\ (delta < 0 => t.sel < count) => OnPage(Moved(t, delta, count), count)
<1>1. LastIndex(count) \in Nat /\ (count # 0 => LastIndex(count) < count)
  <2>1. count - 1 \in Int /\ 0 \in Int
    OBVIOUS
  <2>2. LastIndex(count) = IF count - 1 <= 0 THEN 0 ELSE count - 1
    BY <2>1, MinMax DEF LastIndex
  <2>. QED
    BY <2>2
<1>2. t.sel \in Nat
  BY DEF Cursors
<1>3. t.sel + delta \in Int /\ LastIndex(count) \in Int /\ 0 \in Int
  BY <1>1, <1>2
<1>. DEFINE x == IF delta < 0 THEN Max({t.sel + delta, 0})
                 ELSE Min({t.sel + delta, LastIndex(count)})
<1>4. /\ x \in Nat
      /\ delta < 0 => x <= t.sel
      /\ ~(delta < 0) => x <= LastIndex(count)
  <2>1. CASE delta < 0
    <3>1. x = IF t.sel + delta <= 0 THEN 0 ELSE t.sel + delta
      BY <1>3, <2>1, MinMax
    <3>. HIDE DEF x
    <3>. QED
      BY <1>2, <2>1, <3>1
  <2>2. CASE ~(delta < 0)
    <3>1. x = IF t.sel + delta <= LastIndex(count) THEN t.sel + delta ELSE LastIndex(count)
      BY <1>3, <2>2, MinMax
    <3>. HIDE DEF x
    <3>. QED
      BY <1>1, <1>2, <2>2, <3>1
  <2>. QED
    BY <2>1, <2>2
<1>5. Moved(t, delta, count) = KeepVisible([t EXCEPT !.sel = x])
  BY DEF Moved
<1>. HIDE DEF x
<1>6. PICK c : c = [t EXCEPT !.sel = x]
  OBVIOUS
<1>7. Cursors(c) /\ CursorOnly(t, c) /\ c.sel = x
  BY <1>4, <1>6 DEF Cursors, CursorOnly
<1>8. /\ Cursors(KeepVisible(c)) /\ CursorOnly(c, KeepVisible(c))
      /\ c.sel < count => OnPage(KeepVisible(c), count)
  BY <1>7, CursorVisible
<1>9. CursorOnly(t, KeepVisible(c))
  BY <1>7, <1>8 DEF CursorOnly
<1>10. count # 0 /\ (delta < 0 => t.sel < count) => x < count
  BY <1>1, <1>2, <1>4
<1>. QED
  BY <1>5, <1>6, <1>7, <1>8, <1>9, <1>10

----------------------------------------------------------------------------
(* What is shown of the tables.                                            *)

MemoryTable(m) ==
  /\ {"rows", "tree", "mark", "expanded"} \subseteq DOMAIN m
  /\ IsSeq(m.rows) /\ \A r \in ToSet(m.rows) : r.bytes \in Nat /\ r.delta \in Int
  /\ TreeRows(m.tree)
  /\ \E f : m.mark \subseteq {f} /\ \A n \in DOMAIN f : f[n] \in Int

CpuTable(c) ==
  /\ {"rows", "edges", "expanded"} \subseteq DOMAIN c
  /\ IsSeq(c.rows) /\ Len(c.rows) <= RowLimit
  /\ IsSeq(c.edges)

LEMMA PickedTree ==
  ASSUME NEW rows, TreeRows(rows), NEW places \in SUBSET (1..Len(rows))
  PROVE  TreeRows(At(rows, places))
<1>1. IsSeq(rows)
  BY DEF TreeRows
<1>2. IsSeq(At(rows, places)) /\ ToSet(At(rows, places)) = {rows[i] : i \in places}
  BY <1>1, PickedRows, Zenon
<1>3. \A i \in places : rows[i] \in ToSet(rows)
  BY <1>1, Elements
<1>. QED
  BY <1>2, <1>3 DEF TreeRows

LEMMA HistogramTree ==
  ASSUME NEW rows, IsSeq(rows), \A r \in ToSet(rows) : r.bytes \in Nat /\ r.delta \in Int,
         NEW mark, \E f : mark \subseteq {f} /\ \A n \in DOMAIN f : f[n] \in Int,
         NEW passed
  PROVE  TreeRows(HistogramRows(rows, mark, passed))
<1>. DEFINE old(r) == IF \E f \in mark : r.name \in DOMAIN f
                      THEN (CHOOSE f \in mark : TRUE)[r.name] ELSE 0
            grown(r) == IF mark # {} THEN Max({r.bytes - old(r), 0})
                        ELSE IF r.delta > 0 THEN r.delta ELSE r.bytes
            row(i) == [id |-> i, parent |-> NoId, name |-> rows[i].name,
                       bytes |-> grown(rows[i]), depth |-> 0]
            keep(r) == r.bytes > 0 /\ Passes(passed, r.name)
            all == [i \in 1..Len(rows) |-> row(i)]
            places == {i \in 1..Len(all) : keep(all[i])}
            those == At(all, places)
            key == [i \in 1..Len(those) |-> those[i].bytes]
<1>1. HistogramRows(rows, mark, passed) = Sorted(those, key)
  BY Zenon DEF HistogramRows, Those, LargestFirst
<1>2. Len(rows) \in Nat /\ \A i \in 1..Len(rows) : rows[i].bytes \in Nat /\ rows[i].delta \in Int
  BY Elements
<1>3. ASSUME NEW i \in 1..Len(rows)  PROVE grown(rows[i]) \in Int
  <2>1. rows[i].bytes \in Int /\ rows[i].delta \in Int
    BY <1>2
  <2>2. old(rows[i]) \in Int
    <3>1. CASE \E f \in mark : rows[i].name \in DOMAIN f
      <4>1. PICK f : mark \subseteq {f} /\ \A n \in DOMAIN f : f[n] \in Int
        OBVIOUS
      <4>2. f \in mark /\ rows[i].name \in DOMAIN f /\ (CHOOSE g \in mark : TRUE) = f
        BY <3>1, <4>1
      <4>. QED
        BY <3>1, <4>1, <4>2
    <3>2. CASE ~ \E f \in mark : rows[i].name \in DOMAIN f
      BY <3>2
    <3>. QED
      BY <3>1, <3>2
  <2>. HIDE DEF old
  <2>3. rows[i].bytes - old(rows[i]) \in Int /\ 0 \in Int
    BY <2>1, <2>2
  <2>4. Max({rows[i].bytes - old(rows[i]), 0}) \in Int
    BY <2>3, MinMax
  <2>. QED
    BY <2>1, <2>4
<1>. HIDE DEF grown
<1>4. DOMAIN all = 1..Len(rows) /\ \A i \in 1..Len(rows) : all[i] = row(i)
  OBVIOUS
<1>5. IsSeq(all) /\ Len(all) = Len(rows)
  <2>1. PICK t : t = all
    OBVIOUS
  <2>2. DOMAIN t = 1..Len(rows) /\ t = [i \in 1..Len(rows) |-> t[i]]
    BY <2>1
  <2>3. IsSeq(t) /\ Len(t) = Len(rows)
    BY <1>2, <2>2, Listed
  <2>. QED
    BY <2>1, <2>3
<1>6. \A i \in 1..Len(all) : /\ all[i].id \in Int /\ all[i].parent = NoId /\ all[i].id > 0
                             /\ all[i].bytes \in Int
  BY <1>2, <1>3, <1>4, <1>5
<1>. HIDE DEF all
<1>7. TreeRows(all)
  <2>1. ToSet(all) = {all[i] : i \in 1..Len(all)}
    BY <1>5, Elements
  <2>. QED
    BY <1>5, <1>6, <2>1 DEF TreeRows, NoId
<1>8. places \in SUBSET (1..Len(all))
  OBVIOUS
<1>. HIDE DEF places
<1>9. TreeRows(those)
  BY <1>7, <1>8, PickedTree, Zenon
<1>. HIDE DEF those
<1>10. Len(those) \in Nat /\ \A i \in 1..Len(those) : key[i] \in Int
  BY <1>9, Elements DEF TreeRows
<1>. HIDE DEF key
<1>11. IsSeq(Sorted(those, key)) /\ ToSet(Sorted(those, key)) = ToSet(those)
  BY <1>9, <1>10, SortedRows, Zenon DEF TreeRows
<1>. QED
  BY <1>1, <1>9, <1>11 DEF TreeRows

LEMMA SitesShown ==
  ASSUME NEW m, MemoryTable(m)
  PROVE  IsSeq(VisibleSites(m)) /\ Len(VisibleSites(m)) \in Nat
<1>1. TreeRows(Sites(m))
  <2>1. CASE m.tree # <<>>
    <3>. DEFINE places == {i \in 1..Len(m.tree) : Passes(filter, m.tree[i].name)}
    <3>1. Sites(m) = At(m.tree, places)
      BY <2>1, Zenon DEF Sites, Those
    <3>2. places \in SUBSET (1..Len(m.tree)) /\ TreeRows(m.tree)
      BY DEF MemoryTable
    <3>. HIDE DEF places
    <3>. QED
      BY <3>1, <3>2, PickedTree
  <2>2. CASE m.tree = <<>>
    <3>1. Sites(m) = HistogramRows(m.rows, m.mark, filter)
      BY <2>2, Zenon DEF Sites
    <3>2. /\ IsSeq(m.rows) /\ \A r \in ToSet(m.rows) : r.bytes \in Nat /\ r.delta \in Int
          /\ \E f : m.mark \subseteq {f} /\ \A n \in DOMAIN f : f[n] \in Int
      BY DEF MemoryTable
    <3>. QED
      BY <3>1, <3>2, HistogramTree
  <2>. QED
    BY <2>1, <2>2
<1>2. IsSeq(VisibleTree(Sites(m), m.expanded))
  BY <1>1, TreeShows, Zenon
<1>3. IsSeq(VisibleSites(m))
  BY <1>1, <1>2 DEF VisibleSites, TreeRows
<1>. QED
  BY <1>3, Elements

LEMMA StatementsShown ==
  ASSUME NEW rows, IsSeq(rows), NEW passed
  PROVE  /\ IsSeq(StatementRows(rows, passed)) /\ Len(StatementRows(rows, passed)) \in Nat
         /\ ToSet(StatementRows(rows, passed)) \subseteq ToSet(rows)
<1>. DEFINE places == {i \in 1..Len(rows) : rows[i].sql /\ Passes(passed, rows[i].name)}
<1>1. StatementRows(rows, passed) = At(rows, places)
  BY Zenon DEF StatementRows, Those
<1>2. places \in SUBSET (1..Len(rows)) /\ {rows[i] : i \in places} \subseteq ToSet(rows)
  BY Elements
<1>. HIDE DEF places
<1>. QED
  BY <1>1, <1>2, PickedRows

LEMMA OtherCursor ==
  ASSUME NEW t, NEW u, CursorOnly(t, u)
  PROVE  /\ MemoryTable(t) => MemoryTable(u) /\ VisibleSites(u) = VisibleSites(t)
         /\ CpuTable(t) => /\ CpuTable(u)
                           /\ u.rows = t.rows /\ u.edges = t.edges /\ u.expanded = t.expanded
<1>1. ASSUME NEW f \in DOMAIN t, f \notin {"sel", "off"}  PROVE f \in DOMAIN u /\ u[f] = t[f]
  BY <1>1 DEF CursorOnly
<1>2. ASSUME MemoryTable(t)  PROVE MemoryTable(u) /\ VisibleSites(u) = VisibleSites(t)
  <2>1. {"rows", "tree", "mark", "expanded"} \subseteq DOMAIN t
    BY <1>2 DEF MemoryTable
  <2>2. /\ {"rows", "tree", "mark", "expanded"} \subseteq DOMAIN u
        /\ u.rows = t.rows /\ u.tree = t.tree /\ u.mark = t.mark /\ u.expanded = t.expanded
    BY <1>1, <2>1
  <2>3. MemoryTable(u)
    BY <1>2, <2>2 DEF MemoryTable
  <2>4. Sites(u) = Sites(t)
    BY <2>2, Zenon DEF Sites
  <2>. QED
    BY <2>2, <2>3, <2>4 DEF VisibleSites
<1>3. ASSUME CpuTable(t)
      PROVE  CpuTable(u) /\ u.rows = t.rows /\ u.edges = t.edges /\ u.expanded = t.expanded
  <2>1. {"rows", "edges", "expanded"} \subseteq DOMAIN t
    BY <1>3 DEF CpuTable
  <2>2. /\ {"rows", "edges", "expanded"} \subseteq DOMAIN u
        /\ u.rows = t.rows /\ u.edges = t.edges /\ u.expanded = t.expanded
    BY <1>1, <2>1
  <2>. QED
    BY <1>3, <2>2 DEF CpuTable
<1>. QED
  BY <1>2, <1>3

\* What a JVM's histogram and the agent's tree become.
LEMMA HistogramTyped ==
  ASSUME NEW reply, MemoryReply(reply), NEW previous, \A n \in DOMAIN previous : previous[n] \in Int
  PROVE  LET rows == Compared(Histogram(reply.lines), previous)
         IN IsSeq(rows) /\ \A r \in ToSet(rows) : r.bytes \in Nat /\ r.delta \in Int
<1>. DEFINE places == {i \in 1..Len(reply.lines) :
                         reply.lines[i].ranked /\ reply.lines[i].name # <<>>}
            lines == At(reply.lines, places)
            grown(r) == IF r.name \in DOMAIN previous THEN r.bytes - previous[r.name] ELSE 0
            row(r) == [name |-> r.name, bytes |-> r.bytes, delta |-> grown(r)]
            rows == [i \in 1..Len(lines) |-> row(lines[i])]
<1>1. Compared(Histogram(reply.lines), previous) = rows
  BY Zenon DEF Compared, Histogram, Those
<1>3. IsSeq(reply.lines)
  BY DEF MemoryReply
<1>4. IsSeq(lines) /\ \A r \in ToSet(lines) : r.bytes \in Nat
  <2>1. places \in SUBSET (1..Len(reply.lines))
    OBVIOUS
  <2>2. \A i \in 1..Len(reply.lines) : reply.lines[i].bytes \in Nat
    BY <1>3, Elements DEF MemoryReply
  <2>. HIDE DEF places
  <2>3. IsSeq(lines) /\ ToSet(lines) = {reply.lines[i] : i \in places}
    BY <1>3, <2>1, PickedRows, Zenon
  <2>. QED
    BY <2>1, <2>2, <2>3
<1>. HIDE DEF lines
<1>5. Len(lines) \in Nat /\ \A i \in 1..Len(lines) : lines[i].bytes \in Nat
  BY <1>4, Elements
<1>6. IsSeq(rows) /\ Len(rows) = Len(lines)
  <2>1. PICK t : t = rows
    OBVIOUS
  <2>2. DOMAIN t = 1..Len(lines) /\ t = [i \in 1..Len(lines) |-> t[i]]
    BY <2>1
  <2>3. IsSeq(t) /\ Len(t) = Len(lines)
    BY <1>5, <2>2, Listed
  <2>. QED
    BY <2>1, <2>3
<1>7. \A i \in 1..Len(lines) : rows[i].bytes \in Nat /\ rows[i].delta \in Int
  <2>1. SUFFICES ASSUME NEW i \in 1..Len(lines)
                 PROVE  rows[i].bytes \in Nat /\ rows[i].delta \in Int
    OBVIOUS
  <2>2. lines[i].bytes \in Nat
    BY <1>5
  <2>3. grown(lines[i]) \in Int
    BY <2>2
  <2>. QED
    BY <2>2, <2>3
<1>. HIDE DEF rows
<1>8. \A r \in ToSet(rows) : r.bytes \in Nat /\ r.delta \in Int
  BY <1>6, <1>7, Elements
<1>. QED
  BY <1>1, <1>6, <1>8

LEMMA SitesTyped ==
  ASSUME NEW nodes, IsSeq(nodes),
         \A n \in ToSet(nodes) : n.id \in Nat /\ n.parent \in NoId..(n.id - 1) /\ n.size \in Nat
  PROVE  TreeRows(AllocationRows(nodes))
<1>. DEFINE site(i) == [id |-> nodes[i].id, parent |-> nodes[i].parent, name |-> nodes[i].name,
                        bytes |-> nodes[i].size, depth |-> Depth(nodes[i].parent, nodes)]
            sites == [i \in 1..Len(nodes) |-> site(i)]
<1>2. AllocationRows(nodes) = sites
  BY Zenon DEF AllocationRows
<1>9. Len(nodes) \in Nat /\ \A i \in 1..Len(nodes) :
        /\ nodes[i].id \in Int /\ nodes[i].parent \in Int /\ nodes[i].parent < nodes[i].id
        /\ nodes[i].size \in Int
  <2>1. Len(nodes) \in Nat /\ \A i \in 1..Len(nodes) : nodes[i] \in ToSet(nodes)
    BY Elements
  <2>2. \A n \in ToSet(nodes) : n.id \in Nat /\ n.parent \in NoId..(n.id - 1) /\ n.size \in Nat
    OBVIOUS
  <2>. QED
    BY <2>1, <2>2 DEF NoId
<1>10. IsSeq(sites) /\ Len(sites) = Len(nodes)
  <2>1. PICK t : t = sites
    OBVIOUS
  <2>2. DOMAIN t = 1..Len(nodes) /\ t = [i \in 1..Len(nodes) |-> t[i]]
    BY <2>1
  <2>3. IsSeq(t) /\ Len(t) = Len(nodes)
    BY <1>9, <2>2, Listed
  <2>. QED
    BY <2>1, <2>3
<1>11. \A i \in 1..Len(nodes) : /\ sites[i].id = nodes[i].id /\ sites[i].parent = nodes[i].parent
                                /\ sites[i].bytes = nodes[i].size
  OBVIOUS
<1>. HIDE DEF sites
<1>12. TreeRows(sites)
  <2>1. ToSet(sites) = {sites[i] : i \in 1..Len(sites)}
    BY <1>10, Elements
  <2>. QED
    BY <1>9, <1>10, <1>11, <2>1 DEF TreeRows
<1>. QED
  BY <1>2, <1>12

LEMMA SizesTyped ==
  ASSUME NEW rows, \A r \in ToSet(rows) : r.bytes \in Nat
  PROVE  \A n \in DOMAIN Sizes(rows) : Sizes(rows)[n] \in Int
<1>1. SUFFICES ASSUME NEW n \in {r.name : r \in ToSet(rows)}
               PROVE  (CHOOSE r \in ToSet(rows) : r.name = n).bytes \in Int
  BY DEF Sizes
<1>2. \E r \in ToSet(rows) : r.name = n
  BY <1>1
<1>3. PICK r : r = CHOOSE x \in ToSet(rows) : x.name = n
  OBVIOUS
<1>4. r \in ToSet(rows)
  BY <1>2, <1>3
<1>. QED
  BY <1>3, <1>4

\* The rows kept of an agent's reply, and what they are made from.
LEMMA CpuReplyRows ==
  ASSUME NEW reply, CpuReply(reply), NEW limit \in Nat
  PROVE  LET rows == CpuRows(reply, limit)
         IN IsSeq(rows) /\ Len(rows) <= limit
<1>. DEFINE hot == reply.hotSpots
            row(h) == [id |-> MethodId(h.name, reply.nodes), name |-> h.name, sql |-> h.sql,
                       self |-> h.self]
            all == [i \in 1..Len(hot) |-> row(hot[i])]
            key == [i \in 1..Len(all) |-> all[i].self]
<1>1. CpuRows(reply, limit) = Truncate(Sorted(all, key), limit)
  BY Zenon DEF CpuRows, LargestFirst
<1>2. Len(hot) \in Nat /\ \A i \in 1..Len(hot) : hot[i].self \in Nat
  BY Elements DEF CpuReply
<1>3. IsSeq(all) /\ Len(all) = Len(hot)
  <2>1. PICK t : t = all
    OBVIOUS
  <2>2. DOMAIN t = 1..Len(hot) /\ t = [i \in 1..Len(hot) |-> t[i]]
    BY <2>1
  <2>3. IsSeq(t) /\ Len(t) = Len(hot)
    BY <1>2, <2>2, Listed
  <2>. QED
    BY <2>1, <2>3
<1>4. \A i \in 1..Len(all) : key[i] \in Int
  BY <1>2, <1>3
<1>. HIDE DEF all, key
<1>5. IsSeq(Sorted(all, key)) /\ Len(Sorted(all, key)) = Len(all)
  BY <1>2, <1>3, <1>4, SortedRows
<1>6. PICK s : s = Sorted(all, key)
  OBVIOUS
<1>7. IsSeq(s) /\ Len(s) \in Nat
  BY <1>5, <1>6, Elements
<1>8. IsSeq(Truncate(s, limit)) /\ Len(Truncate(s, limit)) <= limit
  BY <1>7, Truncated
<1>. QED
  BY <1>1, <1>6, <1>8

LEMMA ItemsShown ==
  ASSUME NEW c, CpuTable(c)
  PROVE  LET drawn == CpuItems(c.rows, c.edges, filter, c.expanded, ShownCallees)
         IN /\ IsSeq(NavigableItems(c)) /\ Len(NavigableItems(c)) \in Nat
            /\ IsSeq(drawn) /\ ToSet(drawn) \subseteq ToSet(NavigableItems(c))
            /\ AllDrawn(c) => drawn = NavigableItems(c)
<1>. DEFINE drawn == CpuItems(c.rows, c.edges, filter, c.expanded, ShownCallees)
            items == CpuItems(c.rows, c.edges, filter, c.expanded, Len(c.edges))
            methods == MethodRows(c.rows, filter)
            num(r, limit) == Shown(r, c.rows, c.edges, c.expanded, limit)
<1>1. IsSeq(c.rows) /\ IsSeq(c.edges) /\ Len(c.edges) \in Nat /\ ShownCallees \in Nat
  BY TuiAssumption, Elements DEF CpuTable
<1>2. /\ IsSeq(drawn) /\ \A r \in ToSet(methods) : num(r, ShownCallees) \in Nat
      /\ ToSet(drawn) = UNION {{[id |-> r.id, callee |-> k] : k \in 0..num(r, ShownCallees)} :
                                 r \in ToSet(methods)}
  BY <1>1, ItemRows
<1>3. /\ IsSeq(items) /\ \A r \in ToSet(methods) : num(r, Len(c.edges)) \in Nat
      /\ ToSet(items) = UNION {{[id |-> r.id, callee |-> k] : k \in 0..num(r, Len(c.edges))} :
                                 r \in ToSet(methods)}
  BY <1>1, ItemRows
<1>4. Len(items) \in Nat
  BY <1>3, Elements
<1>5. \A id : Len(Children(id, c.rows, c.edges)) \in Nat
              /\ Len(Children(id, c.rows, c.edges)) <= Len(c.edges)
  BY <1>1, ChildrenFew
<1>6. ASSUME NEW r  PROVE num(r, ShownCallees) <= num(r, Len(c.edges))
  <2>1. PICK n \in Nat : n = Len(Children(r.id, c.rows, c.edges)) /\ n <= Len(c.edges)
    BY <1>5
  <2>2. Min({ShownCallees, n}) <= Min({Len(c.edges), n})
    <3>1. n \in Int /\ ShownCallees \in Int /\ Len(c.edges) \in Int
      BY <1>1
    <3>2. /\ Min({ShownCallees, n}) = IF ShownCallees <= n THEN ShownCallees ELSE n
          /\ Min({Len(c.edges), n}) = IF Len(c.edges) <= n THEN Len(c.edges) ELSE n
      BY <3>1, MinMax
    <3>. QED
      BY <1>1, <2>1, <3>2
  <2>. QED
    BY <2>1, <2>2 DEF Shown
<1>. HIDE DEF items, drawn, methods
<1>7. ToSet(drawn) \subseteq ToSet(items)
  <2>1. SUFFICES ASSUME NEW r \in ToSet(methods), NEW k \in 0..num(r, ShownCallees)
                 PROVE  [id |-> r.id, callee |-> k] \in ToSet(items)
    BY <1>2
  <2>. HIDE DEF num
  <2>2. k \in 0..num(r, Len(c.edges))
    BY <1>2, <1>3, <1>6
  <2>. QED
    BY <1>3, <2>2
<1>8. ASSUME AllDrawn(c)  PROVE drawn = items
  <2>1. \A id \in c.expanded : Min({ShownCallees, Len(Children(id, c.rows, c.edges))})
                               = Min({Len(c.edges), Len(Children(id, c.rows, c.edges))})
    <3>1. SUFFICES ASSUME NEW id \in c.expanded
                   PROVE  Min({ShownCallees, Len(Children(id, c.rows, c.edges))})
                          = Min({Len(c.edges), Len(Children(id, c.rows, c.edges))})
      OBVIOUS
    <3>2. PICK n \in Nat : n = Len(Children(id, c.rows, c.edges)) /\ n <= Len(c.edges)
      BY <1>5
    <3>3. n <= ShownCallees
      BY <1>8, <3>2 DEF AllDrawn
    <3>4. n \in Int /\ ShownCallees \in Int /\ Len(c.edges) \in Int
      BY <1>1
    <3>5. /\ Min({ShownCallees, n}) = IF ShownCallees <= n THEN ShownCallees ELSE n
          /\ Min({Len(c.edges), n}) = IF Len(c.edges) <= n THEN Len(c.edges) ELSE n
      BY <3>4, MinMax
    <3>6. Min({ShownCallees, n}) = Min({Len(c.edges), n})
      BY <1>1, <3>2, <3>3, <3>5
    <3>. QED
      BY <3>2, <3>6
  <2>. DEFINE callees(r, limit) == IF r.id # NoId /\ r.id \in c.expanded
                                   THEN Min({limit, Len(Children(r.id, c.rows, c.edges))}) ELSE 0
              part(r, limit) == [i \in 1..(callees(r, limit) + 1) |-> [id |-> r.id, callee |-> i - 1]]
  <2>2. \A r : callees(r, ShownCallees) = callees(r, Len(c.edges))
    BY <2>1
  <2>3. /\ drawn = FlattenSeq([i \in 1..Len(methods) |-> part(methods[i], ShownCallees)])
        /\ items = FlattenSeq([i \in 1..Len(methods) |-> part(methods[i], Len(c.edges))])
    BY Zenon DEF drawn, items, methods, CpuItems
  <2>. HIDE DEF callees
  <2>4. \A r : part(r, ShownCallees) = part(r, Len(c.edges))
    BY <2>2
  <2>. HIDE DEF part
  <2>5. [i \in 1..Len(methods) |-> part(methods[i], ShownCallees)]
          = [i \in 1..Len(methods) |-> part(methods[i], Len(c.edges))]
    BY <2>4
  <2>. QED
    BY <2>3, <2>5
<1>. QED
  BY <1>2, <1>3, <1>4, <1>7, <1>8 DEF drawn, items, NavigableItems

----------------------------------------------------------------------------
(* The tables through a step.                                              *)

TablesOK ==
  /\ scenario \in Scenarios
  /\ MemoryTable(memory) /\ CpuTable(cpu)
  /\ Cursors(memory) /\ Cursors(cpu) /\ Cursors(db)

LEMMA AnswerSteps ==
  ASSUME TablesOK, MemoryOK
  PROVE  /\ \A reply \in scenario.memory : MemoryAnswer(reply) =>
              /\ MemoryTable(memory') /\ Cursors(memory')
              /\ view = "Allocations" /\ VisibleSites(memory') # <<>> =>
                   OnPage(memory', Len(VisibleSites(memory')))
         /\ \A reply \in scenario.cpu : CpuAnswer(reply) =>
              /\ CpuTable(cpu') /\ Cursors(cpu') /\ Cursors(db')
              /\ NavigableItems(cpu') # <<>> => OnPage(cpu', Len(NavigableItems(cpu')))
              /\ StatementRows(cpu'.rows, filter) # <<>> =>
                   OnPage(db', Len(StatementRows(cpu'.rows, filter)))
<1>1. ASSUME NEW reply \in scenario.memory, MemoryAnswer(reply)
      PROVE  /\ MemoryTable(memory') /\ Cursors(memory')
             /\ view = "Allocations" /\ VisibleSites(memory') # <<>> =>
                  OnPage(memory', Len(VisibleSites(memory')))
  <2>1. PICK q \in memoryQuery, sites \in AllocationHotspots : MemoryAnswer(reply)!(q, sites)
    BY <1>1 DEF MemoryAnswer
  <2>. DEFINE rows  == Compared(Histogram(reply.lines), q.previous)
              names == {r.name : r \in ToSet(rows)}
              bytes(n) == (CHOOSE r \in ToSet(rows) : r.name = n).bytes
              sizes == [n \in names |-> bytes(n)]
              tree  == AllocationRows(sites)
              new   == [memory EXCEPT !.rows = rows, !.tree = tree, !.previous = sizes,
                                      !.of = q.jvm]
              passing == {i \in 1..Len(rows) : Passes(filter, rows[i].name)}
              count == IF view = "Allocations" THEN Len(VisibleSites(new))
                       ELSE Len(At(rows, passing))
  <2>2. memory' = KeepVisible(Clamped(new, count))
    BY <2>1, Zenon DEF Those
  <2>3. \A n \in DOMAIN q.previous : q.previous[n] \in Int
    <3>1. q.previous = Sizes(memory.rows) /\ \A r \in ToSet(memory.rows) : r.bytes \in Nat
      BY DEF MemoryOK, ComparedWithShown, TablesOK, MemoryTable
    <3>. QED
      BY <3>1, SizesTyped
  <2>4. MemoryReply(reply)
    BY TuiAssumption DEF TablesOK
  <2>5. /\ IsSeq(rows) /\ \A r \in ToSet(rows) : r.bytes \in Nat /\ r.delta \in Int
        /\ TreeRows(tree)
    <3>1. IsSeq(rows) /\ \A r \in ToSet(rows) : r.bytes \in Nat /\ r.delta \in Int
      BY <2>3, <2>4, HistogramTyped
    <3>2. \A other \in scenario.memory : MemoryReply(other)
      BY TuiAssumption DEF TablesOK
    <3>3. IsSeq(<<>>) /\ ToSet(<<>>) = {}
      BY DEF IsSeq, ToSet
    <3>4. IsSeq(sites) /\ \A n \in ToSet(sites) :
            n.id \in Nat /\ n.parent \in NoId..(n.id - 1) /\ n.size \in Nat
      BY <2>1, <3>2, <3>3 DEF AllocationHotspots, MemoryReply
    <3>. QED
      BY <3>1, <3>4, SitesTyped
  <2>. HIDE DEF rows, tree, sizes
  <2>6. MemoryTable(new) /\ Cursors(new)
    BY <2>5 DEF TablesOK, MemoryTable, Cursors
  <2>. HIDE DEF new
  <2>7. count \in Nat
    <3>1. Len(VisibleSites(new)) \in Nat
      BY <2>6, SitesShown
    <3>2. Len(At(rows, passing)) \in Nat
      <4>1. passing \in SUBSET (1..Len(rows))
        OBVIOUS
      <4>. HIDE DEF passing
      <4>. QED
        BY <2>5, <4>1, PickedRows, Zenon
    <3>. HIDE DEF passing
    <3>. QED
      BY <3>1, <3>2
  <2>. HIDE DEF count
  <2>8. /\ Cursors(memory') /\ CursorOnly(new, memory')
        /\ count # 0 => OnPage(memory', count)
    BY <2>2, <2>6, <2>7, CursorAnswered
  <2>9. MemoryTable(memory') /\ VisibleSites(memory') = VisibleSites(new)
    BY <2>6, <2>8, OtherCursor
  <2>10. ASSUME view = "Allocations", VisibleSites(memory') # <<>>
         PROVE  OnPage(memory', Len(VisibleSites(memory')))
    <3>1. count = Len(VisibleSites(memory'))
      BY <2>9, <2>10 DEF count
    <3>2. Len(VisibleSites(memory')) # 0
      <4>1. IsSeq(VisibleSites(memory'))
        BY <2>9, SitesShown
      <4>. QED
        BY <2>10, <4>1 DEF IsSeq
    <3>. QED
      BY <2>8, <3>1, <3>2
  <2>. QED
    BY <2>8, <2>9, <2>10
<1>2. ASSUME NEW reply \in scenario.cpu, CpuAnswer(reply)
      PROVE  /\ CpuTable(cpu') /\ Cursors(cpu') /\ Cursors(db')
             /\ NavigableItems(cpu') # <<>> => OnPage(cpu', Len(NavigableItems(cpu')))
             /\ StatementRows(cpu'.rows, filter) # <<>> =>
                  OnPage(db', Len(StatementRows(cpu'.rows, filter)))
  <2>. DEFINE rows == CpuRows(reply, RowLimit)
              new  == [cpu EXCEPT !.rows = rows, !.edges = reply.edges]
              count == Len(NavigableItems(new))
              lines == StatementRows(rows, filter)
  <2>1. cpu' = KeepVisible(Clamped(new, count)) /\ db' = KeepVisible(Clamped(db, Len(lines)))
    BY <1>2, Zenon DEF CpuAnswer
  <2>2. CpuReply(reply) /\ RowLimit \in Nat
    BY TuiAssumption DEF TablesOK
  <2>3. IsSeq(rows) /\ Len(rows) <= RowLimit /\ IsSeq(reply.edges)
    BY <2>2, CpuReplyRows DEF CpuReply
  <2>. HIDE DEF rows
  <2>4. CpuTable(new) /\ Cursors(new) /\ new.rows = rows
    BY <2>3 DEF TablesOK, CpuTable, Cursors
  <2>. HIDE DEF new
  <2>5. count \in Nat
    BY <2>4, ItemsShown
  <2>6. IsSeq(lines) /\ Len(lines) \in Nat
    BY <2>3, StatementsShown
  <2>. HIDE DEF count, lines
  <2>7. /\ Cursors(cpu') /\ CursorOnly(new, cpu')
        /\ count # 0 => OnPage(cpu', count)
    BY <2>1, <2>4, <2>5, CursorAnswered
  <2>8. Cursors(db') /\ (Len(lines) # 0 => OnPage(db', Len(lines)))
    BY <2>1, <2>6, CursorAnswered DEF TablesOK
  <2>9. /\ CpuTable(cpu') /\ cpu'.rows = new.rows /\ cpu'.edges = new.edges
        /\ cpu'.expanded = new.expanded
    BY <2>4, <2>7, OtherCursor
  <2>10. NavigableItems(cpu') = NavigableItems(new)
    BY <2>9 DEF NavigableItems
  <2>11. StatementRows(cpu'.rows, filter) = lines
    BY <2>4, <2>9 DEF lines
  <2>12. ASSUME NavigableItems(cpu') # <<>>
         PROVE  OnPage(cpu', Len(NavigableItems(cpu')))
    <3>1. count = Len(NavigableItems(cpu'))
      BY <2>10 DEF count
    <3>2. IsSeq(NavigableItems(cpu'))
      BY <2>9, ItemsShown
    <3>3. Len(NavigableItems(cpu')) # 0
      BY <2>12, <3>2 DEF IsSeq
    <3>. QED
      BY <2>7, <3>1, <3>3
  <2>13. ASSUME lines # <<>>  PROVE OnPage(db', Len(lines))
    <3>1. Len(lines) # 0
      BY <2>6, <2>13 DEF IsSeq
    <3>. QED
      BY <2>8, <3>1
  <2>. QED
    BY <2>7, <2>8, <2>9, <2>11, <2>12, <2>13
<1>. QED
  BY <1>1, <1>2

LEMMA TableEdits ==
  ASSUME NEW t, NEW x
  PROVE  /\ MemoryTable(t) => /\ MemoryTable([t EXCEPT !.expanded = x])
                              /\ MemoryTable([t EXCEPT !.loaded = x])
         /\ CpuTable(t) => CpuTable([t EXCEPT !.expanded = x])
         /\ Cursors(t) => /\ Cursors([t EXCEPT !.expanded = x])
                          /\ Cursors([t EXCEPT !.loaded = x])
<1>1. MemoryTable(t) => MemoryTable([t EXCEPT !.expanded = x])
  BY DEF MemoryTable
<1>2. MemoryTable(t) => MemoryTable([t EXCEPT !.loaded = x])
  BY DEF MemoryTable
<1>3. CpuTable(t) => CpuTable([t EXCEPT !.expanded = x])
  BY DEF CpuTable
<1>4. Cursors(t) => Cursors([t EXCEPT !.expanded = x]) /\ Cursors([t EXCEPT !.loaded = x])
  BY DEF Cursors
<1>. QED
  BY <1>1, <1>2, <1>3, <1>4

LEMMA Deltas == \A k \in DOMAIN Delta : Delta[k] \in Int /\ Delta[k] # 0
BY TuiAssumption DEF Delta

\* A way up or down in a table puts the cursor where a row is, if there was one.
LEMMA MoveSteps ==
  ASSUME TablesOK, NEW delta \in Int, MoveInTable(delta)
  PROVE  /\ TablesOK'
         /\ \/ /\ MethodTable /\ CursorOnly(cpu, cpu')
               /\ LET count == Len(NavigableItems(cpu))
                  IN count # 0 /\ (delta < 0 => cpu.sel < count) => OnPage(cpu', count)
               /\ UNCHANGED <<memory, db>>
            \/ /\ SiteTable /\ CursorOnly(memory, memory')
               /\ LET count == Len(VisibleSites(memory))
                  IN count # 0 /\ (delta < 0 => memory.sel < count) => OnPage(memory', count)
               /\ UNCHANGED <<cpu, db>>
            \/ /\ StatementTable
               /\ LET count == Len(StatementRows(cpu.rows, filter))
                  IN count # 0 /\ (delta < 0 => db.sel < count) => OnPage(db', count)
               /\ UNCHANGED <<memory, cpu>>
<1>1. scenario' = scenario
  BY DEF MoveInTable
<1>2. CASE MethodTable /\ cpu' = Moved(cpu, delta, Len(NavigableItems(cpu))) /\ UNCHANGED <<memory, db>>
  <2>1. PICK count \in Nat : count = Len(NavigableItems(cpu))
    BY ItemsShown DEF TablesOK
  <2>2. /\ Cursors(cpu') /\ CursorOnly(cpu, cpu')
        /\ count # 0 /\ (delta < 0 => cpu.sel < count) => OnPage(cpu', count)
    BY <1>2, <2>1, CursorMoved DEF TablesOK
  <2>3. CpuTable(cpu')
    BY <2>2, OtherCursor DEF TablesOK
  <2>. QED
    BY <1>1, <1>2, <2>1, <2>2, <2>3 DEF TablesOK
<1>3. CASE SiteTable /\ memory' = Moved(memory, delta, Len(VisibleSites(memory))) /\ UNCHANGED <<cpu, db>>
  <2>1. PICK count \in Nat : count = Len(VisibleSites(memory))
    BY SitesShown DEF TablesOK
  <2>2. /\ Cursors(memory') /\ CursorOnly(memory, memory')
        /\ count # 0 /\ (delta < 0 => memory.sel < count) => OnPage(memory', count)
    BY <1>3, <2>1, CursorMoved DEF TablesOK
  <2>3. MemoryTable(memory')
    BY <2>2, OtherCursor DEF TablesOK
  <2>. QED
    BY <1>1, <1>3, <2>1, <2>2, <2>3 DEF TablesOK
<1>4. CASE /\ StatementTable /\ UNCHANGED <<memory, cpu>>
           /\ db' = Moved(db, delta, Len(StatementRows(cpu.rows, filter)))
  <2>1. PICK count \in Nat : count = Len(StatementRows(cpu.rows, filter))
    BY StatementsShown DEF TablesOK, CpuTable
  <2>2. /\ Cursors(db')
        /\ count # 0 /\ (delta < 0 => db.sel < count) => OnPage(db', count)
    BY <1>4, <2>1, CursorMoved DEF TablesOK
  <2>. QED
    BY <1>1, <1>4, <2>1, <2>2 DEF TablesOK
<1>. QED
  BY <1>2, <1>3, <1>4 DEF MoveInTable

LEMMA TablesInit ==
  ASSUME Init  PROVE TablesOK
<1>1. IsSeq(<<>>) /\ ToSet(<<>>) = {} /\ Len(<<>>) = 0
  BY DEF IsSeq, ToSet
<1>2. 0 <= RowLimit
  BY TuiAssumption
<1>3. MemoryTable(memory) /\ Cursors(memory)
  <2>1. /\ memory.rows = <<>> /\ memory.tree = <<>> /\ memory.mark = {}
        /\ memory.sel = 0 /\ memory.off = 0
        /\ {"rows", "tree", "mark", "expanded", "sel", "off"} \subseteq DOMAIN memory
    BY DEF Init
  <2>2. \E f : {} \subseteq {f} /\ \A n \in DOMAIN f : f[n] \in Int
    <3>1. \A n \in DOMAIN <<>> : <<>>[n] \in Int
      OBVIOUS
    <3>. QED
      BY <3>1
  <2>. QED
    BY <1>1, <2>1, <2>2 DEF MemoryTable, Cursors, TreeRows
<1>4. CpuTable(cpu) /\ Cursors(cpu) /\ Cursors(db)
  BY <1>1, <1>2 DEF Init, CpuTable, Cursors, Cursor
<1>. QED
  BY <1>3, <1>4 DEF Init, TablesOK

LEMMA TablesStep ==
  ASSUME TablesOK, MemoryOK, [Next]_vars
  PROVE  TablesOK'
<1>1. ASSUME UNCHANGED <<scenario, memory, cpu, db>>  PROVE TablesOK'
  BY <1>1 DEF TablesOK, MemoryTable, CpuTable, Cursors
<1>2. ASSUME \/ JvmsAnswer \/ TelemetryAnswer \/ MemoryError \/ CpuError \/ Recorded \/ Sideways
             \/ StartSession \/ OpenItem \/ Jump \/ SwitchFocus \/ ToggleHelp \/ EnterFilter
             \/ TypeFilter \/ UNCHANGED vars
      PROVE  UNCHANGED <<scenario, memory, cpu, db>>
  BY <1>2 DEF JvmsAnswer, TelemetryAnswer, MemoryError, CpuError, Recorded, Sideways,
              StartSession, OpenItem, Jump, SwitchFocus, ToggleHelp, EnterFilter, TypeFilter,
              vars, tables
<1>3. ASSUME NEW x, UNCHANGED <<scenario, cpu, db>>,
             \/ memory' = memory
             \/ memory' = [memory EXCEPT !.loaded = x]
             \/ memory' = [memory EXCEPT !.expanded = x]
      PROVE  TablesOK'
  <2>1. /\ MemoryTable(memory) /\ Cursors(memory)
        /\ MemoryTable([memory EXCEPT !.expanded = x]) /\ Cursors([memory EXCEPT !.expanded = x])
        /\ MemoryTable([memory EXCEPT !.loaded = x]) /\ Cursors([memory EXCEPT !.loaded = x])
    BY TableEdits DEF TablesOK
  <2>2. MemoryTable(memory') /\ Cursors(memory')
    BY <1>3, <2>1, Zenon
  <2>. QED
    BY <1>3, <2>2 DEF TablesOK
<1>4. ASSUME NEW x, UNCHANGED <<scenario, memory, db>>,
             cpu' = cpu \/ cpu' = [cpu EXCEPT !.expanded = x]
      PROVE  TablesOK'
  <2>1. /\ CpuTable(cpu) /\ Cursors(cpu)
        /\ CpuTable([cpu EXCEPT !.expanded = x]) /\ Cursors([cpu EXCEPT !.expanded = x])
    BY TableEdits DEF TablesOK
  <2>2. CpuTable(cpu') /\ Cursors(cpu')
    BY <1>4, <2>1, Zenon
  <2>. QED
    BY <1>4, <2>2 DEF TablesOK
<1>5. ASSUME NEW due \in BOOLEAN, AutoUpdate(due)  PROVE TablesOK'
  BY <1>3, <1>5 DEF AutoUpdate, AskMemory
<1>6. ASSUME Refresh  PROVE TablesOK'
  BY <1>3, <1>6 DEF Refresh, AskMemory
<1>7. ASSUME Move  PROVE TablesOK'
  <2>1. PICK k \in DOMAIN Delta :
          SelectJvm(Delta[k]) \/ MoveInTable(Delta[k]) \/ MoveInSidebar(Delta[k])
    BY <1>7 DEF Move
  <2>2. CASE SelectJvm(Delta[k])
    <3>1. /\ UNCHANGED <<scenario, memory, db>>
          /\ cpu' = [cpu EXCEPT !.rows = <<>>, !.edges = <<>>, !.expanded = {}, !.sel = 0]
      BY <2>2 DEF SelectJvm
    <3>2. IsSeq(<<>>) /\ Len(<<>>) = 0 /\ 0 <= RowLimit
      BY TuiAssumption DEF IsSeq, ToSet
    <3>3. CpuTable(cpu') /\ Cursors(cpu')
      BY <3>1, <3>2 DEF TablesOK, CpuTable, Cursors
    <3>. QED
      BY <3>1, <3>3 DEF TablesOK
  <2>3. CASE MoveInTable(Delta[k])
    BY <2>3, MoveSteps, Deltas
  <2>4. CASE MoveInSidebar(Delta[k])
    BY <1>1, <2>4 DEF MoveInSidebar, tables
  <2>. QED
    BY <2>1, <2>2, <2>3, <2>4
<1>8. ASSUME Expand  PROVE TablesOK'
  <2>. DEFINE new == [memory EXCEPT !.expanded = Toggled(@, SelectedSite)]
  <2>1. CASE MethodTable /\ memory' = memory
             /\ (cpu' = cpu \/ cpu' = [cpu EXCEPT !.expanded = Toggled(@, SelectedMethod)])
    BY <1>4, <1>8, <2>1 DEF Expand
  <2>2. CASE cpu' = cpu /\ (memory' = memory \/ memory' = Clamped(new, Len(VisibleSites(new))))
    <3>1. MemoryTable(new) /\ Cursors(new)
      BY TableEdits DEF TablesOK
    <3>. HIDE DEF new
    <3>2. PICK count \in Nat : count = Len(VisibleSites(new))
      BY <3>1, SitesShown
    <3>3. Cursors(Clamped(new, count)) /\ CursorOnly(new, Clamped(new, count))
      BY <3>1, CursorClamped
    <3>4. MemoryTable(Clamped(new, count))
      BY <3>1, <3>3, OtherCursor
    <3>5. UNCHANGED <<scenario, db>>
      BY <1>8 DEF Expand
    <3>. QED
      BY <1>1, <2>2, <3>2, <3>3, <3>4, <3>5 DEF TablesOK
  <2>. QED
    BY <1>8, <2>1, <2>2 DEF Expand
<1>9. ASSUME Collapse  PROVE TablesOK'
  BY <1>3, <1>4, <1>9 DEF Collapse
<1>10. ASSUME MarkHeap  PROVE TablesOK'
  <2>1. UNCHANGED <<scenario, cpu, db>> /\ memory' = [memory EXCEPT !.mark = {memory.previous}]
    BY <1>10 DEF MarkHeap
  <2>2. \A n \in DOMAIN memory.previous : memory.previous[n] \in Int
    <3>1. memory.previous = Sizes(memory.rows) /\ \A r \in ToSet(memory.rows) : r.bytes \in Nat
      BY DEF MemoryOK, ComparedWithShown, TablesOK, MemoryTable
    <3>. QED
      BY <3>1, SizesTyped
  <2>3. PICK p : p = memory.previous
    OBVIOUS
  <2>4. memory' = [memory EXCEPT !.mark = {p}] /\ \A n \in DOMAIN p : p[n] \in Int
    BY <2>1, <2>2, <2>3
  <2>5. \E f : {p} \subseteq {f} /\ \A n \in DOMAIN f : f[n] \in Int
    BY <2>4
  <2>6. MemoryTable(memory') /\ Cursors(memory')
    BY <2>4, <2>5 DEF TablesOK, MemoryTable, Cursors
  <2>. QED
    BY <2>1, <2>6 DEF TablesOK
<1>11. ASSUME NEW reply \in scenario.memory, MemoryAnswer(reply)  PROVE TablesOK'
  <2>1. UNCHANGED <<scenario, cpu, db>>
    BY <1>11 DEF MemoryAnswer
  <2>2. MemoryTable(memory') /\ Cursors(memory')
    BY <1>11, AnswerSteps
  <2>. QED
    BY <2>1, <2>2 DEF TablesOK
<1>12. ASSUME NEW reply \in scenario.cpu, CpuAnswer(reply)  PROVE TablesOK'
  <2>1. UNCHANGED <<scenario, memory>>
    BY <1>12 DEF CpuAnswer
  <2>2. CpuTable(cpu') /\ Cursors(cpu') /\ Cursors(db')
    BY <1>12, AnswerSteps
  <2>. QED
    BY <2>1, <2>2 DEF TablesOK
<1>. QED
  BY <1>1, <1>2, <1>5, <1>6, <1>7, <1>8, <1>9, <1>10, <1>11, <1>12 DEF Next, Poll, HandleKey

LEMMA TablesHold == Spec => []TablesOK
BY TablesInit, TablesStep, MemoryHolds, PTL DEF Spec

----------------------------------------------------------------------------
(* The types.                                                              *)

LEMMA SamplesFew ==
  ASSUME NEW s, IsSeq(s), NEW x
  PROVE  Len(Window(s, x)) <= SampleLimit
<1>. PICK all : all = Append(s, x)
  OBVIOUS
<1>1. s \in Seq(ToSet(s) \cup {x}) /\ Len(s) \in Nat
  BY Elements DEF IsSeq
<1>2. all \in Seq(ToSet(s) \cup {x}) /\ Len(all) = Len(s) + 1 /\ Len(all) \in Nat
  BY <1>1, AppendProperties
<1>3. PICK b \in Int : b = Len(all) - SampleLimit + 1
  BY <1>2, TuiAssumption
<1>4. PICK low : low = Max({1, b})
  OBVIOUS
<1>5. low = IF 1 <= b THEN b ELSE 1
  <2>1. 1 \in Int /\ b \in Int
    OBVIOUS
  <2>2. Max({1, b}) = IF 1 <= b THEN b ELSE 1
    BY <2>1, MinMax
  <2>. QED
    BY <1>4, <2>2
<1>6. low \in 1..Len(all) /\ Len(all) - low + 1 <= SampleLimit
  BY <1>2, <1>3, <1>5, TuiAssumption
<1>7. Len(Suffix(all, low)) = Len(all) - low + 1
  BY <1>2, <1>6, LastOf
<1>. QED
  BY <1>3, <1>4, <1>6, <1>7 DEF Window

LEMMA DefaultIn ==
  ASSUME NEW S, NEW list \in Seq(S), NEW current
  PROVE  Default(list, current) \in S \cup {current}
<1>. DEFINE demos == {i \in 1..Len(list) : list[i] \in Demo}
<1>1. Len(list) \in Nat /\ \A i \in 1..Len(list) : list[i] \in S
  OBVIOUS
<1>2. CASE current # None \/ list = <<>>
  BY <1>2, Zenon DEF Default
<1>3. CASE ~(current # None \/ list = <<>>) /\ demos # {}
  <2>1. demos \in SUBSET Nat
    BY <1>1
  <2>2. Default(list, current) = list[FirstOf(demos)]
    BY <1>3, Zenon DEF Default
  <2>3. \E i \in demos : \A j \in demos : i <= j
    <3>. HIDE DEF demos
    <3>. QED
      BY <1>3, <2>1, LeastElement
  <2>4. FirstOf(demos) \in demos
    BY <2>3 DEF FirstOf
  <2>. QED
    BY <1>1, <2>2, <2>4
<1>4. CASE ~(current # None \/ list = <<>>) /\ demos = {}
  <2>1. Default(list, current) = Head(list)
    BY <1>4, Zenon DEF Default
  <2>2. list # <<>>
    BY <1>4
  <2>. QED
    BY <2>1, <2>2
<1>. QED
  BY <1>2, <1>3, <1>4

LEMMA TargetsOf ==
  ASSUME NEW list \in Seq(Jvms)
  PROVE  Targets(list) \in Seq(Jvms \ Tools)
<1>. DEFINE places == {i \in 1..Len(list) : list[i] \notin Tools}
<1>1. Targets(list) = At(list, places)
  BY Zenon DEF Targets, Those
<1>2. IsSeq(list) /\ \A i \in places : list[i] \in Jvms \ Tools
  <2>1. list \in [1..Len(list) -> Jvms] /\ Len(list) \in Nat
    OBVIOUS
  <2>2. PICK n \in Nat : n = Len(list) /\ DOMAIN list = 1..n /\ list = [i \in 1..n |-> list[i]]
    BY <2>1
  <2>. QED
    BY <2>1, <2>2, Listed
<1>3. places \in SUBSET (1..Len(list))
  OBVIOUS
<1>. HIDE DEF places
<1>4. IsSeq(At(list, places)) /\ ToSet(At(list, places)) = {list[i] : i \in places}
  BY <1>2, <1>3, PickedRows, Zenon
<1>5. ToSet(At(list, places)) \subseteq Jvms \ Tools
  BY <1>2, <1>4
<1>. QED
  BY <1>1, <1>4, <1>5 DEF IsSeq

LEMMA SelectIn ==
  ASSUME NEW delta \in Int, SelectJvm(delta), IsSeq(jvms)
  PROVE  \E i \in 1..Len(jvms) : selected' = jvms[i]
<1>. DEFINE at == {i \in 1..Len(jvms) : jvms[i] = selected}
            start == IF at # {} THEN FirstOf(at) - 1 ELSE IF delta > 0 THEN -1 ELSE 1
<1>1. selected' = jvms[((start + delta) % Len(jvms)) + 1] /\ jvms # <<>>
  BY Zenon DEF SelectJvm
<1>2. Len(jvms) \in Nat \ {0}
  BY <1>1, Elements DEF IsSeq
<1>3. start \in Int
  <2>1. CASE at # {}
    <3>1. at \in SUBSET Nat
      BY <1>2
    <3>2. \E i \in at : \A j \in at : i <= j
      <4>. HIDE DEF at
      <4>. QED
        BY <2>1, <3>1, LeastElement
    <3>3. FirstOf(at) \in at
      BY <3>2 DEF FirstOf
    <3>. QED
      BY <2>1, <3>1, <3>3
  <2>2. CASE at = {}
    BY <2>2
  <2>. QED
    BY <2>1, <2>2
<1>. HIDE DEF start
<1>4. PICK x \in Int : x = start + delta
  BY <1>3
<1>5. PICK n \in Nat \ {0} : n = Len(jvms)
  BY <1>2
<1>6. x % n \in 0..(n - 1)
  OBVIOUS
<1>7. (x % n) + 1 \in 1..n
  BY <1>6
<1>. QED
  BY <1>1, <1>4, <1>5, <1>7

\* The conjuncts of TypeOK that no table has a part in.
InputTypes ==
  /\ focus \in {"sidebar", "main"} /\ mode \in {"normal", "filter"} /\ help \in BOOLEAN
  /\ filter \in Seq(Letters) /\ Len(filter) <= FilterLimit
  /\ recording \in BOOLEAN
  /\ (help => mode = "normal")

JvmTypes == jvms \in Seq(Jvms \ Tools) /\ selected \in (Jvms \ Tools) \cup {None}

QueryTypes ==
  /\ Len(telemetry.samples) <= SampleLimit
  /\ telemetryQuery = {} \/ \E q : telemetryQuery = {q}
  /\ memoryQuery = {} \/ \E q : memoryQuery = {q}

LEMMA InputTypesStep ==
  ASSUME InputTypes, [Next]_vars
  PROVE  InputTypes'
<1>1. ASSUME UNCHANGED <<focus, mode, help, filter, recording>>  PROVE InputTypes'
  BY <1>1 DEF InputTypes
<1>2. ASSUME \/ JvmsAnswer \/ TelemetryAnswer
             \/ (\E reply \in scenario.memory : MemoryAnswer(reply))
             \/ (\E reply \in scenario.cpu : CpuAnswer(reply)) \/ MemoryError \/ CpuError
             \/ (\E due \in BOOLEAN : AutoUpdate(due)) \/ UNCHANGED vars
      PROVE  UNCHANGED <<focus, mode, help, filter, recording>>
  BY <1>2 DEF JvmsAnswer, TelemetryAnswer, MemoryAnswer, CpuAnswer, MemoryError, CpuError,
              AutoUpdate, vars, nav, input
<1>3. ASSUME \/ Expand \/ Collapse \/ Sideways \/ StartSession \/ OpenItem \/ Jump \/ Refresh
             \/ MarkHeap
      PROVE  UNCHANGED <<focus, mode, help, filter, recording>>
  BY <1>3 DEF Expand, Collapse, Sideways, StartSession, OpenItem, Jump, Refresh, MarkHeap, nav,
              input
<1>4. ASSUME Move  PROVE UNCHANGED <<focus, mode, help, filter, recording>>
  <2>1. PICK k \in DOMAIN Delta :
          SelectJvm(Delta[k]) \/ MoveInTable(Delta[k]) \/ MoveInSidebar(Delta[k])
    BY <1>4 DEF Move
  <2>. QED
    BY <2>1 DEF SelectJvm, MoveInTable, MoveInSidebar, nav, input
<1>5. ASSUME Recorded  PROVE InputTypes'
  BY <1>5 DEF Recorded, nav, input, InputTypes
<1>6. ASSUME SwitchFocus  PROVE InputTypes'
  BY <1>6 DEF SwitchFocus, input, InputTypes
<1>7. ASSUME ToggleHelp  PROVE InputTypes'
  BY <1>7 DEF ToggleHelp, nav, InputTypes
<1>8. ASSUME EnterFilter  PROVE InputTypes'
  <2>1. <<>> \in Seq(Letters) /\ Len(<<>>) <= FilterLimit
    BY TuiAssumption
  <2>2. help' = FALSE
    BY <1>8 DEF EnterFilter, Key, InputTypes
  <2>. QED
    BY <1>8, <2>1, <2>2 DEF EnterFilter, nav, InputTypes
<1>9. ASSUME TypeFilter  PROVE InputTypes'
  <2>1. filter' \in Seq(Letters) /\ Len(filter') <= FilterLimit
    <3>0. filter \in Seq(Letters) /\ Len(filter) <= FilterLimit /\ FilterLimit \in Nat
      BY TuiAssumption DEF InputTypes
    <3>1. ASSUME NEW l \in Letters, Len(filter) < FilterLimit
          PROVE  Append(filter, l) \in Seq(Letters) /\ Len(Append(filter, l)) <= FilterLimit
      BY <3>0, <3>1, AppendProperties
    <3>2. ASSUME filter # <<>>
          PROVE  Front(filter) \in Seq(Letters) /\ Len(Front(filter)) <= FilterLimit
      <4>1. PICK n \in Nat : n = Len(filter) - 1
        BY <3>0, <3>2
      <4>2. \A i \in 1..n : i \in 1..Len(filter) /\ filter[i] \in Letters
        BY <3>0, <4>1
      <4>3. Front(filter) = SubSeq(filter, 1, n)
        BY <4>1 DEF Front
      <4>4. SubSeq(filter, 1, n) = [i \in 1..n |-> filter[i]]
        BY <3>0, <4>1
      <4>5. PICK t : t = [i \in 1..n |-> filter[i]]
        OBVIOUS
      <4>6. t \in [1..n -> Letters]
        BY <4>2, <4>5
      <4>7. t \in Seq(Letters) /\ Len(t) = n
        BY <4>6
      <4>. QED
        BY <3>0, <4>1, <4>3, <4>4, <4>5, <4>7
    <3>3. \/ \E l \in Letters : Len(filter) < FilterLimit /\ filter' = Append(filter, l)
          \/ filter # <<>> /\ filter' = Front(filter)
          \/ filter' = filter
      BY <1>9 DEF TypeFilter
    <3>. QED
      BY <3>0, <3>1, <3>2, <3>3
  <2>2. UNCHANGED <<focus, help, recording>> /\ mode' \in {"normal", "filter"} /\ ~help'
    BY <1>9 DEF TypeFilter, InputTypes, nav
  <2>. QED
    BY <2>1, <2>2 DEF InputTypes
<1>. QED
  BY <1>1, <1>2, <1>3, <1>4, <1>5, <1>6, <1>7, <1>8, <1>9 DEF Next, Poll, HandleKey

LEMMA JvmTypesStep ==
  ASSUME JvmTypes, TablesOK, [Next]_vars
  PROVE  JvmTypes'
<1>1. ASSUME UNCHANGED <<jvms, selected>>  PROVE JvmTypes'
  BY <1>1 DEF JvmTypes
<1>2. ASSUME \/ TelemetryAnswer
             \/ (\E reply \in scenario.memory : MemoryAnswer(reply))
             \/ (\E reply \in scenario.cpu : CpuAnswer(reply)) \/ MemoryError \/ CpuError
             \/ Recorded \/ (\E due \in BOOLEAN : AutoUpdate(due)) \/ UNCHANGED vars
      PROVE  UNCHANGED <<jvms, selected>>
  BY <1>2 DEF TelemetryAnswer, MemoryAnswer, CpuAnswer, MemoryError, CpuError, Recorded,
              AutoUpdate, vars
<1>3. ASSUME \/ Expand \/ Collapse \/ Sideways \/ OpenItem \/ Jump \/ SwitchFocus \/ Refresh
             \/ MarkHeap \/ ToggleHelp \/ EnterFilter \/ TypeFilter
      PROVE  UNCHANGED <<jvms, selected>>
  BY <1>3 DEF Expand, Collapse, Sideways, OpenItem, Jump, SwitchFocus, Refresh, MarkHeap,
              ToggleHelp, EnterFilter, TypeFilter
<1>4. ASSUME StartSession  PROVE JvmTypes'
  <2>1. Default(jvms, selected) \in (Jvms \ Tools) \cup {selected}
    BY DefaultIn DEF JvmTypes
  <2>. QED
    BY <1>4, <2>1 DEF StartSession, JvmTypes
<1>5. ASSUME JvmsAnswer  PROVE JvmTypes'
  <2>1. CASE UNCHANGED <<jvms, selected>>
    BY <1>1, <2>1
  <2>2. CASE \E list \in scenario.lists :
               jvms' = Targets(list) /\ selected' = Default(Targets(list), selected)
    <3>1. PICK list \in scenario.lists :
                 jvms' = Targets(list) /\ selected' = Default(Targets(list), selected)
      BY <2>2
    <3>2. list \in Seq(Jvms)
      BY <3>1, TuiAssumption DEF TablesOK
    <3>3. Targets(list) \in Seq(Jvms \ Tools)
      BY <3>2, TargetsOf
    <3>4. Default(Targets(list), selected) \in (Jvms \ Tools) \cup {selected}
      BY <3>3, DefaultIn
    <3>. QED
      BY <3>1, <3>3, <3>4 DEF JvmTypes
  <2>. QED
    BY <1>5, <2>1, <2>2 DEF JvmsAnswer
<1>6. ASSUME Move  PROVE JvmTypes'
  <2>1. PICK k \in DOMAIN Delta :
          SelectJvm(Delta[k]) \/ MoveInTable(Delta[k]) \/ MoveInSidebar(Delta[k])
    BY <1>6 DEF Move
  <2>2. CASE MoveInTable(Delta[k]) \/ MoveInSidebar(Delta[k])
    BY <1>1, <2>2 DEF MoveInTable, MoveInSidebar
  <2>3. CASE SelectJvm(Delta[k])
    <3>1. IsSeq(jvms) /\ \A i \in 1..Len(jvms) : jvms[i] \in Jvms \ Tools
      <4>1. jvms \in [1..Len(jvms) -> Jvms \ Tools] /\ Len(jvms) \in Nat
        BY DEF JvmTypes
      <4>2. PICK n \in Nat : n = Len(jvms) /\ DOMAIN jvms = 1..n /\ jvms = [i \in 1..n |-> jvms[i]]
        BY <4>1
      <4>. QED
        BY <4>1, <4>2, Listed
    <3>2. \E i \in 1..Len(jvms) : selected' = jvms[i]
      BY <2>3, <3>1, SelectIn, Deltas
    <3>3. jvms' = jvms
      BY <2>3 DEF SelectJvm
    <3>. QED
      BY <3>1, <3>2, <3>3 DEF JvmTypes
  <2>. QED
    BY <2>1, <2>2, <2>3
<1>. QED
  BY <1>1, <1>2, <1>3, <1>4, <1>5, <1>6 DEF Next, Poll, HandleKey

LEMMA QueryTypesStep ==
  ASSUME QueryTypes, SamplesOK, MemoryOK, NavigationOK, [Next]_vars
  PROVE  QueryTypes'
<1>1. /\ Len(telemetry'.samples) <= SampleLimit
      /\ telemetryQuery' = {} \/ \E q : telemetryQuery' = {q}
  <2>1. CASE UNCHANGED <<telemetry, telemetryQuery>>
    BY <2>1 DEF QueryTypes
  <2>2. CASE AsksTelemetry
    BY <2>2 DEF QueryTypes, AsksTelemetry
  <2>3. CASE TelemetryAnswer
    <3>1. telemetryQuery' = {} /\ \E x : telemetry'.samples = Window(telemetry.samples, x)
      <4>1. PICK q \in telemetryQuery :
              \E read \in QueryProcess(q.jvm) : TelemetryAnswer!(q)!(read)
        BY <2>3 DEF TelemetryAnswer
      <4>2. PICK read \in QueryProcess(q.jvm) : TelemetryAnswer!(q)!(read)
        BY <4>1
      <4>3. PICK x : x = [jvm |-> q.jvm, session |-> q.session, since |-> telemetry.last,
                          known |-> read # None]
        OBVIOUS
      <4>4. telemetryQuery' = {} /\ telemetry'.samples = Window(telemetry.samples, x)
        BY <4>2, <4>3 DEF Window, Suffix
      <4>. QED
        BY <4>4
    <3>2. IsSeq(telemetry.samples)
      BY DEF SamplesOK, IsSeq
    <3>. QED
      BY <3>1, <3>2, SamplesFew
  <2>. QED
    BY <2>1, <2>2, <2>3, TelemetrySteps
<1>2. memoryQuery' = {} \/ \E q : memoryQuery' = {q}
  <2>1. HasFields(memory)
    BY DEF MemoryOK
  <2>2. CASE KeepsMemory
    BY <2>2 DEF KeepsMemory, QueryTypes
  <2>3. CASE AsksMemory
    BY <2>3 DEF AsksMemory
  <2>4. CASE \E reply \in scenario.memory : MemoryAnswer(reply)
    BY <2>4 DEF MemoryAnswer
  <2>. QED
    BY <2>1, <2>2, <2>3, <2>4, MemorySteps
<1>. QED
  BY <1>1, <1>2 DEF QueryTypes

(* The types: the sidebar's indices stay in the menu, what is highlighted  *)
(* never comes before the first row, no answer and no sample makes a list  *)
(* longer than its limit, and no process that is a tool is selected.       *)
THEOREM TuiTypesHold == Spec => []TypeOK
<1>. DEFINE Inv == InputTypes /\ JvmTypes /\ QueryTypes
<1>1. ASSUME Init  PROVE Inv
  <2>1. <<>> \in Seq(Letters) /\ <<>> \in Seq(Jvms \ Tools) /\ Len(<<>>) = 0
    OBVIOUS
  <2>2. 0 <= FilterLimit /\ 0 <= SampleLimit
    BY TuiAssumption
  <2>3. InputTypes
    BY <1>1, <2>1, <2>2 DEF Init, InputTypes
  <2>4. JvmTypes
    BY <1>1, <2>1 DEF Init, JvmTypes
  <2>5. QueryTypes
    BY <1>1, <2>1, <2>2 DEF Init, QueryTypes
  <2>. QED
    BY <2>3, <2>4, <2>5
<1>2. Inv /\ TablesOK /\ SamplesOK /\ MemoryOK /\ NavigationOK /\ [Next]_vars => Inv'
  BY InputTypesStep, JvmTypesStep, QueryTypesStep
<1>3. Inv /\ TablesOK /\ NavigationOK => TypeOK
  <2>. SUFFICES ASSUME Inv, TablesOK, NavigationOK  PROVE TypeOK
    OBVIOUS
  <2>1. view \in {"StartCenter"} \cup {Categories[c][1] : c \in 1..Len(Categories)}
    <3>0. category \in 1..4 /\ item \in 1..Len(Categories[category])
      BY CategoryViews DEF NavigationOK
    <3>1. category \in 1..4 /\ item = 1
      <4>1. Len(Categories[category]) = 1
        BY <3>0, CategoryViews
      <4>. QED
        BY <3>0, <4>1
    <3>2. view # "StartCenter" => view = Categories[category][1]
      BY <3>1 DEF NavigationOK, Opened
    <3>. QED
      BY <3>1, <3>2, CategoryViews
  <2>2. category \in 1..Len(Categories) /\ item \in 1..Len(Categories[category])
    BY DEF NavigationOK
  <2>3. Len(cpu.rows) <= RowLimit /\ \A t \in {memory, cpu, db} : t.sel \in Nat /\ t.off \in Nat
    BY DEF TablesOK, CpuTable, Cursors
  <2>4. \A S : S = {} \/ (\E q : S = {q}) => Cardinality(S) <= 1
    <3>1. Cardinality({}) = 0 /\ \A q : Cardinality({q}) = 1
      BY FS_EmptySet, FS_Singleton
    <3>2. \A S : S = {} \/ (\E q : S = {q}) => Cardinality(S) = 0 \/ Cardinality(S) = 1
      BY <3>1, Zenon
    <3>3. \A n : n = 0 \/ n = 1 => n <= 1
      OBVIOUS
    <3>. QED
      BY <3>2, <3>3, Zenon
  <2>5. Cardinality(telemetryQuery) <= 1 /\ Cardinality(memoryQuery) <= 1
    BY <2>4 DEF QueryTypes
  <2>. QED
    BY <2>1, <2>2, <2>3, <2>5 DEF TypeOK, InputTypes, JvmTypes, QueryTypes
<1>4. Spec => []SamplesOK
  BY SamplesInit, SamplesStep, NavigationHolds, PTL DEF Spec
<1>. QED
  BY <1>1, <1>2, <1>3, <1>4, TablesHold, MemoryHolds, NavigationHolds, PTL DEF Spec

----------------------------------------------------------------------------
(* What is drawn and highlighted.                                          *)

LEMMA PageRow ==
  ASSUME NEW t, Cursors(t), NEW items, IsSeq(items), NEW room \in Nat
  PROVE  /\ \A row \in Page(t, items, room) :
              /\ row.item \in ToSet(items)
              /\ row.highlighted => t.sel < Len(items) /\ row.item = items[t.sel + 1]
         /\ (\E row \in Page(t, items, room) : row.highlighted) <=> InSight(t, Len(items), room)
<1>. DEFINE places == {k \in 1..Len(items) : k - 1 >= t.off /\ k - 1 < t.off + room}
            row(i) == [item |-> items[i], highlighted |-> i - 1 = t.sel]
<1>1. /\ Len(items) \in Nat /\ t.sel \in Nat /\ t.off \in Nat
      /\ \A i \in 1..Len(items) : items[i] \in ToSet(items)
  BY Elements DEF Cursors
<1>2. Page(t, items, room) = {row(i) : i \in places}
  BY Zenon DEF Page
<1>3. ASSUME NEW i \in places
      PROVE  /\ row(i).item = items[i] /\ row(i).item \in ToSet(items)
             /\ row(i).highlighted <=> i - 1 = t.sel
             /\ i - 1 = t.sel => t.sel < Len(items) /\ i = t.sel + 1
  <2>1. i \in 1..Len(items)
    OBVIOUS
  <2>2. row(i).item = items[i] /\ (row(i).highlighted <=> i - 1 = t.sel)
    OBVIOUS
  <2>3. items[i] \in ToSet(items)
    BY <1>1, <2>1
  <2>4. i - 1 = t.sel => t.sel < Len(items) /\ i = t.sel + 1
    BY <1>1, <2>1
  <2>. QED
    BY <2>2, <2>3, <2>4
<1>4. ASSUME NEW i \in places, i - 1 = t.sel  PROVE InSight(t, Len(items), room)
  BY <1>1, <1>4 DEF InSight
<1>5. ASSUME InSight(t, Len(items), room)  PROVE t.sel + 1 \in places /\ (t.sel + 1) - 1 = t.sel
  <2>1. /\ t.sel < Len(items) /\ t.off <= t.sel /\ t.sel < t.off + room
    BY <1>5 DEF InSight
  <2>2. t.sel + 1 \in 1..Len(items) /\ (t.sel + 1) - 1 = t.sel
    BY <1>1, <2>1
  <2>. QED
    BY <2>1, <2>2
<1>. HIDE DEF places, row
<1>6. \A r \in Page(t, items, room) :
        /\ r.item \in ToSet(items)
        /\ r.highlighted => t.sel < Len(items) /\ r.item = items[t.sel + 1]
  <2>1. SUFFICES ASSUME NEW i \in places
                 PROVE  /\ row(i).item \in ToSet(items)
                        /\ row(i).highlighted => /\ t.sel < Len(items)
                                                 /\ row(i).item = items[t.sel + 1]
    BY <1>2
  <2>. QED
    BY <1>3
<1>7. ASSUME InSight(t, Len(items), room)  PROVE \E r \in Page(t, items, room) : r.highlighted
  <2>1. row(t.sel + 1) \in Page(t, items, room)
    BY <1>2, <1>5, <1>7
  <2>2. row(t.sel + 1).highlighted
    BY <1>3, <1>5, <1>7
  <2>. QED
    BY <2>1, <2>2
<1>8. ASSUME \E r \in Page(t, items, room) : r.highlighted  PROVE InSight(t, Len(items), room)
  <2>1. PICK i \in places : row(i).highlighted
    BY <1>2, <1>8
  <2>. QED
    BY <1>3, <1>4, <2>1
<1>. QED
  BY <1>6, <1>7, <1>8

(* Right, left and enter act on the method highlighted: as long as every   *)
(* callee is drawn, the rows drawn are those the keys count, one by one.   *)
THEOREM ActsOnHighlightedHolds == Spec => []ActsOnHighlighted
<1>1. ASSUME TablesOK  PROVE ActsOnHighlighted
  <2>1. SUFFICES ASSUME AllDrawn(cpu), NEW room \in Rooms, NEW row \in DrawnMethods(cpu, room),
                        row.highlighted
                 PROVE  row.item.id = SelectedMethod
    BY DEF ActsOnHighlighted
  <2>2. PICK items : items = NavigableItems(cpu)
    OBVIOUS
  <2>3. IsSeq(items) /\ DrawnMethods(cpu, room) = Page(cpu, items, room) /\ room \in Nat
    BY <1>1, <2>1, <2>2, ItemsShown, TuiAssumption DEF TablesOK, DrawnMethods
  <2>4. cpu.sel < Len(items) /\ row.item = items[cpu.sel + 1]
    BY <1>1, <2>1, <2>3, PageRow DEF TablesOK
  <2>. QED
    BY <2>2, <2>4 DEF SelectedMethod
<1>. QED
  BY <1>1, TablesHold, PTL

\* When the table of a view shows its cursor.
LEMMA CursorOn ==
  ASSUME NEW room \in Nat, NEW chosen, NEW c, NEW m, NEW d, CpuTable(c), MemoryTable(m),
         Cursors(c), Cursors(m), Cursors(d), AllDrawn(c)
  PROVE  /\ view = "CpuHotSpots" =>
              (CursorShown(chosen, c, m, d, room) <=>
                 (NavigableItems(c) # <<>> => InSight(c, Len(NavigableItems(c)), room)))
         /\ view = "Allocations" =>
              (CursorShown(chosen, c, m, d, room) <=>
                 (VisibleSites(m) # <<>> => InSight(m, Len(VisibleSites(m)), room)))
         /\ view = "Jdbc" =>
              (CursorShown(chosen, c, m, d, room) <=>
                 (StatementRows(c.rows, filter) # <<>> =>
                    InSight(d, Len(StatementRows(c.rows, filter)), room)))
<1>1. ASSUME view = "CpuHotSpots"
      PROVE  CursorShown(chosen, c, m, d, room) <=>
               (NavigableItems(c) # <<>> => InSight(c, Len(NavigableItems(c)), room))
  <2>1. Copied(c, m) = NavigableItems(c) /\ Drawn(chosen, c, m, d, room) = DrawnMethods(c, room)
    BY <1>1 DEF Copied, Drawn
  <2>2. DrawnMethods(c, room) = Page(c, NavigableItems(c), room) /\ IsSeq(NavigableItems(c))
    BY ItemsShown DEF DrawnMethods
  <2>3. (\E row \in DrawnMethods(c, room) : row.highlighted) <=> InSight(c, Len(NavigableItems(c)), room)
    BY <2>2, PageRow
  <2>. QED
    BY <1>1, <2>1, <2>3 DEF CursorShown
<1>2. ASSUME view = "Allocations"
      PROVE  CursorShown(chosen, c, m, d, room) <=>
               (VisibleSites(m) # <<>> => InSight(m, Len(VisibleSites(m)), room))
  <2>1. Copied(c, m) = VisibleSites(m) /\ Drawn(chosen, c, m, d, room) = DrawnSites(m, room)
    BY <1>2 DEF Copied, Drawn
  <2>2. DrawnSites(m, room) = Page(m, VisibleSites(m), room) /\ IsSeq(VisibleSites(m))
    BY SitesShown DEF DrawnSites
  <2>3. (\E row \in DrawnSites(m, room) : row.highlighted) <=> InSight(m, Len(VisibleSites(m)), room)
    BY <2>2, PageRow
  <2>. QED
    BY <1>2, <2>1, <2>3 DEF CursorShown
<1>3. ASSUME view = "Jdbc"
      PROVE  CursorShown(chosen, c, m, d, room) <=>
               (StatementRows(c.rows, filter) # <<>> =>
                  InSight(d, Len(StatementRows(c.rows, filter)), room))
  <2>1. Copied(c, m) = StatementRows(c.rows, filter) /\ Drawn(chosen, c, m, d, room) = DrawnStatements(c, d, room)
    BY <1>3 DEF Copied, Drawn
  <2>2. DrawnStatements(c, d, room) = Page(d, StatementRows(c.rows, filter), room) /\ IsSeq(StatementRows(c.rows, filter))
    BY StatementsShown DEF DrawnStatements, CpuTable
  <2>3. (\E row \in DrawnStatements(c, d, room) : row.highlighted) <=>
          InSight(d, Len(StatementRows(c.rows, filter)), room)
    BY <2>2, PageRow
  <2>. QED
    BY <1>3, <2>1, <2>3 DEF CursorShown
<1>. QED
  BY <1>1, <1>2, <1>3

LEMMA CpuSteps ==
  ASSUME [Next]_vars, CpuAnswered
  PROVE  \E reply \in scenario.cpu : CpuAnswer(reply)
<1>. SUFFICES ASSUME ~ \E reply \in scenario.cpu : CpuAnswer(reply)  PROVE FALSE
  OBVIOUS
<1>1. cpuQuery /\ ~cpuQuery' /\ <<cpu, db>>' # <<cpu, db>>
  BY DEF CpuAnswered
<1>2. ASSUME \/ JvmsAnswer \/ TelemetryAnswer
             \/ (\E reply \in scenario.memory : MemoryAnswer(reply)) \/ MemoryError \/ CpuError
             \/ Recorded \/ (\E due \in BOOLEAN : AutoUpdate(due)) \/ UNCHANGED vars
      PROVE  FALSE
  BY <1>1, <1>2 DEF JvmsAnswer, TelemetryAnswer, MemoryAnswer, MemoryError, CpuError, Recorded,
                    AutoUpdate, vars, tables, queries
<1>3. ASSUME \/ Expand \/ Collapse \/ Sideways \/ StartSession \/ OpenItem \/ Jump
             \/ SwitchFocus \/ Refresh \/ MarkHeap \/ ToggleHelp \/ EnterFilter \/ TypeFilter
      PROVE  FALSE
  BY <1>1, <1>3 DEF Expand, Collapse, Sideways, StartSession, OpenItem, Jump, SwitchFocus, Refresh,
                    MarkHeap, ToggleHelp, EnterFilter, TypeFilter, tables, queries
<1>4. ASSUME Move  PROVE FALSE
  <2>1. PICK k \in DOMAIN Delta :
          SelectJvm(Delta[k]) \/ MoveInTable(Delta[k]) \/ MoveInSidebar(Delta[k])
    BY <1>4 DEF Move
  <2>. QED
    BY <1>1, <2>1 DEF SelectJvm, MoveInTable, MoveInSidebar, queries
<1>. QED
  BY <1>2, <1>3, <1>4 DEF Next, Poll, HandleKey

\* Whether a way in a table leaves its cursor on the page.
LEMMA MoveShows ==
  ASSUME NEW room, Roomy(room), TablesOK, AllDrawn(cpu'), NEW delta \in Int, MoveInTable(delta),
         ~CursorShown(selected', cpu', memory', db', room)
  PROVE  delta < 0 /\ ~CursorShown(selected, cpu, memory, db, room)
<1>0. TablesOK'
  BY MoveSteps
<1>1. /\ MemoryTable(memory) /\ CpuTable(cpu) /\ Cursors(memory) /\ Cursors(cpu) /\ Cursors(db)
      /\ MemoryTable(memory') /\ CpuTable(cpu') /\ Cursors(memory') /\ Cursors(cpu') /\ Cursors(db')
  BY <1>0 DEF TablesOK
<1>2. CASE MethodTable /\ CursorOnly(cpu, cpu')
           /\ (LET count == Len(NavigableItems(cpu))
               IN count # 0 /\ (delta < 0 => cpu.sel < count) => OnPage(cpu', count))
  <2>1. view = "CpuHotSpots"
    BY <1>2 DEF MethodTable, Main
  <2>2. cpu'.rows = cpu.rows /\ cpu'.edges = cpu.edges /\ cpu'.expanded = cpu.expanded
    BY <1>1, <1>2, OtherCursor
  <2>3. NavigableItems(cpu') = NavigableItems(cpu) /\ AllDrawn(cpu)
    <3>1. AllDrawn(cpu)
      BY <2>2 DEF AllDrawn
    <3>. QED
      BY <2>2, <3>1 DEF NavigableItems
  <2>4. PICK items : items = NavigableItems(cpu)
    OBVIOUS
  <2>5. IsSeq(items) /\ (Len(items) = 0 => items = <<>>) /\ (items = <<>> => Len(items) = 0)
    <3>1. IsSeq(items)
      BY <1>1, <2>4, ItemsShown
    <3>. QED
      BY <3>1 DEF IsSeq
  <2>6. CursorShown(selected', cpu', memory', db', room) <=> (items # <<>> => InSight(cpu', Len(items), room))
    BY <1>1, <2>1, <2>3, <2>4, CursorOn DEF Roomy
  <2>7. CursorShown(selected, cpu, memory, db, room) <=> (items # <<>> => InSight(cpu, Len(items), room))
    BY <1>1, <2>1, <2>3, <2>4, CursorOn DEF Roomy
  <2>8. /\ OnPage(cpu', Len(items)) => InSight(cpu', Len(items), room)
        /\ InSight(cpu, Len(items), room) => cpu.sel < Len(items)
    BY <1>1, PageInSight DEF InSight
  <2>. QED
    BY <1>2, <2>4, <2>5, <2>6, <2>7, <2>8
<1>3. CASE SiteTable /\ CursorOnly(memory, memory') /\ cpu' = cpu
           /\ (LET count == Len(VisibleSites(memory))
               IN count # 0 /\ (delta < 0 => memory.sel < count) => OnPage(memory', count))
  <2>1. view = "Allocations"
    BY <1>3 DEF SiteTable, Main
  <2>2. VisibleSites(memory') = VisibleSites(memory) /\ AllDrawn(cpu)
    BY <1>1, <1>3, OtherCursor
  <2>3. PICK items : items = VisibleSites(memory)
    OBVIOUS
  <2>4. IsSeq(items) /\ (Len(items) = 0 => items = <<>>) /\ (items = <<>> => Len(items) = 0)
    <3>1. IsSeq(items)
      BY <1>1, <2>3, SitesShown
    <3>. QED
      BY <3>1 DEF IsSeq
  <2>5. CursorShown(selected', cpu', memory', db', room) <=> (items # <<>> => InSight(memory', Len(items), room))
    BY <1>1, <2>1, <2>2, <2>3, CursorOn DEF Roomy
  <2>6. CursorShown(selected, cpu, memory, db, room) <=> (items # <<>> => InSight(memory, Len(items), room))
    BY <1>1, <2>1, <2>2, <2>3, CursorOn DEF Roomy
  <2>7. /\ OnPage(memory', Len(items)) => InSight(memory', Len(items), room)
        /\ InSight(memory, Len(items), room) => memory.sel < Len(items)
    BY <1>1, PageInSight DEF InSight
  <2>. QED
    BY <1>3, <2>3, <2>4, <2>5, <2>6, <2>7
<1>4. CASE StatementTable /\ cpu' = cpu
           /\ (LET count == Len(StatementRows(cpu.rows, filter))
               IN count # 0 /\ (delta < 0 => db.sel < count) => OnPage(db', count))
  <2>1. view = "Jdbc" /\ AllDrawn(cpu)
    BY <1>4 DEF StatementTable, Main
  <2>2. PICK items : items = StatementRows(cpu.rows, filter)
    OBVIOUS
  <2>3. IsSeq(items) /\ (Len(items) = 0 => items = <<>>) /\ (items = <<>> => Len(items) = 0)
    <3>1. IsSeq(items)
      BY <1>1, <2>2, StatementsShown DEF CpuTable
    <3>. QED
      BY <3>1 DEF IsSeq
  <2>4. CursorShown(selected', cpu', memory', db', room) <=> (items # <<>> => InSight(db', Len(items), room))
    BY <1>1, <1>4, <2>1, <2>2, CursorOn DEF Roomy
  <2>5. CursorShown(selected, cpu, memory, db, room) <=> (items # <<>> => InSight(db, Len(items), room))
    BY <1>1, <2>1, <2>2, CursorOn DEF Roomy
  <2>6. /\ OnPage(db', Len(items)) => InSight(db', Len(items), room)
        /\ InSight(db, Len(items), room) => db.sel < Len(items)
    BY <1>1, PageInSight DEF InSight
  <2>. QED
    BY <1>4, <2>2, <2>3, <2>4, <2>5, <2>6
<1>. QED
  BY <1>2, <1>3, <1>4, MoveSteps

(* Where there is room for a page, what hides the cursor is a filter, a    *)
(* collapse, more callees than are drawn, a JVM that has ended or another  *)
(* view: an answer clamps the index to the rows the table shows and moves  *)
(* the page after it, a way down is clamped as well, and a way up of a     *)
(* cursor on a row ends on a row.  Where the terminal has room for less,   *)
(* the cursor is as near: within a page of the first row drawn.            *)
THEOREM CursorKeptHolds == Spec => CursorKept
<1>0. ASSUME NEW height \in Rooms  PROVE Roomy(Max({height, PageRows}))
  <2>1. height \in Nat /\ PageRows \in Nat
    BY TuiAssumption
  <2>2. PICK room : room = Max({height, PageRows})
    OBVIOUS
  <2>3. room = IF height <= PageRows THEN PageRows ELSE height
    BY <2>1, <2>2, MinMax
  <2>. QED
    BY <2>1, <2>2, <2>3 DEF Roomy
<1>1. ASSUME NEW room, Roomy(room), TablesOK, MemoryOK, JvmTypes, [Next]_vars, AllDrawn(cpu'),
             ~CursorShown(selected', cpu', memory', db', room)
      PROVE  /\ ~(MemoryAnswered /\ view = "Allocations")
             /\ ~(CpuAnswered /\ view \in {"CpuHotSpots", "Jdbc"})
             /\ \A k \in DOMAIN Delta : Key(k) =>
                  /\ ~SelectJvm(Delta[k])
                  /\ MoveInTable(Delta[k]) =>
                       Delta[k] < 0 /\ ~CursorShown(selected, cpu, memory, db, room)
  <2>0. TablesOK'
    BY <1>1, TablesStep
  <2>1. /\ MemoryTable(memory') /\ CpuTable(cpu')
        /\ Cursors(memory') /\ Cursors(cpu') /\ Cursors(db') /\ room \in Nat
    BY <1>1, <2>0 DEF TablesOK, Roomy
  <2>2. ASSUME MemoryAnswered, view = "Allocations"  PROVE FALSE
    <3>1. PICK reply \in scenario.memory : MemoryAnswer(reply)
      BY <1>1, <2>2, MemorySteps DEF MemoryOK, KeepsMemory, AsksMemory, MemoryAnswered
    <3>2. VisibleSites(memory') # <<>> => OnPage(memory', Len(VisibleSites(memory')))
      BY <1>1, <2>2, <3>1, AnswerSteps
    <3>. QED
      BY <1>1, <2>1, <2>2, <3>2, CursorOn, PageInSight
  <2>3. ASSUME CpuAnswered, view \in {"CpuHotSpots", "Jdbc"}  PROVE FALSE
    <3>1. PICK reply \in scenario.cpu : CpuAnswer(reply)
      BY <1>1, <2>3, CpuSteps
    <3>2. /\ NavigableItems(cpu') # <<>> => OnPage(cpu', Len(NavigableItems(cpu')))
          /\ StatementRows(cpu'.rows, filter) # <<>> =>
               OnPage(db', Len(StatementRows(cpu'.rows, filter)))
      BY <1>1, <3>1, AnswerSteps
    <3>. QED
      BY <1>1, <2>1, <2>3, <3>2, CursorOn, PageInSight
  <2>4. ASSUME NEW k \in DOMAIN Delta, SelectJvm(Delta[k])  PROVE FALSE
    <3>1. IsSeq(jvms)
      <4>1. jvms \in Seq(Jvms \ Tools)
        BY <1>1 DEF JvmTypes
      <4>2. PICK n \in Nat : n = Len(jvms) /\ DOMAIN jvms = 1..n /\ jvms = [i \in 1..n |-> jvms[i]]
        BY <4>1
      <4>. QED
        BY <4>2, Listed
    <3>2. PICK i \in 1..Len(jvms) : selected' = jvms[i]
      BY <2>4, <3>1, SelectIn, Deltas
    <3>3. jvms[i] \in ToSet(jvms) /\ view = "StartCenter"
      BY <2>4, <3>1, Elements DEF SelectJvm
    <3>4. [item |-> selected', highlighted |-> selected' = selected'] \in DrawnJvms(selected')
      BY <3>2, <3>3 DEF DrawnJvms
    <3>5. \E row \in DrawnJvms(selected') : row.highlighted
      BY <3>4
    <3>6. Drawn(selected', cpu', memory', db', room) = DrawnJvms(selected')
      BY <3>3 DEF Drawn
    <3>. QED
      BY <1>1, <3>5, <3>6 DEF CursorShown
  <2>5. ASSUME NEW k \in DOMAIN Delta, MoveInTable(Delta[k])
        PROVE  Delta[k] < 0 /\ ~CursorShown(selected, cpu, memory, db, room)
    BY <1>1, <2>5, MoveShows, Deltas
  <2>. QED
    BY <2>2, <2>3, <2>4, <2>5
<1>2. TablesOK /\ MemoryOK /\ JvmTypes /\ [Next]_vars => CursorKept!1
  BY <1>0, <1>1
<1>3. Spec => []JvmTypes
  <2>1. Init => JvmTypes
    <3>1. <<>> \in Seq(Jvms \ Tools)
      OBVIOUS
    <3>. QED
      BY <3>1 DEF Init, JvmTypes
  <2>. QED
    BY <2>1, JvmTypesStep, TablesHold, PTL DEF Spec
<1>. QED
  BY <1>2, <1>3, TablesHold, MemoryHolds, PTL DEF Spec, CursorKept

----------------------------------------------------------------------------
(* What is kept of a reply.                                                *)

\* Where sorting puts what stands at these places.
SortedTo(key, n, places) == {Ranks(key, n)[u] : u \in places}

\* Of those kept, as many are before one of them as of all that pass.
LEMMA KeptCounts ==
  ASSUME NEW n \in Nat, NEW key, \A i \in 1..n : key[i] \in Int, NEW T \in SUBSET (1..n),
         NEW m \in 0..n, NEW t \in T, Ranks(key, n)[t] <= m
  PROVE  Upto(SortedTo(key, n, T) \cap 1..m, Ranks(key, n)[t]) = 1 + CountAhead(key, T, t)
<1>1. Upto(SortedTo(key, n, T), Ranks(key, n)[t]) = 1 + CountAhead(key, T, t)
  BY PartRanks DEF SortedTo
<1>2. PICK rank : rank = Ranks(key, n)
  OBVIOUS
<1>3. rank \in [1..n -> 1..n]
  BY <1>2, RanksPermute
<1>4. \A j \in SortedTo(key, n, T) : j <= rank[t] => j \in 1..m
  <2>1. SUFFICES ASSUME NEW u \in T, rank[u] <= rank[t]  PROVE rank[u] \in 1..m
    BY <1>2, Zenon DEF SortedTo
  <2>2. rank[u] \in 1..n /\ rank[t] \in 1..n /\ rank[t] <= m
    BY <1>2, <1>3
  <2>. QED
    BY <2>1, <2>2
<1>5. {j \in SortedTo(key, n, T) : j <= rank[t]} = {j \in SortedTo(key, n, T) \cap 1..m : j <= rank[t]}
  BY <1>4
<1>. QED
  BY <1>1, <1>2, <1>5 DEF Upto

\* And as many as of those that pass, picked before they are sorted.
LEMMA PickedCounts ==
  ASSUME NEW n \in Nat, NEW key, \A i \in 1..n : key[i] \in Int, NEW T \in SUBSET (1..n),
         NEW part, \A u \in T : part[Upto(T, u)] = key[u], NEW t \in T
  PROVE  Ranks(part, Cardinality(T))[Upto(T, t)] = 1 + CountAhead(key, T, t)
<1>1. \A p : (\A u \in T : p[Upto(T, u)] = key[u]) =>
              Ranks(p, Cardinality(T))[Upto(T, t)] = 1 + CountAhead(key, T, t)
  BY PartRanks
<1>. QED
  BY <1>1

\* Rows to sort and to keep some of, and the keys of those in T when they are picked first.
Sortable(all, key, limit) ==
  IsSeq(all) /\ (\A i \in 1..Len(all) : key[i] \in Int) /\ limit \in Nat

Picked(all, key, T, part) ==
  /\ T \in SUBSET (1..Len(all))
  /\ \A t \in T : part[Upto(T, t)] = key[t]
  /\ \A q \in 1..Cardinality(T) : part[q] \in Int

\* Rows that pass a test after sorting and cutting off are those that pass it first
\* and are sorted then: T are the places of the rows that pass.
LEMMA KeptFirst ==
  ASSUME NEW hot, NEW all, NEW key, NEW limit, Sortable(all, key, limit),
         NEW T, NEW part, Picked(all, key, T, part)
  PROVE  \A rows, P :
           /\ rows = Truncate(Sorted(all, key), limit)
           /\ P = SortedTo(key, Len(all), T) \cap 1..Len(rows)
           => \A i \in 1..Len(At(rows, P)) : \E t \in T :
                /\ At(rows, P)[i] = all[t]
                /\ Truncate(Sorted(At(hot, T), part), Len(all))[i] = hot[t]
<1>e. SUFFICES ASSUME NEW rows, NEW P,
                      rows = Truncate(Sorted(all, key), limit),
                      P = SortedTo(key, Len(all), T) \cap 1..Len(rows)
               PROVE  \A i \in 1..Len(At(rows, P)) : \E t \in T :
                        /\ At(rows, P)[i] = all[t]
                        /\ Truncate(Sorted(At(hot, T), part), Len(all))[i] = hot[t]
  OBVIOUS
<1>a. /\ IsSeq(all) /\ (\A i \in 1..Len(all) : key[i] \in Int) /\ limit \in Nat
      /\ T \in SUBSET (1..Len(all))
  BY DEF Sortable, Picked
<1>b. /\ \A t \in T : part[Upto(T, t)] = key[t]
      /\ \A q \in 1..Cardinality(T) : part[q] \in Int
  BY DEF Picked
<1>n. PICK n \in Nat : n = Len(all)
  BY <1>a, Elements
<1>s. PICK sorted : sorted = Sorted(all, key)
  OBVIOUS
<1>r. rows = Truncate(sorted, limit)
  BY <1>e, <1>s
<1>k. PICK rank : rank = Ranks(key, n)
  OBVIOUS
<1>t. PICK those : those = At(hot, T)
  OBVIOUS
<1>c. PICK c : c = Cardinality(T)
  OBVIOUS
<1>m. PICK m : m = Len(rows)
  OBVIOUS
<1>0. \A i \in 1..n : key[i] \in Int
  BY <1>a, <1>n
<1>1. IsSeq(sorted) /\ Len(sorted) = n /\ \A t \in 1..n : sorted[rank[t]] = all[t]
  <2>1. Len(all) = n /\ n \in Nat /\ \A i \in 1..n : key[i] \in Int
    BY <1>0, <1>n
  <2>2. Len(all) \in Nat /\ \A i \in 1..Len(all) : key[i] \in Int
    BY <2>1
  <2>3. IsSeq(Sorted(all, key)) /\ Len(Sorted(all, key)) = Len(all)
    BY <1>a, <2>2, SortedRows, Zenon
  <2>4. \A t \in 1..Len(all) : Sorted(all, key)[Ranks(key, Len(all))[t]] = all[t]
    BY <2>2, SortedRows
  <2>. QED
    BY <1>s, <1>k, <2>1, <2>3, <2>4
<1>2. /\ IsSeq(rows) /\ m \in Nat /\ m <= n
      /\ \A k \in 1..m : k \in 1..n /\ rows[k] = sorted[k]
  <2>1. IsSeq(rows) /\ \A k \in 1..Len(rows) : k \in 1..Len(sorted) /\ rows[k] = sorted[k]
    BY <1>1, <1>a, <1>r, Truncated
  <2>2. Len(rows) = IF limit <= Len(sorted) THEN limit ELSE Len(sorted)
    BY <1>1, <1>a, <1>r, Truncated
  <2>. QED
    BY <1>1, <1>m, <2>1, <2>2
<1>3. /\ rank \in [1..n -> 1..n]
      /\ \A i, j \in 1..n : rank[i] = rank[j] => i = j
  <2>1. /\ Ranks(key, n) \in [1..n -> 1..n]
        /\ \A i, j \in 1..n : Ranks(key, n)[i] = Ranks(key, n)[j] => i = j
    BY <1>0, RanksPermute, Zenon
  <2>. QED
    BY <1>k, <2>1
<1>p. P = SortedTo(key, n, T) \cap 1..m
  BY <1>e, <1>n, <1>m, Zenon
<1>4. (\A k : k \in P <=> k \in 1..m /\ \E t \in T : rank[t] = k) /\ T \in SUBSET (1..n)
  <2>1. \A k : k \in SortedTo(key, n, T) <=> \E t \in T : rank[t] = k
    BY <1>k, Zenon DEF SortedTo
  <2>. QED
    BY <1>a, <1>n, <1>p, <2>1
<1>5. P \in SUBSET (1..m)
  BY <1>4
<1>6. /\ c \in Nat /\ c <= n
      /\ Len(those) = c
      /\ \A t \in T : Upto(T, t) \in 1..c /\ those[Upto(T, t)] = hot[t]
  <2>1. c \in Nat /\ c <= n
    BY <1>4, <1>c, <1>t, AtPlaces, Zenon
  <2>2. Len(those) = c
    BY <1>4, <1>c, <1>t, AtPlaces, Zenon
  <2>3. \A t \in T : /\ Upto(T, t) \in 1..Cardinality(T)
                     /\ At(hot, T)[Upto(T, t)] = hot[t]
    BY <1>n, <1>4, AtPlaces, Zenon
  <2>. QED
    BY <1>c, <1>t, <2>1, <2>2, <2>3
<1>7. /\ Len(At(rows, P)) = Cardinality(P)
      /\ \A i \in 1..Cardinality(P) : \E k \in P : Upto(P, k) = i /\ At(rows, P)[i] = rows[k]
  <2>0. m \in Nat
    BY <1>2
  <2>1. Len(At(rows, P)) = Cardinality(P)
    BY <2>0, <1>5, AtPlaces, Zenon
  <2>2. \A i \in 1..Cardinality(P) : \E k \in P : Upto(P, k) = i /\ At(rows, P)[i] = rows[k]
    BY <2>0, <1>5, AtPlaces, Zenon
  <2>. QED
    BY <2>1, <2>2
<1>8. ASSUME NEW t \in T, rank[t] \in P  PROVE Ranks(part, c)[Upto(T, t)] = Upto(P, rank[t])
  <2>1. m \in 0..n
    BY <1>2
  <2>3. T \in SUBSET (1..n)
    BY <1>4
  <2>4. Upto(P, Ranks(key, n)[t]) = 1 + CountAhead(key, T, t)
    <3>1. Ranks(key, n)[t] <= m
      BY <1>2, <1>4, <1>8, <1>k
    <3>2. Upto(SortedTo(key, n, T) \cap 1..m, Ranks(key, n)[t]) = 1 + CountAhead(key, T, t)
      BY <1>n, <1>0, <2>1, <2>3, <3>1, KeptCounts
    <3>. QED
      BY <1>p, <3>2, Zenon
  <2>5. Ranks(part, Cardinality(T))[Upto(T, t)] = 1 + CountAhead(key, T, t)
    <3>1. \A u \in T : part[Upto(T, u)] = key[u]
      BY <1>b
    <3>. QED
      BY <1>n, <1>0, <2>3, <3>1, PickedCounts
  <2>. QED
    BY <1>k, <1>c, <2>4, <2>5
<1>w. PICK whole : whole = Truncate(Sorted(those, part), n)
  OBVIOUS
<1>9. \A p \in 1..c : Ranks(part, c)[p] \in 1..c /\ whole[Ranks(part, c)[p]] = those[p]
  <2>0. \A q \in 1..c : part[q] \in Int
    BY <1>b, <1>c
  <2>1. Ranks(part, c) \in [1..c -> 1..c]
    BY <1>6, <2>0, RanksPermute
  <2>2. PICK s : s = Sorted(those, part)
    OBVIOUS
  <2>3. Len(s) = c /\ \A p \in 1..c : s[Ranks(part, c)[p]] = those[p]
    <3>1. Len(those) \in Nat /\ \A q \in 1..Len(those) : part[q] \in Int
      BY <1>6, <2>0
    <3>2. /\ Len(Sorted(those, part)) = Len(those)
          /\ \A p \in 1..Len(those) :
               Sorted(those, part)[Ranks(part, Len(those))[p]] = those[p]
      BY <3>1, SortedRows
    <3>. QED
      BY <1>6, <2>2, <3>2
  <2>4. Truncate(s, n) = SubSeq(s, 1, c)
    <3>1. c \in Int /\ n \in Int
      BY <1>6
    <3>2. Min({n, c}) = c
      <4>1. Min({n, c}) = IF n <= c THEN n ELSE c
        BY <3>1, MinMax
      <4>. QED
        BY <1>6, <3>1, <4>1
    <3>. QED
      BY <2>3, <3>2 DEF Truncate
  <2>5. SubSeq(s, 1, c) = [q \in 1..c |-> s[q]]
    BY <1>6
  <2>6. \A q \in 1..c : whole[q] = s[q]
    <3>1. whole = [q \in 1..c |-> s[q]]
      BY <1>w, <2>2, <2>4, <2>5
    <3>. QED
      BY <3>1
  <2>7. \A p \in 1..c : Ranks(part, c)[p] \in 1..c
    BY <2>1
  <2>. QED
    BY <2>3, <2>6, <2>7
<1>10. \A i \in 1..Len(At(rows, P)) : \E t \in T : At(rows, P)[i] = all[t] /\ whole[i] = hot[t]
  <2>1. SUFFICES ASSUME NEW i \in 1..Cardinality(P)
                 PROVE  \E t \in T : At(rows, P)[i] = all[t] /\ whole[i] = hot[t]
    <3>1. Len(At(rows, P)) = Cardinality(P)
      BY <1>7
    <3>. QED
      BY <3>1, Zenon
  <2>2. PICK k \in P : Upto(P, k) = i /\ At(rows, P)[i] = rows[k]
    BY <1>7
  <2>3. PICK t \in T : rank[t] = k
    BY <1>4
  <2>4. rows[k] = all[t]
    BY <1>1, <1>2, <1>4, <2>3
  <2>5. Ranks(part, c)[Upto(T, t)] = i
    BY <1>8, <2>2, <2>3
  <2>6. whole[i] = hot[t]
    BY <1>6, <1>9, <2>5
  <2>. QED
    BY <2>2, <2>4, <2>6
<1>. QED
  BY <1>n, <1>t, <1>w, <1>10, Zenon

\* The rows that are kept are those sorting puts first.
LEMMA TopRows ==
  ASSUME NEW all, NEW key, NEW limit, Sortable(all, key, limit)
  PROVE  \A rows : rows = Truncate(Sorted(all, key), limit) =>
           /\ Len(rows) \in Nat
           /\ \A k \in 1..Len(rows) : \E t \in 1..Len(all) :
                Ranks(key, Len(all))[t] = k /\ rows[k] = all[t]
           /\ \A t \in 1..Len(all) : Ranks(key, Len(all))[t] \in 1..Len(rows) =>
                rows[Ranks(key, Len(all))[t]] = all[t]
<1>e. SUFFICES ASSUME NEW rows, rows = Truncate(Sorted(all, key), limit)
               PROVE  /\ Len(rows) \in Nat
                      /\ \A k \in 1..Len(rows) : \E t \in 1..Len(all) :
                           Ranks(key, Len(all))[t] = k /\ rows[k] = all[t]
                      /\ \A t \in 1..Len(all) : Ranks(key, Len(all))[t] \in 1..Len(rows) =>
                           rows[Ranks(key, Len(all))[t]] = all[t]
  BY Zenon
<1>a. IsSeq(all) /\ (\A i \in 1..Len(all) : key[i] \in Int) /\ limit \in Nat
  BY DEF Sortable
<1>1. Len(all) \in Nat
  BY <1>a, Elements
<1>2. /\ IsSeq(Sorted(all, key)) /\ Len(Sorted(all, key)) = Len(all)
      /\ \A t \in 1..Len(all) : Sorted(all, key)[Ranks(key, Len(all))[t]] = all[t]
      /\ \A k \in 1..Len(all) : \E t \in 1..Len(all) :
           Ranks(key, Len(all))[t] = k /\ Sorted(all, key)[k] = all[t]
  BY <1>1, <1>a, SortedRows
<1>s. PICK sorted : sorted = Sorted(all, key)
  OBVIOUS
<1>3. IsSeq(sorted) /\ Len(sorted) = Len(all)
  BY <1>2, <1>s
<1>4. /\ IsSeq(rows)
      /\ \A k \in 1..Len(rows) : k \in 1..Len(all) /\ rows[k] = sorted[k]
  <2>1. /\ IsSeq(Truncate(sorted, limit))
        /\ \A k \in 1..Len(Truncate(sorted, limit)) :
             k \in 1..Len(sorted) /\ Truncate(sorted, limit)[k] = sorted[k]
    BY <1>3, <1>a, Truncated
  <2>2. rows = Truncate(sorted, limit)
    BY <1>e, <1>s
  <2>. QED
    BY <1>3, <2>1, <2>2, Zenon
<1>5. Len(rows) \in Nat
  BY <1>4, Elements
<1>6. \A k \in 1..Len(rows) : \E t \in 1..Len(all) :
        Ranks(key, Len(all))[t] = k /\ rows[k] = all[t]
  BY <1>2, <1>4, <1>s
<1>7. \A t \in 1..Len(all) : Ranks(key, Len(all))[t] \in 1..Len(rows) =>
        rows[Ranks(key, Len(all))[t]] = all[t]
  <2>1. \A t \in 1..Len(all) : sorted[Ranks(key, Len(all))[t]] = all[t]
    BY <1>2, <1>s, Zenon
  <2>. QED
    BY <1>4, <2>1, Zenon
<1>. QED
  BY <1>5, <1>6, <1>7

\* The empty filter lets every name pass.
LEMMA NoFilter ==
  ASSUME NEW name, IsSeq(name)
  PROVE  Passes(<<>>, name)
<1>1. name \in Seq(ToSet(name)) /\ Len(name) \in Nat
  BY Elements DEF IsSeq
<1>2. SubSeq(name, 0 + 1, 0) = <<>>
  BY <1>1
<1>3. SubSeq(name, 0 + 1, 0) \in SubSeqs(name)
  <2>1. 0 \in 0..Len(name)
    BY <1>1
  <2>. QED
    BY <2>1 DEF SubSeqs
<1>. QED
  BY <1>2, <1>3, Zenon DEF Passes

\* The methods kept of a reply, or the statements, are the first of those printed.
LEMMA KeptSide ==
  ASSUME NEW reply, CpuReply(reply), NEW sql \in BOOLEAN
  PROVE  LET hot    == reply.hotSpots
             rows   == CpuRows(reply, RowLimit)
             kept   == At(rows, {i \in 1..Len(rows) : /\ (rows[i].sql <=> sql)
                                                      /\ Passes(<<>>, rows[i].name)})
             those  == At(hot, {i \in 1..Len(hot) : hot[i].sql <=> sql})
             whole  == Truncate(Sorted(those, [q \in 1..Len(those) |-> those[q].self]), Len(hot))
         IN \A i \in 1..Len(kept) :
              kept[i].name = whole[i].name /\ kept[i].self = whole[i].self
<1>. DEFINE row(h) == [id |-> MethodId(h.name, reply.nodes), name |-> h.name, sql |-> h.sql,
                       self |-> h.self]
<1>h. PICK hot : hot = reply.hotSpots
  OBVIOUS
<1>n. PICK n \in Nat : n = Len(hot)
  BY <1>h, Elements DEF CpuReply
<1>a. PICK all : all = [i \in 1..n |-> row(hot[i])]
  OBVIOUS
<1>k. PICK key : key = [i \in 1..n |-> hot[i].self]
  OBVIOUS
<1>r. PICK rows : rows = Truncate(Sorted(all, key), RowLimit)
  OBVIOUS
<1>t. PICK T : T = {i \in 1..n : hot[i].sql <=> sql}
  OBVIOUS
<1>p. PICK P : P = {i \in 1..Len(rows) : (rows[i].sql <=> sql) /\ Passes(<<>>, rows[i].name)}
  OBVIOUS
<1>i. PICK those : those = At(hot, T)
  OBVIOUS
<1>f. PICK part : part = [q \in 1..Len(those) |-> those[q].self]
  OBVIOUS
<1>1. /\ IsSeq(hot)
      /\ \A i \in 1..n : IsSeq(hot[i].name) /\ hot[i].sql \in BOOLEAN /\ hot[i].self \in Nat
  <2>1. IsSeq(hot) /\ \A h \in ToSet(hot) : IsSeq(h.name) /\ h.sql \in BOOLEAN /\ h.self \in Nat
    BY <1>h DEF CpuReply
  <2>. QED
    BY <1>n, <2>1, Elements
<1>2. \A i \in 1..n : /\ all[i].name = hot[i].name /\ all[i].sql = hot[i].sql
                      /\ all[i].self = hot[i].self
  BY <1>a
<1>3. IsSeq(all) /\ Len(all) = n
  <2>1. DOMAIN all = 1..n /\ all = [i \in 1..n |-> all[i]]
    BY <1>a
  <2>. QED
    BY <1>n, <2>1, Listed
<1>4. CpuRows(reply, RowLimit) = rows
  <2>. DEFINE given == [i \in 1..Len(reply.hotSpots) |-> row(reply.hotSpots[i])]
              selfs == [i \in 1..Len(given) |-> given[i].self]
  <2>1. CpuRows(reply, RowLimit) = Truncate(Sorted(given, selfs), RowLimit)
    BY Zenon DEF CpuRows, LargestFirst
  <2>2. given = all
    BY <1>a, <1>h, <1>n, Zenon
  <2>3. selfs = key
    <3>. HIDE DEF given
    <3>1. selfs = [i \in 1..Len(all) |-> all[i].self]
      BY <2>2
    <3>2. [i \in 1..n |-> all[i].self] = key
      BY <1>2, <1>k
    <3>. QED
      BY <1>3, <3>1, <3>2, Zenon
  <2>. HIDE DEF given, selfs
  <2>. QED
    BY <1>r, <2>1, <2>2, <2>3, Zenon
<1>5. \A i \in 1..n : key[i] \in Int /\ key[i] = hot[i].self
  BY <1>1, <1>k
<1>6. /\ Len(rows) \in Nat
      /\ \A k \in 1..Len(rows) : \E t \in 1..n : Ranks(key, n)[t] = k /\ rows[k] = all[t]
      /\ \A t \in 1..n : Ranks(key, n)[t] \in 1..Len(rows) => rows[Ranks(key, n)[t]] = all[t]
  <2>1. Sortable(all, key, RowLimit)
    BY <1>3, <1>5, TuiAssumption DEF Sortable
  <2>2. /\ Len(rows) \in Nat
        /\ \A k \in 1..Len(rows) : \E t \in 1..Len(all) :
             Ranks(key, Len(all))[t] = k /\ rows[k] = all[t]
        /\ \A t \in 1..Len(all) : Ranks(key, Len(all))[t] \in 1..Len(rows) =>
             rows[Ranks(key, Len(all))[t]] = all[t]
    <3>1. \A kept : kept = Truncate(Sorted(all, key), RowLimit) =>
            /\ Len(kept) \in Nat
            /\ \A k \in 1..Len(kept) : \E t \in 1..Len(all) :
                 Ranks(key, Len(all))[t] = k /\ kept[k] = all[t]
            /\ \A t \in 1..Len(all) : Ranks(key, Len(all))[t] \in 1..Len(kept) =>
                 kept[Ranks(key, Len(all))[t]] = all[t]
      BY <2>1, TopRows
    <3>. QED
      BY <1>r, <3>1
  <2>. QED
    BY <1>3, <2>2
<1>7. P = SortedTo(key, n, T) \cap 1..Len(rows)
  <2>1. ASSUME NEW k \in 1..Len(rows)
        PROVE  k \in P <=> k \in SortedTo(key, n, T)
    <3>1. PICK t \in 1..n : Ranks(key, n)[t] = k /\ rows[k] = all[t]
      BY <1>6
    <3>2. Passes(<<>>, rows[k].name) /\ rows[k].sql = hot[t].sql
      <4>1. Passes(<<>>, hot[t].name)
        BY <1>1, NoFilter
      <4>. QED
        BY <1>2, <3>1, <4>1
    <3>3. k \in P <=> t \in T
      BY <1>p, <1>t, <3>2
    <3>4. k \in SortedTo(key, n, T) => t \in T
      <4>1. SUFFICES ASSUME NEW u \in T, Ranks(key, n)[u] = k  PROVE t \in T
        BY Zenon DEF SortedTo
      <4>2. u \in 1..n /\ (hot[u].sql <=> sql)
        BY <1>t
      <4>3. rows[k] = all[u]
        BY <1>6, <4>1, <4>2
      <4>4. hot[t].sql <=> sql
        BY <1>2, <3>1, <4>2, <4>3
      <4>. QED
        BY <1>t, <4>4
    <3>5. t \in T => k \in SortedTo(key, n, T)
      BY <3>1, Zenon DEF SortedTo
    <3>. QED
      BY <3>3, <3>4, <3>5
  <2>2. \A k \in P : k \in 1..Len(rows)
    BY <1>p
  <2>. QED
    BY <2>1, <2>2
<1>8. /\ \A t \in T : part[Upto(T, t)] = key[t]
      /\ \A q \in 1..Cardinality(T) : part[q] \in Int
  <2>1. T \in SUBSET (1..n) /\ \A t \in T : key[t] = hot[t].self /\ hot[t].self \in Int
    BY <1>1, <1>5, <1>t
  <2>2. Len(At(hot, T)) = Cardinality(T)
    BY <1>n, <2>1, AtPlaces, Zenon
  <2>3. \A t \in T : Upto(T, t) \in 1..Cardinality(T) /\ At(hot, T)[Upto(T, t)] = hot[t]
    BY <1>n, <2>1, AtPlaces, Zenon
  <2>4. \A q \in 1..Cardinality(T) : \E t \in T : Upto(T, t) = q /\ At(hot, T)[q] = hot[t]
    BY <1>n, <2>1, AtPlaces, Zenon
  <2>5. \A q \in 1..Cardinality(T) : part[q] = those[q].self
    BY <1>f, <1>i, <2>2
  <2>6. \A t \in T : part[Upto(T, t)] = key[t]
    BY <1>i, <2>1, <2>3, <2>5
  <2>7. \A q \in 1..Cardinality(T) : part[q] \in Int
    BY <1>i, <2>1, <2>4, <2>5
  <2>. QED
    BY <2>6, <2>7
<1>9. \A i \in 1..Len(At(rows, P)) : \E t \in T :
        At(rows, P)[i] = all[t] /\ Truncate(Sorted(those, part), n)[i] = hot[t]
  <2>1. Sortable(all, key, RowLimit)
    BY <1>3, <1>5, TuiAssumption DEF Sortable
  <2>0. Picked(all, key, T, part)
    BY <1>3, <1>8, <1>t DEF Picked
  <2>2. P = SortedTo(key, Len(all), T) \cap 1..Len(rows)
    BY <1>3, <1>7, Zenon
  <2>3. \A i \in 1..Len(At(rows, P)) : \E t \in T :
          /\ At(rows, P)[i] = all[t]
          /\ Truncate(Sorted(At(hot, T), part), Len(all))[i] = hot[t]
    <3>1. \A given, places :
            /\ given = Truncate(Sorted(all, key), RowLimit)
            /\ places = SortedTo(key, Len(all), T) \cap 1..Len(given)
            => \A i \in 1..Len(At(given, places)) : \E t \in T :
                 /\ At(given, places)[i] = all[t]
                 /\ Truncate(Sorted(At(hot, T), part), Len(all))[i] = hot[t]
      BY <2>0, <2>1, KeptFirst
    <3>. QED
      BY <1>r, <2>2, <3>1
  <2>. QED
    BY <1>3, <1>i, <2>3, Zenon
<1>10. \A i \in 1..Len(At(rows, P)) :
         /\ At(rows, P)[i].name = Truncate(Sorted(those, part), n)[i].name
         /\ At(rows, P)[i].self = Truncate(Sorted(those, part), n)[i].self
  BY <1>2, <1>9, <1>t
<1>. HIDE DEF row
<1>11. /\ CpuRows(reply, RowLimit) = rows
       /\ {i \in 1..Len(rows) : (rows[i].sql <=> sql) /\ Passes(<<>>, rows[i].name)} = P
       /\ At(reply.hotSpots, {i \in 1..Len(reply.hotSpots) : reply.hotSpots[i].sql <=> sql}) = those
       /\ [q \in 1..Len(those) |-> those[q].self] = part
       /\ Len(reply.hotSpots) = n
  <2>1. {i \in 1..Len(rows) : (rows[i].sql <=> sql) /\ Passes(<<>>, rows[i].name)} = P
    BY <1>p
  <2>2. At(reply.hotSpots, {i \in 1..Len(reply.hotSpots) : reply.hotSpots[i].sql <=> sql}) = those
    BY <1>h, <1>n, <1>t, <1>i, Zenon
  <2>3. [q \in 1..Len(those) |-> those[q].self] = part
    BY <1>f
  <2>. QED
    BY <1>h, <1>n, <1>4, <2>1, <2>2, <2>3
<1>. DEFINE given == CpuRows(reply, RowLimit)
            places == {i \in 1..Len(given) : (given[i].sql <=> sql) /\ Passes(<<>>, given[i].name)}
            picked == At(reply.hotSpots,
                         {i \in 1..Len(reply.hotSpots) : reply.hotSpots[i].sql <=> sql})
            selfs == [q \in 1..Len(picked) |-> picked[q].self]
<1>12. At(given, places) = At(rows, P)
  BY <1>11, Zenon
<1>13. selfs = part /\ picked = those
  <2>1. picked = those
    BY <1>11, Zenon
  <2>. HIDE DEF picked
  <2>. QED
    BY <1>11, <2>1
<1>. HIDE DEF given, places, picked, selfs
<1>14. \A i \in 1..Len(At(given, places)) :
         /\ At(given, places)[i].name
              = Truncate(Sorted(picked, selfs), Len(reply.hotSpots))[i].name
         /\ At(given, places)[i].self
              = Truncate(Sorted(picked, selfs), Len(reply.hotSpots))[i].self
  <2>1. Len(reply.hotSpots) = n
    BY <1>11
  <2>2. Truncate(Sorted(picked, selfs), Len(reply.hotSpots)) = Truncate(Sorted(those, part), n)
    BY <1>13, <2>1
  <2>. QED
    BY <1>10, <1>12, <2>2
<1>. QED
  BY <1>14, Zenon DEF given, places, picked, selfs

LEMMA KeptPrinted ==
  ASSUME NEW reply, CpuReply(reply)
  PROVE  KeptArePrinted(reply)
<1>. DEFINE rows    == CpuRows(reply, RowLimit)
            hot     == reply.hotSpots
            passes(sql) == {i \in 1..Len(rows) :
                              (rows[i].sql <=> sql) /\ Passes(<<>>, rows[i].name)}
            those(sql) == At(hot, {i \in 1..Len(hot) : hot[i].sql <=> sql})
            printed(sql) == Truncate(Sorted(those(sql), [q \in 1..Len(those(sql)) |->
                                                           those(sql)[q].self]), Len(hot))
            methods == {i \in 1..Len(rows) : ~rows[i].sql /\ Passes(<<>>, rows[i].name)}
            method  == {i \in 1..Len(hot) : ~hot[i].sql}
            statements == {i \in 1..Len(rows) : rows[i].sql /\ Passes(<<>>, rows[i].name)}
            statement  == {i \in 1..Len(hot) : hot[i].sql}
            sorted(s) == Truncate(Sorted(s, [q \in 1..Len(s) |-> s[q].self]), Len(hot))
<1>1. \A sql \in BOOLEAN : \A i \in 1..Len(At(rows, passes(sql))) :
        /\ At(rows, passes(sql))[i].name = printed(sql)[i].name
        /\ At(rows, passes(sql))[i].self = printed(sql)[i].self
  BY KeptSide, Zenon
<1>2. MethodRows(rows, <<>>) = At(rows, methods)
  BY Zenon DEF MethodRows, Those
<1>3. StatementRows(rows, <<>>) = At(rows, statements)
  BY Zenon DEF StatementRows, Those
<1>4. PrintedMethods(reply, Len(hot)) = sorted(At(hot, method))
  BY Zenon DEF PrintedMethods, Those, LargestFirst
<1>5. PrintedStatements(reply, Len(hot)) = sorted(At(hot, statement))
  BY Zenon DEF PrintedStatements, Those, LargestFirst
<1>. HIDE DEF rows, hot
<1>6. methods = passes(FALSE) /\ method = {i \in 1..Len(hot) : hot[i].sql <=> FALSE}
  OBVIOUS
<1>7. statements = passes(TRUE) /\ statement = {i \in 1..Len(hot) : hot[i].sql <=> TRUE}
  OBVIOUS
<1>8. sorted(At(hot, method)) = printed(FALSE) /\ sorted(At(hot, statement)) = printed(TRUE)
  BY <1>6, <1>7, Zenon
<1>. HIDE DEF passes, those, printed, methods, method, statements, statement, sorted
<1>9. \A i \in 1..Len(MethodRows(rows, <<>>)) :
        /\ MethodRows(rows, <<>>)[i].name = PrintedMethods(reply, Len(hot))[i].name
        /\ MethodRows(rows, <<>>)[i].self = PrintedMethods(reply, Len(hot))[i].self
  BY <1>1, <1>2, <1>4, <1>6, <1>8
<1>10. \A i \in 1..Len(StatementRows(rows, <<>>)) :
         /\ StatementRows(rows, <<>>)[i].name = PrintedStatements(reply, Len(hot))[i].name
         /\ StatementRows(rows, <<>>)[i].self = PrintedStatements(reply, Len(hot))[i].self
  BY <1>1, <1>3, <1>5, <1>7, <1>8
<1>. QED
  BY <1>9, <1>10 DEF KeptArePrinted, rows, hot

(* A table reads the same on the screen, on the clipboard and where it is  *)
(* printed without the terminal, whatever the agent replies.               *)
THEOREM TablesAgreeHolds == Spec => []TablesAgree
<1>1. TablesOK => TablesAgree
  <2>. SUFFICES ASSUME TablesOK  PROVE TablesAgree
    OBVIOUS
  <2>1. Cursors(cpu) /\ Cursors(memory) /\ Cursors(db) /\ CpuTable(cpu) /\ MemoryTable(memory)
    BY DEF TablesOK
  <2>2. \A reply \in scenario.cpu : KeptArePrinted(reply)
    BY KeptPrinted, TuiAssumption DEF TablesOK
  <2>3. ASSUME view = "CpuHotSpots", NEW room \in Rooms,
             NEW row \in Drawn(selected, cpu, memory, db, room)
        PROVE  row.item \in ToSet(Copied(cpu, memory))
    <3>1. row \in DrawnMethods(cpu, room) /\ Copied(cpu, memory) = NavigableItems(cpu)
      BY <2>3 DEF Drawn, Copied
    <3>. DEFINE drawn == CpuItems(cpu.rows, cpu.edges, filter, cpu.expanded, ShownCallees)
    <3>2. IsSeq(drawn) /\ ToSet(drawn) \subseteq ToSet(NavigableItems(cpu))
      BY <2>1, ItemsShown
    <3>3. row \in Page(cpu, drawn, room)
      BY <3>1 DEF DrawnMethods
    <3>. HIDE DEF drawn
    <3>4. row.item \in ToSet(drawn)
      BY <2>1, <3>2, <3>3, PageRow, TuiAssumption
    <3>. QED
      BY <3>1, <3>2, <3>4
  <2>4. ASSUME view = "Allocations", NEW room \in Rooms,
             NEW row \in Drawn(selected, cpu, memory, db, room)
        PROVE  row.item \in ToSet(Copied(cpu, memory))
    <3>1. row \in Page(memory, VisibleSites(memory), room) /\ Copied(cpu, memory) = VisibleSites(memory)
      BY <2>4 DEF Drawn, Copied, DrawnSites
    <3>2. IsSeq(VisibleSites(memory))
      BY <2>1, SitesShown
    <3>. QED
      BY <2>1, <3>1, <3>2, PageRow, TuiAssumption
  <2>5. ASSUME view = "Jdbc", NEW room \in Rooms,
             NEW row \in Drawn(selected, cpu, memory, db, room)
        PROVE  row.item \in ToSet(Copied(cpu, memory))
    <3>1. /\ row \in Page(db, StatementRows(cpu.rows, filter), room)
          /\ Copied(cpu, memory) = StatementRows(cpu.rows, filter)
      BY <2>5 DEF Drawn, Copied, DrawnStatements
    <3>2. IsSeq(StatementRows(cpu.rows, filter))
      BY <2>1, StatementsShown DEF CpuTable
    <3>. QED
      BY <2>1, <3>1, <3>2, PageRow, TuiAssumption
  <2>6. ASSUME view \notin {"StartCenter", "CpuHotSpots", "Allocations", "Jdbc"}
        PROVE  \A room \in Rooms : Drawn(selected, cpu, memory, db, room) = {}
    BY <2>6 DEF Drawn
  <2>. QED
    BY <2>2, <2>3, <2>4, <2>5, <2>6 DEF TablesAgree
<1>. QED
  BY <1>1, TablesHold, PTL
=============================================================================
