-------------------------------- MODULE Tui --------------------------------
(***************************************************************************)
(* The terminal application: app.rs and event.rs, as run_terminal drives   *)
(* them.  One thread takes keys, polls the workers' answers and updates    *)
(* what is due; a worker's answer comes at any time, and a query replaced  *)
(* by a newer one is never answered.  A key may be any of the scenario's:  *)
(* KeyDebounce drops some, which is no step at all.                        *)
(*                                                                         *)
(* Recording, its commands and the agent's port are those of CpuSession:   *)
(* here a start or a stop just takes effect, and what comes from the port, *)
(* which may be another JVM's agent (RightJvm of CpuSession) or nobody's,  *)
(* is any agent's.  Sizes stand for instances and bytes.  Views that no    *)
(* category lists cannot be reached, nor can their queries; they are left  *)
(* out.                                                                    *)
(***************************************************************************)
EXTENDS HotSpotTables

CONSTANTS
  Jvms, None,   \* Java processes of this machine; none of them
  Tools,        \* those that are jps, jcmd or this program itself
  Demo,         \* those that look like the demo server
  Letters,      \* letters a filter is typed with
  PageRows,     \* DEFAULT_PAGE_ROWS (20 in the code): a page of the keys
  Rooms,        \* how many rows a table may have room for on the terminal
  RowLimit,     \* CPU rows kept of a reply (250 in the code)
  ShownCallees, \* callees drawn under a method (12 in the code)
  SampleLimit,  \* telemetry samples kept (240 in the code)
  FilterLimit,  \* bound: letters of a filter
  Scenarios     \* what users press and workers answer in one behaviour

\* Replies as the agents make them: times and sizes are natural numbers, and an
\* allocation site is numbered after the one above it (Rows of NativeAgent).
CpuReply(r) ==
  /\ IsSeq(r.hotSpots) /\ IsSeq(r.nodes) /\ IsSeq(r.edges)
  /\ \A h \in ToSet(r.hotSpots) : IsSeq(h.name) /\ h.sql \in BOOLEAN /\ h.self \in Nat

MemoryReply(r) ==
  /\ IsSeq(r.lines) /\ IsSeq(r.nodes)
  /\ \A l \in ToSet(r.lines) : l.bytes \in Nat
  /\ \A n \in ToSet(r.nodes) :
       n.id \in Nat /\ n.parent \in NoId..(n.id - 1) /\ n.size \in Nat

ASSUME TuiAssumption ==
  /\ None \notin Jvms /\ Demo \subseteq Jvms /\ Tools \subseteq Jvms
  /\ PageRows \in Nat \ {0} /\ Rooms \subseteq Nat /\ RowLimit \in Nat \ {0} /\ ShownCallees \in Nat
  /\ SampleLimit \in Nat \ {0} /\ FilterLimit \in Nat
  /\ \A s \in Scenarios :
       /\ s.lists \subseteq Seq(Jvms)
       /\ \A r \in s.cpu : CpuReply(r)
       /\ \A r \in s.memory : MemoryReply(r)

VARIABLES
  scenario,
  view, category, item, \* selected_view, selected_category_idx, selected_item_idx
  focus, mode, help, filter,
  jvms, selected,
  recording,            \* cpu.recording
  telemetry,            \* its samples, and whose cpu time was read last
  memory, cpu, db,      \* MemoryState, CpuState, DatabaseState
  jvmsQuery, cpuQuery,  \* jvms_query, thread_query: one is under way
  telemetryQuery, memoryQuery \* the one under way, if any: a set of what it was asked with

nav     == <<view, category, item, focus>>
input   == <<mode, help, filter>>
tables  == <<telemetry, memory, cpu, db>>
queries == <<jvmsQuery, cpuQuery, telemetryQuery, memoryQuery>>
vars    == <<scenario, nav, input, jvms, selected, recording, tables, queries>>

Categories == <<<<"Telemetries">>, <<"CpuHotSpots">>, <<"Allocations">>, <<"Jdbc">>>>

Cursor == [sel |-> 0, off |-> 0]

\* App::new; main spawns the first spawn_refresh_jvms.
Init ==
  /\ scenario \in Scenarios
  /\ view = "StartCenter" /\ category = 1 /\ item = 1
  /\ focus = "sidebar" /\ mode = "normal" /\ help = FALSE /\ filter = <<>>
  /\ jvms = <<>> /\ selected = None
  /\ recording = FALSE
  /\ telemetry = [samples |-> <<>>, last |-> None]
  /\ memory = [rows |-> <<>>, tree |-> <<>>, previous |-> <<>>, mark |-> {}, expanded |-> {},
               loaded |-> FALSE, of |-> None, sel |-> 0, off |-> 0]
  /\ cpu = [rows |-> <<>>, edges |-> <<>>, expanded |-> {}, sel |-> 0, off |-> 0]
  /\ db = Cursor
  /\ jvmsQuery = TRUE /\ cpuQuery = FALSE
  /\ telemetryQuery = {} /\ memoryQuery = {}

----------------------------------------------------------------------------
(* What the tables show.                                                   *)

\* allocation_hotspot_rows: the tree, or the histogram without one.
Sites(m) ==
  LET passes(r) == Passes(filter, r.name)
  IN IF m.tree # <<>> THEN Those(m.tree, passes) ELSE HistogramRows(m.rows, m.mark, filter)

VisibleSites(m) == IF filter # <<>> THEN Sites(m) ELSE VisibleTree(Sites(m), m.expanded)

\* visible_hotspot_row_count and selected_hotspot_method_id count every callee.
NavigableItems(c) == CpuItems(c.rows, c.edges, filter, c.expanded, Len(c.edges))

\* Mutant: the index is advanced before it is compared.
NextMethod ==
  LET items == NavigableItems(cpu)
  IN IF cpu.sel + 1 < Len(items) THEN items[cpu.sel + 2].id ELSE NoId

SelectedMethod ==
  LET items == NavigableItems(cpu)
  IN IF cpu.sel < Len(items) THEN items[cpu.sel + 1].id ELSE NoId

SelectedSite ==
  LET sites == VisibleSites(memory)
  IN IF memory.sel < Len(sites) THEN sites[memory.sel + 1].id ELSE NoId

\* What is drawn of a table's items, from the offset on as many as there is room for;
\* two of the tables show the highlight only while they have the focus.
Page(t, items, room) ==
  {[item |-> items[i], highlighted |-> i - 1 = t.sel] :
     i \in {k \in 1..Len(items) : k - 1 >= t.off /\ k - 1 < t.off + room}}

DrawnJvms(chosen) == {[item |-> jvm, highlighted |-> jvm = chosen] : jvm \in ToSet(jvms)}
DrawnMethods(c, room) ==
  Page(c, CpuItems(c.rows, c.edges, filter, c.expanded, ShownCallees), room)
DrawnSites(m, room) == Page(m, VisibleSites(m), room)
DrawnStatements(c, d, room) == Page(d, StatementRows(c.rows, filter), room)

\* render_content; the telemetry has no rows.
Drawn(chosen, c, m, d, room) ==
  CASE view = "StartCenter" -> DrawnJvms(chosen)
    [] view = "CpuHotSpots" -> DrawnMethods(c, room)
    [] view = "Allocations" -> DrawnSites(m, room)
    [] view = "Jdbc"        -> DrawnStatements(c, d, room)
    [] OTHER                -> {}

\* current_view_copy_text: what c puts on the clipboard.
Copied(c, m) ==
  CASE view = "CpuHotSpots" -> NavigableItems(c)
    [] view = "Allocations" -> VisibleSites(m)
    [] view = "Jdbc"        -> StatementRows(c.rows, filter)
    [] OTHER                -> <<>>

\* render_sidebar.
Marked(c) == c = category \/ \E i \in 1..Len(Categories[c]) : Categories[c][i] = view

\* Mutant: a page follows its highlight only downwards.
KeepVisibleDown(t) ==
  [t EXCEPT !.off = IF t.sel >= @ + PageRows THEN t.sel - PageRows + 1 ELSE @]

\* keep_visible, for a page of PageRows.
KeepVisible(t) ==
  [t EXCEPT !.off = CASE t.sel < @             -> t.sel
                      [] t.sel >= @ + PageRows -> t.sel - PageRows + 1
                      [] OTHER                 -> @]

LastIndex(count) == Max({count - 1, 0})

Clamped(t, count) == [t EXCEPT !.sel = Min({@, LastIndex(count)})]

\* move_index: only a way down is bounded by the rows there are.
Moved(t, delta, count) ==
  KeepVisible([t EXCEPT !.sel = IF delta < 0 THEN Max({@ + delta, 0})
                                ELSE Min({@ + delta, LastIndex(count)})])

----------------------------------------------------------------------------
(* Queries.                                                                *)

\* spawn_refresh_telemetry and spawn_refresh_live_memory replace what is under way.
AskTelemetry(jvm, session) == telemetryQuery' = {[jvm |-> jvm, session |-> session]}

\* Mutant: that the memory was asked for is not remembered.
AskMemoryAgain ==
  /\ memoryQuery' = {[jvm |-> selected, previous |-> memory.previous]}
  /\ UNCHANGED memory

AskMemory ==
  /\ memoryQuery' = {[jvm |-> selected, previous |-> memory.previous]}
  /\ memory' = [memory EXCEPT !.loaded = TRUE]

\* Mutant: a new list takes the default again.
DefaultAgain(list, current) ==
  LET demos == {i \in 1..Len(list) : list[i] \in Demo}
  IN IF list = <<>> THEN current
     ELSE IF demos # {} THEN list[FirstOf(demos)] ELSE Head(list)

\* The first JVM of the list, or the first that looks like the demo server.
Default(list, current) ==
  LET demos == {i \in 1..Len(list) : list[i] \in Demo}
  IN IF current # None \/ list = <<>> THEN current
     ELSE IF demos # {} THEN list[FirstOf(demos)] ELSE Head(list)

\* parse_jps_line, line by line.
Targets(processes) ==
  LET target(p) == p \notin Tools IN Those(processes, target)

\* jps answers with a list, or with an error.
JvmsAnswer ==
  /\ jvmsQuery /\ jvmsQuery' = FALSE
  /\ \/ \E list \in scenario.lists :
            jvms' = Targets(list) /\ selected' = Default(Targets(list), selected)
     \/ UNCHANGED <<jvms, selected>>
  /\ UNCHANGED <<scenario, nav, input, recording, tables, cpuQuery, telemetryQuery, memoryQuery>>

\* query_process: its cpu time is read, or nothing is.
QueryProcess(jvm) == {jvm, None}

\* Mutant: the first reading is kept.
FirstRead(read) == IF telemetry.last = None THEN read ELSE telemetry.last

\* The process whose cpu time the next reading is compared with.
LastRead(read) == IF read # None THEN read ELSE telemetry.last

TelemetryAnswer ==
  \E q \in telemetryQuery : \E read \in QueryProcess(q.jvm) :
    /\ scenario.telemetry
    /\ LET sample == [jvm |-> q.jvm, session |-> q.session, since |-> telemetry.last,
                      known |-> read # None]
           all == Append(telemetry.samples, sample)
       IN telemetry' = [samples |-> SubSeq(all, Max({1, Len(all) - SampleLimit + 1}), Len(all)),
                        last |-> LastRead(read)]
    /\ telemetryQuery' = {}
    /\ UNCHANGED <<scenario, nav, input, jvms, selected, recording, memory, cpu, db,
                   jvmsQuery, cpuQuery, memoryQuery>>

\* Mutant: a class that is new has grown by all of its bytes.
ComparedWithNone(rows, previous) ==
  LET grown(r) == IF r.name \in DOMAIN previous THEN r.bytes - previous[r.name] ELSE r.bytes
      row(r) == [name |-> r.name, bytes |-> r.bytes, delta |-> grown(r)]
  IN [i \in 1..Len(rows) |-> row(rows[i])]

\* The worker compares a histogram with the one it was given.
Compared(rows, previous) ==
  LET grown(r) == IF r.name \in DOMAIN previous THEN r.bytes - previous[r.name] ELSE 0
      row(r) == [name |-> r.name, bytes |-> r.bytes, delta |-> grown(r)]
  IN [i \in 1..Len(rows) |-> row(rows[i])]

\* query_allocation_hotspots: what the agent on the agent's port has, if any answers.
AllocationHotspots == {reply.nodes : reply \in scenario.memory} \cup {<<>>}

\* jcmd answers with the histogram of the JVM asked about, and whatever agent is on the
\* port with its sites.  The index is clamped to the table shown, or to the histogram
\* when that is another view's.
MemoryAnswer(reply) ==
  \E q \in memoryQuery, sites \in AllocationHotspots :
    /\ Histogram(reply.lines) # <<>>
    /\ LET rows == Compared(Histogram(reply.lines), q.previous)
           names == {r.name : r \in ToSet(rows)}
           bytes(n) == (CHOOSE r \in ToSet(rows) : r.name = n).bytes
           passes(r) == Passes(filter, r.name)
           new == [memory EXCEPT !.rows = rows, !.tree = AllocationRows(sites),
                                 !.previous = [n \in names |-> bytes(n)], !.of = q.jvm]
           count == IF view = "Allocations" THEN Len(VisibleSites(new))
                    ELSE Len(Those(rows, passes))
       IN memory' = KeepVisible(Clamped(new, count))
    /\ memoryQuery' = {}
    /\ UNCHANGED <<scenario, nav, input, jvms, selected, recording, telemetry, cpu, db,
                   jvmsQuery, cpuQuery, telemetryQuery>>

CpuAnswer(reply) ==
  /\ cpuQuery /\ cpuQuery' = FALSE
  /\ LET rows == CpuRows(reply, RowLimit)
         new  == [cpu EXCEPT !.rows = rows, !.edges = reply.edges]
     IN /\ cpu' = KeepVisible(Clamped(new, Len(NavigableItems(new))))
        /\ db' = KeepVisible(Clamped(db, Len(StatementRows(rows, filter))))
  /\ UNCHANGED <<scenario, nav, input, jvms, selected, recording, telemetry, memory,
                 jvmsQuery, telemetryQuery, memoryQuery>>

\* A histogram fails or has no rows, a fetch fails: a line in the log.
MemoryError ==
  /\ memoryQuery # {} /\ memoryQuery' = {}
  /\ UNCHANGED <<scenario, nav, input, jvms, selected, recording, tables, jvmsQuery, cpuQuery,
                 telemetryQuery>>

CpuError ==
  /\ cpuQuery /\ cpuQuery' = FALSE
  /\ UNCHANGED <<scenario, nav, input, jvms, selected, recording, tables, jvmsQuery,
                 telemetryQuery, memoryQuery>>

\* A start or a stop has succeeded.
Recorded ==
  /\ scenario.records /\ view # "StartCenter" /\ selected # None
  /\ recording' = ~recording
  /\ cpuQuery' = (cpuQuery \/ recording')
  /\ UNCHANGED <<scenario, nav, input, jvms, selected, tables, jvmsQuery, telemetryQuery,
                 memoryQuery>>

Poll ==
  \/ JvmsAnswer
  \/ TelemetryAnswer
  \/ \E reply \in scenario.memory : MemoryAnswer(reply)
  \/ \E reply \in scenario.cpu : CpuAnswer(reply)
  \/ MemoryError \/ CpuError
  \/ Recorded

\* auto_update; due: auto_update_secs have passed since last_tick.
AutoUpdate(due) ==
  /\ selected # None \/ recording
  /\ IF due /\ selected # None /\ telemetryQuery = {}
     THEN AskTelemetry(selected, view # "StartCenter") ELSE UNCHANGED telemetryQuery
  /\ cpuQuery' = (cpuQuery \/ (due /\ recording))
  /\ IF ~memory.loaded /\ selected # None /\ view = "Allocations"
     THEN IF memoryQuery = {} THEN AskMemory
          ELSE memory' = [memory EXCEPT !.loaded = TRUE] /\ UNCHANGED memoryQuery
     ELSE UNCHANGED <<memory, memoryQuery>>
  /\ UNCHANGED <<scenario, nav, input, jvms, selected, recording, telemetry, cpu, db, jvmsQuery>>

----------------------------------------------------------------------------
(* Keys.                                                                   *)

Key(k) == k \in scenario.keys /\ mode = "normal" /\ ~help

Main(v) == focus = "main" /\ view = v

\* A table has the focus and its own use of the keys.
MethodTable    == Main("CpuHotSpots") /\ cpu.rows # <<>>
SiteTable      == Main("Allocations")
StatementTable == Main("Jdbc")

Delta == [Down |-> 1, Up |-> -1, PageDown |-> PageRows, PageUp |-> -PageRows]

\* next_jvm or prev_jvm, as often as delta says; a selection not in the list goes first.
SelectJvm(delta) ==
  LET at == {i \in 1..Len(jvms) : jvms[i] = selected}
      start == IF at # {} THEN FirstOf(at) - 1 ELSE IF delta > 0 THEN -1 ELSE 1
  IN /\ view = "StartCenter"
     /\ jvms # <<>>
     /\ selected' = jvms[((start + delta) % Len(jvms)) + 1]
     /\ cpu' = [cpu EXCEPT !.rows = <<>>, !.edges = <<>>, !.expanded = {}, !.sel = 0]
     /\ UNCHANGED <<scenario, nav, input, jvms, recording, telemetry, memory, db, queries>>

MoveInTable(delta) ==
  /\ \/ /\ MethodTable
        /\ cpu' = Moved(cpu, delta, Len(NavigableItems(cpu))) /\ UNCHANGED <<memory, db>>
     \/ /\ SiteTable
        /\ memory' = Moved(memory, delta, Len(VisibleSites(memory))) /\ UNCHANGED <<cpu, db>>
     \/ /\ StatementTable
        /\ db' = Moved(db, delta, Len(StatementRows(cpu.rows, filter)))
        /\ UNCHANGED <<memory, cpu>>
  /\ UNCHANGED <<scenario, nav, input, jvms, selected, recording, telemetry, queries>>

\* Mutant: the sidebar stays where it was.
GoToView(c, i) == view' = Categories[c][i] /\ UNCHANGED <<category, item>>

\* go_to_view and go_to_first_view_in_category.
GoTo(c, i) == category' = c /\ item' = i /\ view' = Categories[c][i]

NextCategory(by) == GoTo(((category - 1 + by) % Len(Categories)) + 1, 1)

MoveInSidebar(delta) ==
  LET step == IF delta < 0 THEN -1 ELSE 1
  IN /\ view # "StartCenter" /\ ~(MethodTable \/ SiteTable \/ StatementTable)
     /\ IF item + step \in 1..Len(Categories[category]) THEN GoTo(category, item + step)
        ELSE NextCategory(step)
     /\ UNCHANGED <<scenario, focus, input, jvms, selected, recording, tables, queries>>

Move ==
  \E k \in DOMAIN Delta :
    Key(k) /\ (SelectJvm(Delta[k]) \/ MoveInTable(Delta[k]) \/ MoveInSidebar(Delta[k]))

Toggled(set, id) == IF id \in set THEN set \ {id} ELSE set \cup {id}

\* Right and enter: toggle_selected_hotspot_expanded and its like for allocations.
Expand ==
  /\ Key("Right") \/ Key("Enter")
  /\ \/ /\ MethodTable
        /\ cpu' = IF SelectedMethod # NoId
                     /\ Children(SelectedMethod, cpu.rows, cpu.edges) # <<>>
                  THEN [cpu EXCEPT !.expanded = Toggled(@, SelectedMethod)] ELSE cpu
        /\ UNCHANGED memory
     \/ /\ SiteTable
        /\ LET new == [memory EXCEPT !.expanded = Toggled(@, SelectedSite)] IN
             memory' = IF HasChildren(SelectedSite, Sites(memory)) /\ SelectedSite # NoId
                       THEN Clamped(new, Len(VisibleSites(new))) ELSE memory
        /\ UNCHANGED cpu
  /\ UNCHANGED <<scenario, nav, input, jvms, selected, recording, telemetry, db, queries>>

\* Left: the index stays, whatever is left of the rows.
Collapse ==
  /\ Key("Left")
  /\ \/ MethodTable /\ cpu' = [cpu EXCEPT !.expanded = @ \ {SelectedMethod}] /\ UNCHANGED memory
     \/ SiteTable /\ memory' = [memory EXCEPT !.expanded = @ \ {SelectedSite}] /\ UNCHANGED cpu
  /\ UNCHANGED <<scenario, nav, input, jvms, selected, recording, telemetry, db, queries>>

\* Left and right elsewhere, the start center included.
Sideways ==
  /\ ~MethodTable /\ ~SiteTable
  /\ \/ Key("Left") /\ NextCategory(-1)
     \/ Key("Right") /\ NextCategory(1)
  /\ UNCHANGED <<scenario, focus, input, jvms, selected, recording, tables, queries>>

\* Enter, or s, in the start center: start_selected_jvm_session.
StartSession ==
  /\ Key("Enter") /\ view = "StartCenter"
  /\ selected' = Default(jvms, selected)
  /\ IF selected' = None THEN UNCHANGED <<view, category, item, telemetryQuery>>
     ELSE GoTo(1, 1) /\ AskTelemetry(selected', TRUE)
  /\ UNCHANGED <<scenario, focus, input, jvms, recording, tables, jvmsQuery, cpuQuery,
                 memoryQuery>>

\* Enter in the sidebar, or in a view without a use for it.
OpenItem ==
  /\ Key("Enter") /\ view # "StartCenter" /\ ~MethodTable /\ ~SiteTable
  /\ GoTo(category, item)
  /\ UNCHANGED <<scenario, focus, input, jvms, selected, recording, tables, queries>>

\* Keys 1 to 4.
Jump ==
  /\ \E c \in 1..Len(Categories) : Key(Categories[c][1]) /\ GoTo(c, 1)
  /\ UNCHANGED <<scenario, focus, input, jvms, selected, recording, tables, queries>>

SwitchFocus ==
  /\ Key("Tab") /\ focus' = IF focus = "main" THEN "sidebar" ELSE "main"
  /\ UNCHANGED <<scenario, view, category, item, input, jvms, selected, recording, tables,
                 queries>>

\* refresh_current.
Refresh ==
  /\ Key("Refresh")
  /\ jvmsQuery' = TRUE
  /\ IF selected # None THEN AskTelemetry(selected, view # "StartCenter")
     ELSE UNCHANGED telemetryQuery
  /\ IF selected # None /\ view = "Allocations" THEN AskMemory
     ELSE UNCHANGED <<memory, memoryQuery>>
  /\ UNCHANGED <<scenario, nav, input, jvms, selected, recording, telemetry, cpu, db, cpuQuery>>

MarkHeap ==
  /\ Key("Mark") /\ memory.rows # <<>>
  /\ memory' = [memory EXCEPT !.mark = {memory.previous}]
  /\ UNCHANGED <<scenario, nav, input, jvms, selected, recording, telemetry, cpu, db, queries>>

\* The help takes every key but ? and, to close it, escape.
ToggleHelp ==
  /\ "Help" \in scenario.keys /\ mode = "normal" /\ help' = ~help
  /\ UNCHANGED <<scenario, nav, mode, filter, jvms, selected, recording, tables, queries>>

EnterFilter ==
  /\ Key("Filter") /\ mode' = "filter" /\ filter' = <<>>
  /\ UNCHANGED <<scenario, nav, help, jvms, selected, recording, tables, queries>>

\* handle_filter_input: a letter, backspace, or escape and enter, which keep the filter.
TypeFilter ==
  /\ mode = "filter"
  /\ \/ \E l \in Letters :
          Len(filter) < FilterLimit /\ filter' = Append(filter, l) /\ UNCHANGED mode
     \/ filter # <<>> /\ filter' = Front(filter) /\ UNCHANGED mode
     \/ mode' = "normal" /\ UNCHANGED filter
  /\ UNCHANGED <<scenario, nav, help, jvms, selected, recording, tables, queries>>

HandleKey ==
  \/ Move \/ Expand \/ Collapse \/ Sideways \/ StartSession \/ OpenItem \/ Jump
  \/ SwitchFocus \/ Refresh \/ MarkHeap \/ ToggleHelp \/ EnterFilter \/ TypeFilter

Next == Poll \/ (\E due \in BOOLEAN : AutoUpdate(due)) \/ HandleKey

Spec == Init /\ [][Next]_vars

\* The loop runs for ever, and jcmd answers a query that is not replaced.
Fairness ==
  /\ WF_vars(AutoUpdate(FALSE))
  /\ WF_vars(MemoryError \/ \E reply \in scenario.memory : MemoryAnswer(reply))

FairSpec == Spec /\ Fairness

----------------------------------------------------------------------------
(* Properties.                                                             *)

(* The types of the variables.                                             *)
TypeOK ==
  /\ view \in {"StartCenter"} \cup {Categories[c][1] : c \in 1..Len(Categories)}
  /\ category \in 1..Len(Categories) /\ item \in 1..Len(Categories[category])
  /\ focus \in {"sidebar", "main"} /\ mode \in {"normal", "filter"} /\ help \in BOOLEAN
  /\ filter \in Seq(Letters) /\ Len(filter) <= FilterLimit
  /\ jvms \in Seq(Jvms \ Tools) /\ selected \in (Jvms \ Tools) \cup {None} /\ recording \in BOOLEAN
  /\ Len(telemetry.samples) <= SampleLimit
  /\ Len(cpu.rows) <= RowLimit
  /\ \A t \in {memory, cpu, db} : t.sel \in Nat /\ t.off \in Nat
  /\ Cardinality(telemetryQuery) <= 1 /\ Cardinality(memoryQuery) <= 1
  /\ (help => mode = "normal")

(* However a view was reached, by a number, the arrows, enter or the start *)
(* of a session, the sidebar marks exactly one category, and enter in it   *)
(* stays in the view.                                                      *)
OneCategoryMarked ==
  view # "StartCenter" =>
    /\ Cardinality({c \in 1..Len(Categories) : Marked(c)}) = 1
    /\ Categories[category][item] = view

(* A session is of one JVM: once the start center is left, a JVM that is   *)
(* selected stays selected, whatever lists and keys come.                  *)
JvmFixed ==
  [][view # "StartCenter" =>
       view' # "StartCenter" /\ (selected # None => selected' = selected)]_vars

\* A query under way has ended, and with an answer: an error changes no table.
MemoryAnswered == memoryQuery # {} /\ memoryQuery' = {} /\ memory' # memory
CpuAnswered    == cpuQuery /\ ~cpuQuery' /\ <<cpu, db>>' # <<cpu, db>>

(* The growth a histogram shows is counted from the histogram that was on  *)
(* the screen until then, however many queries were asked and replaced in  *)
(* between.                                                                *)
DeltasAgainstShown ==
  [][MemoryAnswered =>
       \A r \in ToSet(memory'.rows) :
         LET before == {o \in ToSet(memory.rows) : o.name = r.name}
         IN r.delta = IF before = {} THEN 0
                      ELSE r.bytes - (CHOOSE o \in before : TRUE).bytes]_vars

(* What comes from a JVM by its pid is shown of the selected one, though   *)
(* the worker that got it may have been started long before: the histogram *)
(* and, from the first sample asked for in the session on, all telemetry,  *)
(* of which at most one cpu reading is compared with another JVM's.  The   *)
(* allocation sites beside the histogram come from the agent's port and    *)
(* may be another JVM's.                                                   *)
DataOfSelected ==
  LET s == telemetry.samples
      mixed == {i \in 1..Len(s) : s[i].session /\ s[i].known /\ s[i].since \notin {None, s[i].jvm}}
  IN /\ memory.of \in {None, selected}
     /\ \A i, j \in 1..Len(s) : i <= j /\ s[i].session => s[j].jvm = selected
     /\ Cardinality(mixed) <= 1

\* No expanded method has more callees than are drawn.
AllDrawn(c) == \A id \in c.expanded : Len(Children(id, c.rows, c.edges)) <= ShownCallees

\* The table of the view is empty, or with so much room a row drawn is highlighted.
CursorShown(chosen, c, m, d, room) ==
  (IF view = "StartCenter" THEN jvms ELSE Copied(c, m)) # <<>> =>
    \E row \in Drawn(chosen, c, m, d, room) : row.highlighted

(* Where there is room for a page of PageRows, what hides the cursor is a  *)
(* filter, a collapse, more callees than are drawn, a JVM that has ended   *)
(* or another view; neither a refresh that shortens the table shown nor a  *)
(* way down in it does, nor the choice of a JVM, and a way up keeps the    *)
(* one there is.  Where there is less, for the code pages by PageRows      *)
(* whatever the terminal's height, all of these may leave it beneath the   *)
(* last row drawn, but in the page: it were drawn if there was room for    *)
(* one.  A height may change between any two drawings.                     *)
CursorKept ==
  [][\A height \in Rooms :
       LET room == Max({height, PageRows}) IN
         ~CursorShown(selected', cpu', memory', db', room) /\ AllDrawn(cpu') =>
           /\ ~(MemoryAnswered /\ view = "Allocations")
           /\ ~(CpuAnswered /\ view \in {"CpuHotSpots", "Jdbc"})
           /\ \A k \in DOMAIN Delta : Key(k) =>
                /\ ~SelectJvm(Delta[k])
                /\ MoveInTable(Delta[k]) =>
                     Delta[k] < 0 /\ ~CursorShown(selected, cpu, memory, db, room)]_vars

(* Right, left and enter act on the method whose row, or one of whose      *)
(* callees' rows, is drawn highlighted, however many rows are drawn:       *)
(* navigation and drawing count rows alike as long as they see the same    *)
(* callees.  No agent of today sends callees (recordEdge is a no-op): the  *)
(* rows of methods alone are what users see.                               *)
ActsOnHighlighted ==
  AllDrawn(cpu) =>
    \A room \in Rooms : \A row \in DrawnMethods(cpu, room) :
      row.highlighted => row.item.id = SelectedMethod

\* The methods and the statements kept of a reply are the first of those printed.
KeptArePrinted(reply) ==
  LET rows  == CpuRows(reply, RowLimit)
      kept  == <<MethodRows(rows, <<>>), StatementRows(rows, <<>>)>>
      whole == <<PrintedMethods(reply, Len(reply.hotSpots)),
                 PrintedStatements(reply, Len(reply.hotSpots))>>
  IN \A t \in 1..2 : \A i \in 1..Len(kept[t]) :
       kept[t][i].name = whole[t][i].name /\ kept[t][i].self = whole[t][i].self

(* A table reads the same on the screen, on the clipboard and where it is  *)
(* printed without the terminal: the page's rows are rows of what c        *)
(* copies, and what is kept of a reply that is awaited is the first of     *)
(* what --hotspots-once and --database-once print.                         *)
TablesAgree ==
  /\ view # "StartCenter" =>
       \A room \in Rooms : \A row \in Drawn(selected, cpu, memory, db, room) :
         row.item \in ToSet(Copied(cpu, memory))
  /\ cpuQuery => \A reply \in scenario.cpu : KeptArePrinted(reply)

(* A user who opens the allocation view and stays gets it loaded, or an    *)
(* error in the log, without pressing r, unless it is pressed for ever.    *)
MemoryLoads ==
  \/ []<><<Refresh>>_vars
  \/ (view = "Allocations" /\ selected # None)
       ~> (view # "Allocations" \/ (memory.loaded /\ memoryQuery = {}))
=============================================================================
