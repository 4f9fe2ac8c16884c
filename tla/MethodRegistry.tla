--------------------------- MODULE MethodRegistry ---------------------------
(***************************************************************************)
(* Profiler.registerMethod: how class-loading and retransforming threads   *)
(* get the id that the hooks of a method carry.                            *)
(*                                                                         *)
(* The fast path reads methodIdsByKey without a lock; the slow path holds  *)
(* the class lock, fills methodMetas and methodStats, growing them first,  *)
(* and publishes the id last.  The hooks (recordMethodEnter 437-443) and   *)
(* getMethodSnapshots (716-731) read the two arrays with no lock at all,   *)
(* while they are replaced one after the other.                            *)
(*                                                                         *)
(* An array element stands for the object stored in it: the key it was     *)
(* created for, or Null.  Snapshots here also list methods that have not   *)
(* been called, which the code leaves out.                                 *)
(***************************************************************************)
EXTENDS Integers, Sequences

CONSTANTS
  Workers,      \* threads that transform classes
  Readers,      \* threads that answer GET_CPU_DATA
  Keys,         \* class name, method name and descriptor
  Null,         \* an array element never written
  InitialLength \* length of the arrays at first (4096 in the code)

ASSUME RegistryAssumption ==
  /\ InitialLength \in Nat \ {0}
  /\ Null \notin Keys

VARIABLES
  methodIdsByKey, \* a function on the keys registered so far
  nextMethodId,
  methodMetas, methodStats, \* the successive arrays, the current one last
  lock,           \* the holder of the lock of Profiler.class, as a set
  worker,         \* per worker: where it is in registerMethod
  handed,         \* history: every <<key, id>> that registerMethod returned
  snapshot        \* per reader: where it is in getMethodSnapshots

registry == <<methodIdsByKey, nextMethodId, methodMetas, methodStats, lock, worker, handed>>
vars     == <<registry, snapshot>>

Last(versions) == versions[Len(versions)]
Slot(id) == id + 1

IdleWorker   == [at |-> "idle", key |-> Null, id |-> 0]
IdleSnapshot == [at |-> "idle", metas |-> 1, stats |-> 1, max |-> 0, next |-> 0,
                 rows |-> {}, known |-> {}]

Init ==
  /\ methodIdsByKey = [k \in {} |-> 0]
  /\ nextMethodId = 0
  /\ methodMetas = <<[s \in 1 .. InitialLength |-> Null]>>
  /\ methodStats = <<[s \in 1 .. InitialLength |-> Null]>>
  /\ lock = {}
  /\ worker = [w \in Workers |-> IdleWorker]
  /\ handed = {}
  /\ snapshot = [r \in Readers |-> IdleSnapshot]

----------------------------------------------------------------------------
Registered == DOMAIN methodIdsByKey

\* Mutant: nobody looks again under the lock.
NeverSeen(k) == FALSE

Seen(k) == k \in Registered

\* Mutant: registerMethod is not synchronized.
NotSynchronized == TRUE

Free == lock = {}

\* The lock-free look: an id, or the way to the lock.
Look(w, k) ==
  /\ worker[w].at = "idle"
  /\ IF k \in Registered
     THEN /\ handed' = handed \cup {<<k, methodIdsByKey[k]>>}
          /\ UNCHANGED worker
     ELSE /\ worker' = [worker EXCEPT ![w] = [at |-> "blocked", key |-> k, id |-> 0]]
          /\ UNCHANGED handed
  /\ UNCHANGED <<methodIdsByKey, nextMethodId, methodMetas, methodStats, lock, snapshot>>

\* Under the lock somebody else turns out to have registered the key.
FindUnderLock(w) ==
  /\ worker[w].at = "blocked"
  /\ Free
  /\ Seen(worker[w].key)
  /\ handed' = handed \cup {<<worker[w].key, methodIdsByKey[worker[w].key]>>}
  /\ worker' = [worker EXCEPT ![w] = IdleWorker]
  /\ UNCHANGED <<methodIdsByKey, nextMethodId, methodMetas, methodStats, lock, snapshot>>

Fits(id) == Slot(id) <= Len(Last(methodMetas))

TakeId(w) ==
  /\ worker[w].at = "blocked"
  /\ Free
  /\ ~Seen(worker[w].key)
  /\ lock' = {w}
  /\ nextMethodId' = nextMethodId + 1
  /\ worker' = [worker EXCEPT ![w].at = IF Fits(nextMethodId) THEN "write_meta" ELSE "grow_metas",
                              ![w].id = nextMethodId]
  /\ UNCHANGED <<methodIdsByKey, methodMetas, methodStats, handed, snapshot>>

\* Mutant: a fresh array without the elements of the old one.
GrownEmpty(array) == [s \in 1 .. 2 * Len(array) |-> Null]

\* Ids are handed out one by one, so doubling once is enough.
Grown(array) == [s \in 1 .. 2 * Len(array) |-> IF s <= Len(array) THEN array[s] ELSE Null]

WorkerStep(w, from, to) ==
  /\ worker[w].at = from
  /\ worker' = [worker EXCEPT ![w].at = to]
  /\ UNCHANGED <<methodIdsByKey, nextMethodId, lock, handed, snapshot>>

GrowMetas(w) ==
  /\ WorkerStep(w, "grow_metas", "grow_stats")
  /\ methodMetas' = Append(methodMetas, Grown(Last(methodMetas)))
  /\ UNCHANGED methodStats

GrowStats(w) ==
  /\ WorkerStep(w, "grow_stats", "write_meta")
  /\ methodStats' = Append(methodStats, Grown(Last(methodStats)))
  /\ UNCHANGED methodMetas

Written(versions, w) ==
  [versions EXCEPT ![Len(versions)] = [@ EXCEPT ![Slot(worker[w].id)] = worker[w].key]]

WriteMeta(w) ==
  /\ WorkerStep(w, "write_meta", "write_stats")
  /\ methodMetas' = Written(methodMetas, w)
  /\ UNCHANGED methodStats

WriteStats(w) ==
  /\ WorkerStep(w, "write_stats", "publish")
  /\ methodStats' = Written(methodStats, w)
  /\ UNCHANGED methodMetas

\* Putting the key in the map publishes the id; the lock is released.
Publish(w) ==
  /\ worker[w].at = "publish"
  /\ methodIdsByKey' = [k \in Registered \cup {worker[w].key} |->
       IF k = worker[w].key THEN worker[w].id ELSE methodIdsByKey[k]]
  /\ handed' = handed \cup {<<worker[w].key, worker[w].id>>}
  /\ lock' = {}
  /\ worker' = [worker EXCEPT ![w] = IdleWorker]
  /\ UNCHANGED <<nextMethodId, methodMetas, methodStats, snapshot>>

Register(w) ==
  \/ \E k \in Keys : Look(w, k)
  \/ FindUnderLock(w) \/ TakeId(w)
  \/ GrowMetas(w) \/ GrowStats(w) \/ WriteMeta(w) \/ WriteStats(w) \/ Publish(w)

----------------------------------------------------------------------------
(* getMethodSnapshots and getStats pick up the two arrays, then the limit.  *)

TakeMetas(r) ==
  /\ snapshot[r].at = "idle"
  /\ snapshot' = [snapshot EXCEPT ![r] =
       [IdleSnapshot EXCEPT !.at = "take_stats", !.metas = Len(methodMetas), !.known = Registered]]
  /\ UNCHANGED registry

TakeStats(r) ==
  /\ snapshot[r].at = "take_stats"
  /\ snapshot' = [snapshot EXCEPT ![r].at = "take_max", ![r].stats = Len(methodStats)]
  /\ UNCHANGED registry

\* Mutant: the limit is the length of the arrays before they grew.
InitialLimit(r) == InitialLength

\* The least of the ids given out and the lengths of the arrays picked up.
Limit(r) ==
  LET metas == Len(methodMetas[snapshot[r].metas])
      stats == Len(methodStats[snapshot[r].stats])
  IN  CHOOSE n \in {nextMethodId, metas, stats} : n <= nextMethodId /\ n <= metas /\ n <= stats

TakeMax(r) ==
  /\ snapshot[r].at = "take_max"
  /\ snapshot' = [snapshot EXCEPT ![r].at = "rows", ![r].max = Limit(r)]
  /\ UNCHANGED registry

ReadRow(r) ==
  LET here == snapshot[r]
      meta == methodMetas[here.metas][Slot(here.next)]
      stat == methodStats[here.stats][Slot(here.next)]
  IN  /\ here.at = "rows" /\ here.next < here.max
      /\ snapshot' = [snapshot EXCEPT ![r].next = @ + 1,
           ![r].rows = IF Null \in {meta, stat} THEN @ ELSE @ \cup {<<meta, stat>>}]
      /\ UNCHANGED registry

Reply(r) ==
  /\ snapshot[r].at = "rows" /\ snapshot[r].next = snapshot[r].max
  /\ snapshot' = [snapshot EXCEPT ![r].at = "done"]
  /\ UNCHANGED registry

Forget(r) ==
  /\ snapshot[r].at = "done"
  /\ snapshot' = [snapshot EXCEPT ![r] = IdleSnapshot]
  /\ UNCHANGED registry

Snapshot(r) == TakeMetas(r) \/ TakeStats(r) \/ TakeMax(r) \/ ReadRow(r) \/ Reply(r) \/ Forget(r)

Next == (\E w \in Workers : Register(w)) \/ (\E r \in Readers : Snapshot(r))

Spec == Init /\ [][Next]_vars

----------------------------------------------------------------------------
Critical == {"grow_metas", "grow_stats", "write_meta", "write_stats", "publish"}

(* The values the registry's variables take; whoever is past the lock       *)
(* holds it.                                                                *)
TypeOK ==
  /\ Registered \subseteq Keys
  /\ \A k \in Registered : methodIdsByKey[k] \in Nat
  /\ nextMethodId \in Nat
  /\ methodMetas \in Seq(Seq(Keys \cup {Null})) /\ methodMetas # <<>>
  /\ methodStats \in Seq(Seq(Keys \cup {Null})) /\ methodStats # <<>>
  /\ lock \subseteq Workers
  /\ worker \in [Workers -> [at : {"idle", "blocked"} \cup Critical,
                             key : Keys \cup {Null}, id : Nat]]
  /\ \A w \in Workers : worker[w].at \in Critical <=> lock = {w}
  /\ handed \subseteq Keys \X Nat

(* OneIdPerKey: whatever threads race to register a method, all of them     *)
(* bake the same id into its hooks, and no other method gets that id        *)
(* (registerMethod 397-415).                                                *)
OneIdPerKey == \A x, y \in handed : x[1] = y[1] <=> x[2] = y[2]

(* UsableAtOnce: a hook never finds its id out of range or unfilled: from   *)
(* the moment an id is returned, and while the arrays are being replaced,   *)
(* both current arrays hold the method's own entry at that id (437-443).    *)
UsableAtOnce ==
  \A x \in handed :
    /\ Slot(x[2]) <= Len(Last(methodMetas)) /\ Last(methodMetas)[Slot(x[2])] = x[1]
    /\ Slot(x[2]) <= Len(Last(methodStats)) /\ Last(methodStats)[Slot(x[2])] = x[1]

(* SnapshotsSound: a reply pairs no method with the statistics of another,  *)
(* and leaves out no method registered before the reply was begun, although *)
(* the two arrays and the limit are read at different times (718-727).      *)
SnapshotsSound ==
  \A r \in Readers :
    /\ \A row \in snapshot[r].rows : row[1] = row[2]
    /\ snapshot[r].at = "done" => \A k \in snapshot[r].known : <<k, k>> \in snapshot[r].rows
----------------------------------------------------------------------------
\* What the hooks that carry an id find at it, in either array.
Found ==
  {<<x[2], Last(methodMetas)[Slot(x[2])]>> : x \in handed}
    \cup {<<x[2], Last(methodStats)[Slot(x[2])]>> : x \in handed}

\* An id taken under the lock is promised to nobody until it is published.
NextPromised == IF lock = {} THEN nextMethodId ELSE nextMethodId - 1

Promise ==
  INSTANCE RegistryPromise WITH next <- NextPromised, ids <- methodIdsByKey, found <- Found

(* KeepsPromise: two looks, a lock and four writes amount to one step: an   *)
(* id is given to a method once, without a gap, nobody is told another, and *)
(* no replacement of an array changes what a hook finds (397-435).          *)
KeepsPromise == Promise!Spec
=============================================================================
