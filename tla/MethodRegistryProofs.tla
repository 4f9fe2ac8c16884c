------------------------ MODULE MethodRegistryProofs ------------------------
(***************************************************************************)
(* Proofs about MethodRegistry, for any number of threads and methods and  *)
(* any initial length: OneIdPerKey, UsableAtOnce and SnapshotsSound.       *)
(*                                                                         *)
(* None is inductive.  For the first two, the invariant adds what the lock *)
(* protects: the id its holder works on is the one after all published     *)
(* ids, and the arrays have grown, and been filled, as far as the holder   *)
(* has got.  A snapshot takes no lock and reads whatever version it got    *)
(* hold of, so its invariant speaks of every version there has been.       *)
(***************************************************************************)
EXTENDS MethodRegistry, SequenceTheorems, TLAPS

Entries == Keys \cup {Null}
Metas == Last(methodMetas)
Stats == Last(methodStats)

Holds(array, id, k) == Slot(id) <= Len(array) /\ array[Slot(id)] = k

HandedAsPublished ==
  \A x \in handed : x[1] \in Registered /\ x[2] = methodIdsByKey[x[1]]

IdsDistinct ==
  \A j, k \in Registered : methodIdsByKey[j] = methodIdsByKey[k] => j = k

IdsBelowNext == \A k \in Registered : methodIdsByKey[k] < nextMethodId

EntriesFilled ==
  \A k \in Registered : /\ Holds(Metas, methodIdsByKey[k], k)
                        /\ Holds(Stats, methodIdsByKey[k], k)

RoomWhenFree ==
  lock = {} => Len(Metas) = Len(Stats) /\ 1 <= Len(Metas) /\ nextMethodId <= Len(Metas)

\* How far the holder w of the lock has got.
Progress(w) ==
  LET at  == worker[w].at
      id  == worker[w].id
      key == worker[w].key
  IN  /\ key \in Keys /\ key \notin Registered
      /\ id + 1 = nextMethodId
      /\ \A k \in Registered : methodIdsByKey[k] < id
      /\ at = "grow_metas" => id = Len(Metas) /\ 1 <= id /\ Len(Stats) = Len(Metas)
      /\ at = "grow_stats" => id = Len(Stats) /\ 1 <= id /\ Len(Metas) = 2 * Len(Stats)
      /\ at \in {"write_meta", "write_stats", "publish"} =>
           Slot(id) <= Len(Metas) /\ Len(Stats) = Len(Metas)
      /\ at \in {"write_stats", "publish"} => Holds(Metas, id, key)
      /\ at = "publish" => Holds(Stats, id, key)

KeysWaiting == \A w \in Workers : worker[w].at = "blocked" => worker[w].key \in Keys

HolderProgress == \A w \in Workers : worker[w].at \in Critical => Progress(w)

IInv ==
  /\ TypeOK
  /\ HandedAsPublished
  /\ IdsDistinct
  /\ IdsBelowNext
  /\ EntriesFilled
  /\ RoomWhenFree
  /\ KeysWaiting
  /\ HolderProgress

----------------------------------------------------------------------------
(* Arrays and their versions.                                              *)

LEMMA LastElement ==
  ASSUME NEW T, NEW v \in Seq(T), v # <<>>
  PROVE  Len(v) \in Nat \ {0} /\ DOMAIN v = 1 .. Len(v) /\ Last(v) \in T
<1>1. Len(v) \in Nat \ {0} /\ DOMAIN v = 1 .. Len(v)
  BY EmptySeq, LenProperties
<1>. QED
  BY <1>1, ElementOfSeq DEF Last

LEMMA AppendLast ==
  ASSUME NEW T, NEW v \in Seq(T), NEW e \in T
  PROVE  Append(v, e) \in Seq(T) /\ Append(v, e) # <<>> /\ Last(Append(v, e)) = e
<1>1. /\ Append(v, e) \in Seq(T) /\ Append(v, e) # <<>>
      /\ Len(Append(v, e)) = Len(v) + 1
      /\ Append(v, e)[Len(v) + 1] = e
  BY AppendProperties
<1>. QED
  BY <1>1 DEF Last

LEMMA ReplaceLast ==
  ASSUME NEW T, NEW v \in Seq(T), v # <<>>, NEW e \in T
  PROVE  /\ [v EXCEPT ![Len(v)] = e] \in Seq(T)
         /\ [v EXCEPT ![Len(v)] = e] # <<>>
         /\ Last([v EXCEPT ![Len(v)] = e]) = e
<1>1. Len(v) \in 1 .. Len(v) /\ DOMAIN v = 1 .. Len(v)
  BY LastElement
<1>2. /\ [v EXCEPT ![Len(v)] = e] \in Seq(T)
      /\ Len([v EXCEPT ![Len(v)] = e]) = Len(v)
      /\ [v EXCEPT ![Len(v)] = e][Len(v)] = e
  BY <1>1, ExceptSeq
<1>. QED
  BY <1>1, <1>2, EmptySeq DEF Last

LEMMA FunctionIsSeq ==
  ASSUME NEW T, NEW n \in Nat, NEW f \in [1 .. n -> T]
  PROVE  f \in Seq(T) /\ Len(f) = n
<1>1. f \in Seq(T)
  BY SeqDef
<1>2. Len(f) \in Nat /\ 1 .. n = 1 .. Len(f)
  BY <1>1, LenProperties
<1>. QED
  BY <1>1, <1>2

LEMMA GrownArray ==
  ASSUME NEW array \in Seq(Entries)
  PROVE  /\ Grown(array) \in Seq(Entries)
         /\ Len(Grown(array)) = 2 * Len(array)
         /\ \A s \in 1 .. Len(array) : Grown(array)[s] = array[s]
<1>1. Len(array) \in Nat /\ 2 * Len(array) \in Nat /\ Null \in Entries
  BY LenProperties DEF Entries
<1>2. \A s \in 1 .. Len(array) : array[s] \in Entries
  BY ElementOfSeq
<1>3. Grown(array) \in [1 .. 2 * Len(array) -> Entries]
  BY <1>1, <1>2 DEF Grown
<1>4. Grown(array) \in Seq(Entries) /\ Len(Grown(array)) = 2 * Len(array)
  BY <1>1, <1>3, FunctionIsSeq
<1>. QED
  BY <1>1, <1>4 DEF Grown

LEMMA WrittenArray ==
  ASSUME NEW array \in Seq(Entries), NEW id \in Nat, NEW key \in Entries,
         Slot(id) <= Len(array)
  PROVE  /\ [array EXCEPT ![Slot(id)] = key] \in Seq(Entries)
         /\ Len([array EXCEPT ![Slot(id)] = key]) = Len(array)
         /\ [array EXCEPT ![Slot(id)] = key][Slot(id)] = key
         /\ \A s \in 1 .. Len(array) :
              s # Slot(id) => [array EXCEPT ![Slot(id)] = key][s] = array[s]
<1>1. Slot(id) \in 1 .. Len(array) /\ DOMAIN array = 1 .. Len(array)
  BY LenProperties DEF Slot
<1>. QED
  BY <1>1, ExceptSeq

\* What an array held below a limit, a longer or rewritten one still holds.
LEMMA HoldsOn ==
  ASSUME NEW old \in Seq(Entries), NEW new \in Seq(Entries), Len(old) <= Len(new),
         NEW id \in Nat, NEW k,
         \A s \in 1 .. Len(old) : s = Slot(id) => new[s] = old[s],
         Holds(old, id, k)
  PROVE  Holds(new, id, k)
<1>1. Slot(id) \in 1 .. Len(old) /\ Len(new) \in Nat /\ Len(old) \in Nat
  BY LenProperties DEF Holds, Slot
<1>. QED
  BY <1>1 DEF Holds

LEMMA CurrentArrays ==
  ASSUME TypeOK
  PROVE  /\ Metas \in Seq(Entries) /\ Len(Metas) \in Nat
         /\ Stats \in Seq(Entries) /\ Len(Stats) \in Nat
<1>1. Metas \in Seq(Entries) /\ Stats \in Seq(Entries)
  BY LastElement DEF TypeOK, Metas, Stats, Entries
<1>. QED
  BY <1>1, LenProperties

----------------------------------------------------------------------------
(* Initially nothing is registered.                                        *)

LEMMA InitIInv == Init => IInv
<1>. SUFFICES ASSUME Init PROVE IInv
  OBVIOUS
<1> DEFINE empty == [s \in 1 .. InitialLength |-> Null]
<1>1. empty \in Seq(Entries) /\ Len(empty) = InitialLength
  <2>1. InitialLength \in Nat /\ Null \in Entries
    BY RegistryAssumption DEF Entries
  <2>2. empty \in [1 .. InitialLength -> Entries]
    BY <2>1
  <2>. QED
    BY <2>1, <2>2, FunctionIsSeq
<1>2. methodMetas = <<empty>> /\ methodStats = <<empty>>
  BY DEF Init
<1>. HIDE DEF empty
<1>3. /\ methodMetas \in Seq(Seq(Entries)) /\ methodMetas # <<>> /\ Metas = empty
      /\ methodStats \in Seq(Seq(Entries)) /\ methodStats # <<>> /\ Stats = empty
  BY <1>1, <1>2 DEF Metas, Stats, Last
<1>4. Registered = {}
  BY DEF Init, Registered
<1>5. \A w \in Workers : worker[w].at \notin Critical /\ worker[w].at # "blocked"
  BY DEF Init, IdleWorker, Critical
<1>6. TypeOK
  BY <1>3, <1>4, <1>5 DEF Init, TypeOK, IdleWorker, Entries
<1>7. RoomWhenFree
  BY <1>1, <1>3, RegistryAssumption DEF Init, RoomWhenFree
<1>. QED
  BY <1>4, <1>5, <1>6, <1>7 DEF Init, IInv, HandedAsPublished, IdsDistinct, IdsBelowNext,
     EntriesFilled, KeysWaiting, HolderProgress

----------------------------------------------------------------------------
(* Steps that only read: the lock-free look and the look under the lock.   *)

LEMMA PublishedId ==
  ASSUME TypeOK, HandedAsPublished, NEW k \in Registered
  PROVE  \A x \in handed \cup {<<k, methodIdsByKey[k]>>} :
           /\ x \in Keys \X Nat
           /\ x[1] \in Registered /\ x[2] = methodIdsByKey[x[1]]
  BY DEF TypeOK, HandedAsPublished

\* A worker that is neither before nor after its step past the lock.
LEMMA OutsideStepKeepsIInv ==
  ASSUME IInv, NEW w \in Workers, NEW next,
         UNCHANGED <<methodIdsByKey, nextMethodId, methodMetas, methodStats, lock>>,
         worker[w].at \notin Critical,
         worker' = [worker EXCEPT ![w] = next],
         next \in [at : {"idle", "blocked"}, key : Keys \cup {Null}, id : Nat],
         next.at = "blocked" => next.key \in Keys,
         \A x \in handed' : /\ x \in Keys \X Nat
                            /\ x[1] \in Registered /\ x[2] = methodIdsByKey[x[1]]
  PROVE  IInv'
<1>1. Registered' = Registered /\ Metas' = Metas /\ Stats' = Stats
  BY DEF Registered, Metas, Stats
<1>2. worker \in [Workers -> [at : {"idle", "blocked"} \cup Critical,
                              key : Keys \cup {Null}, id : Nat]]
  BY DEF IInv, TypeOK
<1>3. worker'[w] = next /\ \A v \in Workers \ {w} : worker'[v] = worker[v]
  BY <1>2
<1>4. next.at \notin Critical
  BY DEF Critical
<1>5. TypeOK'
  <2>1. worker' \in [Workers -> [at : {"idle", "blocked"} \cup Critical,
                               key : Keys \cup {Null}, id : Nat]]
    BY <1>2
  <2>2. \A v \in Workers : worker'[v].at \in Critical <=> lock' = {v}
    BY <1>3, <1>4 DEF IInv, TypeOK
  <2>3. handed' \subseteq Keys \X Nat
    OBVIOUS
  <2>. QED
    BY <1>1, <2>1, <2>2, <2>3 DEF IInv, TypeOK
<1>6. HandedAsPublished'
  BY <1>1 DEF HandedAsPublished
<1>7. IdsDistinct' /\ IdsBelowNext' /\ EntriesFilled' /\ RoomWhenFree'
  BY <1>1 DEF IInv, IdsDistinct, IdsBelowNext, EntriesFilled, RoomWhenFree
<1>8. KeysWaiting'
  BY <1>3 DEF IInv, KeysWaiting
<1>9. HolderProgress'
  BY <1>1, <1>3, <1>4 DEF IInv, HolderProgress, Progress
<1>. QED
  BY <1>5, <1>6, <1>7, <1>8, <1>9 DEF IInv

LEMMA LookKeepsIInv ==
  ASSUME IInv, NEW w \in Workers, NEW k \in Keys, Look(w, k)
  PROVE  IInv'
<1>1. worker[w].at \notin Critical
  BY DEF Look, Critical
<1>2. worker \in [Workers -> [at : {"idle", "blocked"} \cup Critical,
                              key : Keys \cup {Null}, id : Nat]]
      /\ worker[w].at = "idle"
  BY DEF IInv, TypeOK, Look
<1>3. CASE k \in Registered
  <2>1. handed' = handed \cup {<<k, methodIdsByKey[k]>>} /\ worker' = worker
    BY <1>3 DEF Look
  <2>2. \A x \in handed' : /\ x \in Keys \X Nat
                           /\ x[1] \in Registered /\ x[2] = methodIdsByKey[x[1]]
    BY <1>3, <2>1, PublishedId DEF IInv
  <2>3. /\ worker' = [worker EXCEPT ![w] = worker[w]]
        /\ worker[w] \in [at : {"idle", "blocked"}, key : Keys \cup {Null}, id : Nat]
    BY <1>2, <2>1
  <2>. QED
    BY <1>1, <1>2, <2>2, <2>3, OutsideStepKeepsIInv DEF Look
<1>4. CASE k \notin Registered
  <2> DEFINE next == [at |-> "blocked", key |-> k, id |-> 0]
  <2>1. worker' = [worker EXCEPT ![w] = next] /\ handed' = handed
    BY <1>4 DEF Look
  <2>2. next \in [at : {"idle", "blocked"}, key : Keys \cup {Null}, id : Nat] /\ next.key \in Keys
    OBVIOUS
  <2>3. \A x \in handed' : /\ x \in Keys \X Nat
                           /\ x[1] \in Registered /\ x[2] = methodIdsByKey[x[1]]
    BY <2>1 DEF IInv, TypeOK, HandedAsPublished
  <2>. HIDE DEF next
  <2>. QED
    BY <1>1, <2>1, <2>2, <2>3, OutsideStepKeepsIInv DEF Look
<1>. QED
  BY <1>3, <1>4

LEMMA FindUnderLockKeepsIInv ==
  ASSUME IInv, NEW w \in Workers, FindUnderLock(w)
  PROVE  IInv'
<1>1. worker[w].at \notin Critical /\ worker[w].key \in Registered
  BY DEF FindUnderLock, Critical, Seen
<1>2. \A x \in handed' : /\ x \in Keys \X Nat
                         /\ x[1] \in Registered /\ x[2] = methodIdsByKey[x[1]]
  BY <1>1, PublishedId DEF IInv, FindUnderLock
<1>3. /\ IdleWorker \in [at : {"idle", "blocked"}, key : Keys \cup {Null}, id : Nat]
      /\ IdleWorker.at # "blocked"
  BY DEF IdleWorker
<1>. QED
  BY <1>1, <1>2, <1>3, OutsideStepKeepsIInv DEF FindUnderLock

----------------------------------------------------------------------------
(* Steps of the lock's holder.                                             *)

LEMMA TakeIdKeepsIInv ==
  ASSUME IInv, NEW w \in Workers, TakeId(w)
  PROVE  IInv'
<1> DEFINE to == IF Fits(nextMethodId) THEN "write_meta" ELSE "grow_metas"
<1>1. /\ Registered' = Registered /\ methodIdsByKey' = methodIdsByKey
      /\ Metas' = Metas /\ Stats' = Stats /\ handed' = handed
      /\ nextMethodId' = nextMethodId + 1
  BY DEF Registered, Metas, Stats, TakeId
<1>2. /\ worker \in [Workers -> [at : {"idle", "blocked"} \cup Critical,
                                 key : Keys \cup {Null}, id : Nat]]
      /\ nextMethodId \in Nat
      /\ \A k \in Registered : methodIdsByKey[k] \in Nat
  BY DEF IInv, TypeOK
<1>3. /\ lock = {} /\ lock' = {w}
      /\ worker[w].at = "blocked" /\ worker[w].key \in Keys /\ worker[w].key \notin Registered
      /\ worker' = [worker EXCEPT ![w].at = to, ![w].id = nextMethodId]
  BY DEF TakeId, Free, Seen, IInv, KeysWaiting
<1>4. to \in Critical
  BY DEF Critical
<1>. HIDE DEF to
<1>5. /\ worker'[w].at = to /\ worker'[w].id = nextMethodId /\ worker'[w].key = worker[w].key
      /\ \A v \in Workers \ {w} : worker'[v] = worker[v]
  BY <1>2, <1>3
<1>6. \A v \in Workers : worker[v].at \notin Critical
  BY <1>3 DEF IInv, TypeOK
<1>7. TypeOK'
  <2>1. worker' \in [Workers -> [at : {"idle", "blocked"} \cup Critical,
                                key : Keys \cup {Null}, id : Nat]]
    BY <1>2, <1>3, <1>4
  <2>2. \A v \in Workers : worker'[v].at \in Critical <=> lock' = {v}
    BY <1>3, <1>4, <1>5, <1>6
  <2>3. UNCHANGED <<methodMetas, methodStats>> /\ nextMethodId' \in Nat
    BY <1>1, <1>2 DEF TakeId
  <2>. QED
    BY <1>1, <1>3, <2>1, <2>2, <2>3 DEF IInv, TypeOK
<1>8. HandedAsPublished' /\ IdsDistinct' /\ EntriesFilled'
  BY <1>1 DEF IInv, HandedAsPublished, IdsDistinct, EntriesFilled
<1>9. IdsBelowNext'
  BY <1>1, <1>2 DEF IInv, IdsBelowNext
<1>10. RoomWhenFree'
  BY <1>3 DEF RoomWhenFree
<1>11. KeysWaiting'
  BY <1>4, <1>5 DEF IInv, KeysWaiting, Critical
<1>12. Progress(w)'
  <2>1. /\ Len(Metas) = Len(Stats) /\ 1 <= Len(Metas)
        /\ nextMethodId <= Len(Metas) /\ Len(Metas) \in Nat
    BY <1>3, CurrentArrays DEF IInv, RoomWhenFree
  <2>2. /\ to = "write_meta" => Slot(nextMethodId) <= Len(Metas)
        /\ to = "grow_metas" => nextMethodId = Len(Metas) /\ 1 <= nextMethodId
        /\ to \in {"write_meta", "grow_metas"}
    BY <1>2, <2>1 DEF to, Fits, Slot, Metas
  <2>3. \A k \in Registered : methodIdsByKey[k] < nextMethodId
    BY DEF IInv, IdsBelowNext
  <2>4. /\ worker'[w].key \in Keys /\ worker'[w].key \notin Registered'
        /\ worker'[w].id + 1 = nextMethodId'
        /\ \A k \in Registered' : methodIdsByKey'[k] < worker'[w].id
    <3>1. worker'[w].key \in Keys /\ worker'[w].key \notin Registered'
      BY <1>1, <1>3, <1>5
    <3>2. worker'[w].id + 1 = nextMethodId'
      BY <1>1, <1>5
    <3>3. \A k \in Registered' : methodIdsByKey'[k] < worker'[w].id
      BY <1>1, <1>5, <2>3
    <3>. QED
      BY <3>1, <3>2, <3>3
  <2>5. CASE to = "write_meta"
    <3>1. worker'[w].at = "write_meta" /\ Slot(worker'[w].id) <= Len(Metas') /\ Len(Stats') = Len(Metas')
      BY <1>1, <1>5, <2>1, <2>2, <2>5
    <3>. QED
      BY <2>4, <3>1 DEF Progress
  <2>6. CASE to = "grow_metas"
    <3>1. /\ worker'[w].at = "grow_metas" /\ worker'[w].id = Len(Metas')
          /\ 1 <= worker'[w].id /\ Len(Stats') = Len(Metas')
      BY <1>1, <1>5, <2>1, <2>2, <2>6
    <3>. QED
      BY <2>4, <3>1 DEF Progress
  <2>. QED
    BY <2>2, <2>5, <2>6
<1>13. HolderProgress'
  BY <1>5, <1>6, <1>12 DEF HolderProgress
<1>. QED
  BY <1>7, <1>8, <1>9, <1>10, <1>11, <1>13 DEF IInv

\* A holder that goes on keeps the invariant if the arrays stay filled and
\* it really has got as far as it says.
LEMMA InsideStepKeepsIInv ==
  ASSUME IInv, NEW w \in Workers, NEW from \in Critical, NEW to \in Critical,
         WorkerStep(w, from, to),
         methodMetas' \in Seq(Seq(Entries)), methodMetas' # <<>>,
         methodStats' \in Seq(Seq(Entries)), methodStats' # <<>>,
         EntriesFilled', Progress(w)'
  PROVE  IInv'
<1>1. /\ Registered' = Registered /\ methodIdsByKey' = methodIdsByKey
      /\ nextMethodId' = nextMethodId /\ lock' = lock /\ handed' = handed
  BY DEF WorkerStep, Registered
<1>2. /\ worker \in [Workers -> [at : {"idle", "blocked"} \cup Critical,
                                 key : Keys \cup {Null}, id : Nat]]
      /\ \A v \in Workers : worker[v].at \in Critical <=> lock = {v}
      /\ lock = {w}
  BY DEF IInv, TypeOK, WorkerStep
<1>3. /\ worker'[w].at = to
      /\ \A v \in Workers \ {w} : worker'[v] = worker[v]
      /\ worker' \in [Workers -> [at : {"idle", "blocked"} \cup Critical,
                                  key : Keys \cup {Null}, id : Nat]]
  BY <1>2, ZenonT(40) DEF WorkerStep
<1>4. TypeOK'
  <2>1. \A v \in Workers : worker'[v].at \in Critical <=> lock' = {v}
    BY <1>1, <1>2, <1>3
  <2>. QED
    BY <1>1, <1>3, <2>1 DEF IInv, TypeOK, Entries
<1>5. HandedAsPublished' /\ IdsDistinct' /\ IdsBelowNext'
  BY <1>1 DEF IInv, HandedAsPublished, IdsDistinct, IdsBelowNext
<1>6. RoomWhenFree'
  BY <1>1, <1>2 DEF RoomWhenFree
<1>7. KeysWaiting'
  BY <1>3 DEF IInv, KeysWaiting, Critical
<1>8. HolderProgress'
  BY <1>1, <1>2, <1>3 DEF HolderProgress
<1>. QED
  BY <1>4, <1>5, <1>6, <1>7, <1>8 DEF IInv

\* What the holder's steps start from.
LEMMA HolderFacts ==
  ASSUME IInv, NEW w \in Workers, worker[w].at \in Critical
  PROVE  /\ methodMetas \in Seq(Seq(Entries)) /\ methodMetas # <<>>
         /\ methodStats \in Seq(Seq(Entries)) /\ methodStats # <<>>
         /\ Metas \in Seq(Entries) /\ Len(Metas) \in Nat
         /\ Stats \in Seq(Entries) /\ Len(Stats) \in Nat
         /\ worker[w].id \in Nat /\ worker[w].key \in Entries
         /\ \A k \in Registered : methodIdsByKey[k] \in Nat /\ methodIdsByKey[k] < worker[w].id
         /\ Progress(w)
<1>1. /\ methodMetas \in Seq(Seq(Entries)) /\ methodMetas # <<>>
      /\ methodStats \in Seq(Seq(Entries)) /\ methodStats # <<>>
      /\ \A k \in Registered : methodIdsByKey[k] \in Nat
      /\ worker[w].id \in Nat /\ worker[w].key \in Entries
  BY DEF IInv, TypeOK, Entries
<1>2. Progress(w)
  BY DEF IInv, HolderProgress
<1>3. \A k \in Registered : methodIdsByKey[k] < worker[w].id
  BY <1>2 DEF Progress
<1>. QED
  BY <1>1, <1>2, <1>3, CurrentArrays DEF IInv

LEMMA GrowMetasKeepsIInv ==
  ASSUME IInv, NEW w \in Workers, GrowMetas(w)
  PROVE  IInv'
<1>1. WorkerStep(w, "grow_metas", "grow_stats") /\ worker[w].at = "grow_metas"
  BY DEF GrowMetas, WorkerStep
<1>2. "grow_metas" \in Critical /\ "grow_stats" \in Critical
  BY DEF Critical
<1>3. /\ Registered' = Registered /\ methodIdsByKey' = methodIdsByKey
      /\ nextMethodId' = nextMethodId
      /\ worker'[w].at = "grow_stats"
      /\ worker'[w].id = worker[w].id /\ worker'[w].key = worker[w].key
  BY <1>1 DEF IInv, TypeOK, WorkerStep, Registered
<1>4. /\ methodMetas' \in Seq(Seq(Entries)) /\ methodMetas' # <<>> /\ Metas' = Grown(Metas)
      /\ methodStats' = methodStats /\ Stats' = Stats
  BY <1>1, <1>2, HolderFacts, GrownArray, AppendLast, ZenonT(40) DEF GrowMetas, Metas, Stats
<1>5. Len(Metas') = 2 * Len(Metas) /\ Metas' \in Seq(Entries)
      /\ \A s \in 1 .. Len(Metas) : Metas'[s] = Metas[s]
  BY <1>1, <1>2, <1>4, HolderFacts, GrownArray
<1>6. EntriesFilled'
  <2>1. ASSUME NEW k \in Registered, NEW id \in Nat, Holds(Metas, id, k)
        PROVE  Holds(Metas', id, k)
    <3>1. Metas \in Seq(Entries) /\ Len(Metas) \in Nat
      BY <1>1, <1>2, HolderFacts
    <3>2. Len(Metas) <= Len(Metas')
      BY <1>5, <3>1
    <3>. QED
      BY <1>5, <2>1, <3>1, <3>2, HoldsOn
  <2>. QED
    BY <1>1, <1>2, <1>3, <1>4, <2>1, HolderFacts DEF IInv, EntriesFilled
<1>7. Progress(w)'
  BY <1>1, <1>2, <1>3, <1>4, <1>5, HolderFacts DEF Progress
<1>. QED
  BY <1>1, <1>2, <1>4, <1>6, <1>7, InsideStepKeepsIInv, HolderFacts

LEMMA GrowStatsKeepsIInv ==
  ASSUME IInv, NEW w \in Workers, GrowStats(w)
  PROVE  IInv'
<1>1. WorkerStep(w, "grow_stats", "write_meta") /\ worker[w].at = "grow_stats"
  BY DEF GrowStats, WorkerStep
<1>2. "grow_stats" \in Critical /\ "write_meta" \in Critical
  BY DEF Critical
<1>3. /\ Registered' = Registered /\ methodIdsByKey' = methodIdsByKey
      /\ nextMethodId' = nextMethodId
      /\ worker'[w].at = "write_meta"
      /\ worker'[w].id = worker[w].id /\ worker'[w].key = worker[w].key
  BY <1>1 DEF IInv, TypeOK, WorkerStep, Registered
<1>4. /\ methodStats' \in Seq(Seq(Entries)) /\ methodStats' # <<>> /\ Stats' = Grown(Stats)
      /\ methodMetas' = methodMetas /\ Metas' = Metas
  BY <1>1, <1>2, HolderFacts, GrownArray, AppendLast, ZenonT(40) DEF GrowStats, Metas, Stats
<1>5. Len(Stats') = 2 * Len(Stats) /\ Stats' \in Seq(Entries)
      /\ \A s \in 1 .. Len(Stats) : Stats'[s] = Stats[s]
  BY <1>1, <1>2, <1>4, HolderFacts, GrownArray
<1>6. EntriesFilled'
  <2>1. ASSUME NEW k \in Registered, NEW id \in Nat, Holds(Stats, id, k)
        PROVE  Holds(Stats', id, k)
    <3>1. Stats \in Seq(Entries) /\ Len(Stats) \in Nat
      BY <1>1, <1>2, HolderFacts
    <3>2. Len(Stats) <= Len(Stats')
      BY <1>5, <3>1
    <3>. QED
      BY <1>5, <2>1, <3>1, <3>2, HoldsOn
  <2>. QED
    BY <1>1, <1>2, <1>3, <1>4, <2>1, HolderFacts DEF IInv, EntriesFilled
<1>7. Progress(w)'
  <2>1. /\ worker[w].id = Len(Stats) /\ 1 <= worker[w].id /\ Len(Metas) = 2 * Len(Stats)
        /\ worker[w].id + 1 = nextMethodId
        /\ worker[w].key \in Keys /\ worker[w].key \notin Registered
        /\ \A k \in Registered : methodIdsByKey[k] < worker[w].id
    BY <1>1, <1>2, HolderFacts DEF Progress
  <2>2. Len(Stats) \in Nat /\ Slot(worker[w].id) <= 2 * Len(Stats)
    BY <1>1, <1>2, <2>1, HolderFacts DEF Slot
  <2>. QED
    BY <1>3, <1>4, <1>5, <2>1, <2>2 DEF Progress
<1>. QED
  BY <1>1, <1>2, <1>4, <1>6, <1>7, InsideStepKeepsIInv, HolderFacts

\* Written changes the slot of the id in work and nothing else.
LEMMA WrittenProperties ==
  ASSUME NEW w \in Workers, NEW v \in Seq(Seq(Entries)), v # <<>>,
         worker[w].id \in Nat, worker[w].key \in Entries,
         Slot(worker[w].id) <= Len(Last(v))
  PROVE  /\ Written(v, w) \in Seq(Seq(Entries)) /\ Written(v, w) # <<>>
         /\ Last(Written(v, w)) \in Seq(Entries)
         /\ Len(Last(Written(v, w))) = Len(Last(v))
         /\ Last(Written(v, w))[Slot(worker[w].id)] = worker[w].key
         /\ \A s \in 1 .. Len(Last(v)) :
              s # Slot(worker[w].id) => Last(Written(v, w))[s] = Last(v)[s]
<1> DEFINE array == [Last(v) EXCEPT ![Slot(worker[w].id)] = worker[w].key]
<1>1. /\ array \in Seq(Entries) /\ Len(array) = Len(Last(v))
      /\ array[Slot(worker[w].id)] = worker[w].key
      /\ \A s \in 1 .. Len(Last(v)) : s # Slot(worker[w].id) => array[s] = Last(v)[s]
  BY LastElement, WrittenArray
<1>2. Written(v, w) = [v EXCEPT ![Len(v)] = array]
  BY LastElement DEF Written, Last
<1>. HIDE DEF array
<1>3. /\ [v EXCEPT ![Len(v)] = array] \in Seq(Seq(Entries))
      /\ [v EXCEPT ![Len(v)] = array] # <<>>
      /\ Last([v EXCEPT ![Len(v)] = array]) = array
  <2>1. array \in Seq(Entries)
    BY <1>1
  <2>. QED
    BY <2>1, ReplaceLast
<1>4. Written(v, w) \in Seq(Seq(Entries)) /\ Written(v, w) # <<>> /\ Last(Written(v, w)) = array
  BY <1>2, <1>3, Zenon
<1>. QED
  BY <1>1, <1>4, Zenon

LEMMA WriteMetaKeepsIInv ==
  ASSUME IInv, NEW w \in Workers, WriteMeta(w)
  PROVE  IInv'
<1>1. WorkerStep(w, "write_meta", "write_stats") /\ worker[w].at = "write_meta"
  BY DEF WriteMeta, WorkerStep
<1>2. "write_meta" \in Critical /\ "write_stats" \in Critical
  BY DEF Critical
<1>3. /\ Registered' = Registered /\ methodIdsByKey' = methodIdsByKey
      /\ nextMethodId' = nextMethodId
      /\ worker'[w].at = "write_stats"
      /\ worker'[w].id = worker[w].id /\ worker'[w].key = worker[w].key
  BY <1>1 DEF IInv, TypeOK, WorkerStep, Registered
<1>4. Slot(worker[w].id) <= Len(Metas)
  BY <1>1, <1>2, HolderFacts DEF Progress
<1>5. /\ methodMetas' \in Seq(Seq(Entries)) /\ methodMetas' # <<>>
      /\ methodStats' = methodStats /\ Stats' = Stats
      /\ Metas' \in Seq(Entries) /\ Len(Metas') = Len(Metas)
      /\ Metas'[Slot(worker[w].id)] = worker[w].key
      /\ \A s \in 1 .. Len(Metas) : s # Slot(worker[w].id) => Metas'[s] = Metas[s]
  BY <1>1, <1>2, <1>4, HolderFacts, WrittenProperties DEF WriteMeta, Metas, Stats
<1>6. EntriesFilled'
  <2>1. ASSUME NEW k \in Registered, NEW id \in Nat, Holds(Metas, id, k), id < worker[w].id
        PROVE  Holds(Metas', id, k)
    <3>1. Slot(id) # Slot(worker[w].id)
      BY <1>1, <1>2, <2>1, HolderFacts DEF Slot
    <3>2. Metas \in Seq(Entries) /\ Len(Metas) \in Nat
      BY <1>1, <1>2, HolderFacts
    <3>3. /\ Metas' \in Seq(Entries) /\ Len(Metas) <= Len(Metas')
          /\ \A s \in 1 .. Len(Metas) : s = Slot(id) => Metas'[s] = Metas[s]
      <4>1. Metas' \in Seq(Entries) /\ Len(Metas) <= Len(Metas')
        BY <1>5, <3>2
      <4>2. \A s \in 1 .. Len(Metas) : s = Slot(id) => Metas'[s] = Metas[s]
        BY <1>5, <3>1
      <4>. QED
        BY <4>1, <4>2
    <3>. QED
      BY <2>1, <3>2, <3>3, HoldsOn
  <2>. QED
    BY <1>1, <1>2, <1>3, <1>5, <2>1, HolderFacts DEF IInv, EntriesFilled
<1>7. Progress(w)'
  BY <1>1, <1>2, <1>3, <1>4, <1>5, HolderFacts DEF Progress, Holds
<1>. QED
  BY <1>1, <1>2, <1>5, <1>6, <1>7, InsideStepKeepsIInv, HolderFacts

LEMMA WriteStatsKeepsIInv ==
  ASSUME IInv, NEW w \in Workers, WriteStats(w)
  PROVE  IInv'
<1>1. WorkerStep(w, "write_stats", "publish") /\ worker[w].at = "write_stats"
  BY DEF WriteStats, WorkerStep
<1>2. "write_stats" \in Critical /\ "publish" \in Critical
  BY DEF Critical
<1>3. /\ Registered' = Registered /\ methodIdsByKey' = methodIdsByKey
      /\ nextMethodId' = nextMethodId
      /\ worker'[w].at = "publish"
      /\ worker'[w].id = worker[w].id /\ worker'[w].key = worker[w].key
  BY <1>1 DEF IInv, TypeOK, WorkerStep, Registered
<1>4. Slot(worker[w].id) <= Len(Metas) /\ Slot(worker[w].id) <= Len(Stats)
  BY <1>1, <1>2, HolderFacts DEF Progress
<1>5. /\ methodStats' \in Seq(Seq(Entries)) /\ methodStats' # <<>>
      /\ methodMetas' = methodMetas /\ Metas' = Metas
      /\ Stats' \in Seq(Entries) /\ Len(Stats') = Len(Stats)
      /\ Stats'[Slot(worker[w].id)] = worker[w].key
      /\ \A s \in 1 .. Len(Stats) : s # Slot(worker[w].id) => Stats'[s] = Stats[s]
  BY <1>1, <1>2, <1>4, HolderFacts, WrittenProperties DEF WriteStats, Metas, Stats
<1>6. EntriesFilled'
  <2>1. ASSUME NEW k \in Registered, NEW id \in Nat, Holds(Stats, id, k), id < worker[w].id
        PROVE  Holds(Stats', id, k)
    <3>1. Slot(id) # Slot(worker[w].id)
      BY <1>1, <1>2, <2>1, HolderFacts DEF Slot
    <3>2. Stats \in Seq(Entries) /\ Len(Stats) \in Nat
      BY <1>1, <1>2, HolderFacts
    <3>3. /\ Stats' \in Seq(Entries) /\ Len(Stats) <= Len(Stats')
          /\ \A s \in 1 .. Len(Stats) : s = Slot(id) => Stats'[s] = Stats[s]
      <4>1. Stats' \in Seq(Entries) /\ Len(Stats) <= Len(Stats')
        BY <1>5, <3>2
      <4>2. \A s \in 1 .. Len(Stats) : s = Slot(id) => Stats'[s] = Stats[s]
        BY <1>5, <3>1
      <4>. QED
        BY <4>1, <4>2
    <3>. QED
      BY <2>1, <3>2, <3>3, HoldsOn
  <2>. QED
    BY <1>1, <1>2, <1>3, <1>5, <2>1, HolderFacts DEF IInv, EntriesFilled
<1>7. Progress(w)'
  BY <1>1, <1>2, <1>3, <1>4, <1>5, HolderFacts DEF Progress, Holds
<1>. QED
  BY <1>1, <1>2, <1>5, <1>6, <1>7, InsideStepKeepsIInv, HolderFacts

\* Publishing: the new id is above all others, and its entries are filled.
LEMMA PublishKeepsIInv ==
  ASSUME IInv, NEW w \in Workers, Publish(w)
  PROVE  IInv'
<1> DEFINE key == worker[w].key
           id  == worker[w].id
<1>1. worker[w].at = "publish" /\ worker[w].at \in Critical
  BY DEF Publish, Critical
<1>2. /\ key \in Keys /\ key \notin Registered /\ id \in Nat /\ id + 1 = nextMethodId
      /\ \A k \in Registered : methodIdsByKey[k] \in Nat /\ methodIdsByKey[k] < id
      /\ Holds(Metas, id, key) /\ Holds(Stats, id, key)
      /\ Slot(id) <= Len(Metas) /\ Len(Stats) = Len(Metas)
  BY <1>1, HolderFacts DEF Progress
<1>3. /\ Metas' = Metas /\ Stats' = Stats /\ nextMethodId' = nextMethodId
      /\ methodMetas' = methodMetas /\ methodStats' = methodStats
      /\ handed' = handed \cup {<<key, id>>}
      /\ lock' = {} /\ worker' = [worker EXCEPT ![w] = IdleWorker]
  BY DEF Publish, Metas, Stats
<1>. HIDE DEF key, id
<1>4. /\ Registered' = Registered \cup {key}
      /\ methodIdsByKey'[key] = id
      /\ \A k \in Registered : methodIdsByKey'[k] = methodIdsByKey[k]
  BY <1>2 DEF Publish, Registered, key, id
<1>5. /\ worker \in [Workers -> [at : {"idle", "blocked"} \cup Critical,
                                 key : Keys \cup {Null}, id : Nat]]
      /\ \A v \in Workers : worker[v].at \in Critical <=> lock = {v}
      /\ handed \subseteq Keys \X Nat
  BY DEF IInv, TypeOK
<1>6. /\ worker'[w] = IdleWorker /\ \A v \in Workers \ {w} : worker'[v] = worker[v]
      /\ IdleWorker \in [at : {"idle", "blocked"}, key : Keys \cup {Null}, id : Nat]
      /\ IdleWorker.at \notin Critical /\ IdleWorker.at # "blocked"
  BY <1>3, <1>5 DEF IdleWorker, Critical
<1>7. \A v \in Workers : worker'[v].at \notin Critical
  BY <1>1, <1>5, <1>6
<1>8. TypeOK'
  <2>1. worker' \in [Workers -> [at : {"idle", "blocked"} \cup Critical,
                                key : Keys \cup {Null}, id : Nat]]
    BY <1>3, <1>5, <1>6
  <2>2. Registered' \subseteq Keys /\ \A k \in Registered' : methodIdsByKey'[k] \in Nat
    BY <1>2, <1>4 DEF IInv, TypeOK
  <2>3. handed' \subseteq Keys \X Nat
    BY <1>2, <1>3, <1>5
  <2>. QED
    BY <1>3, <1>7, <2>1, <2>2, <2>3 DEF IInv, TypeOK
<1>9. HandedAsPublished'
  BY <1>2, <1>3, <1>4 DEF IInv, HandedAsPublished
<1>10. IdsDistinct'
  BY <1>2, <1>4 DEF IInv, IdsDistinct
<1>11. IdsBelowNext'
  <2>1. \A k \in Registered' : methodIdsByKey'[k] = id \/ methodIdsByKey'[k] < id
    BY <1>2, <1>4
  <2>2. \A k \in Registered' : methodIdsByKey'[k] \in Nat
    BY <1>8 DEF TypeOK
  <2>. QED
    BY <1>2, <1>3, <2>1, <2>2 DEF IdsBelowNext
<1>12. EntriesFilled'
  BY <1>2, <1>3, <1>4 DEF IInv, EntriesFilled
<1>13. RoomWhenFree'
  <2>1. Len(Metas) \in Nat
    BY CurrentArrays DEF IInv
  <2>. QED
    BY <1>2, <1>3, <2>1 DEF RoomWhenFree, Slot
<1>14. KeysWaiting' /\ HolderProgress'
  BY <1>6, <1>7 DEF IInv, KeysWaiting, HolderProgress
<1>. QED
  BY <1>8, <1>9, <1>10, <1>11, <1>12, <1>13, <1>14 DEF IInv

----------------------------------------------------------------------------
(* Readers change nothing the invariant speaks of.                         *)

LEMMA UnchangedKeepsIInv == IInv /\ UNCHANGED registry => IInv'
  BY DEF IInv, registry, TypeOK, HandedAsPublished, IdsDistinct, IdsBelowNext, EntriesFilled,
         RoomWhenFree, KeysWaiting, HolderProgress, Progress, Registered, Metas, Stats

LEMMA StepKeepsIInv == IInv /\ [Next]_vars => IInv'
<1>. SUFFICES ASSUME IInv, [Next]_vars PROVE IInv'
  OBVIOUS
<1>1. ASSUME NEW w \in Workers, Register(w) PROVE IInv'
  BY <1>1, LookKeepsIInv, FindUnderLockKeepsIInv, TakeIdKeepsIInv, GrowMetasKeepsIInv,
     GrowStatsKeepsIInv, WriteMetaKeepsIInv, WriteStatsKeepsIInv, PublishKeepsIInv DEF Register
<1>2. ASSUME NEW r \in Readers, Snapshot(r) PROVE IInv'
  BY <1>2, UnchangedKeepsIInv
     DEF Snapshot, TakeMetas, TakeStats, TakeMax, ReadRow, Reply, Forget
<1>3. CASE UNCHANGED vars
  BY <1>3, UnchangedKeepsIInv DEF vars
<1>. QED
  BY <1>1, <1>2, <1>3 DEF Next

\* The registry's types, and mutual exclusion on the lock of Profiler.class.
THEOREM RegistryTypes == Spec => []TypeOK
<1>1. IInv => TypeOK
  BY DEF IInv
<1>. QED
  BY InitIInv, StepKeepsIInv, <1>1, PTL DEF Spec

\* Whatever threads race to register a method, all of them get the same id,
\* and no other method gets it (Profiler.registerMethod 397-415).
THEOREM RegistryOneIdPerKey == Spec => []OneIdPerKey
<1>1. IInv => OneIdPerKey
  BY DEF IInv, OneIdPerKey, HandedAsPublished, IdsDistinct
<1>. QED
  BY InitIInv, StepKeepsIInv, <1>1, PTL DEF Spec

\* An id handed out is in range and filled in both arrays from then on, also
\* while the arrays are being replaced (437-443 against 421-435).
THEOREM RegistryUsableAtOnce == Spec => []UsableAtOnce
<1>1. IInv => UsableAtOnce
  BY DEF IInv, UsableAtOnce, HandedAsPublished, EntriesFilled, Holds, Metas, Stats
<1>. QED
  BY InitIInv, StepKeepsIInv, <1>1, PTL DEF Spec

----------------------------------------------------------------------------
(* Part 2: snapshots.  A reader holds on to versions of the arrays that    *)
(* may have been replaced, so the invariant speaks of every version: what  *)
(* is in an element belongs to its id, and stays there.                    *)

\* The ids that are taken: published, or in the hands of the lock's holder.
Owned ==
  {x \in Keys \X Nat :
     \/ x[1] \in Registered /\ methodIdsByKey[x[1]] = x[2]
     \/ \E w \in Workers : worker[w].at \in Critical /\ x = <<worker[w].key, worker[w].id>>}

FilledBy(versions, owned) ==
  \A v \in 1 .. Len(versions) : \A s \in 1 .. Len(versions[v]) :
    versions[v][s] = Null \/ <<versions[v][s], s - 1>> \in owned

VersionsFilled == FilledBy(methodMetas, Owned) /\ FilledBy(methodStats, Owned)

SnapshotType ==
  [at : {"idle", "take_stats", "take_max", "rows", "done"}, metas : Nat, stats : Nat,
   max : Nat, next : Nat, rows : SUBSET (Entries \X Entries), known : SUBSET Keys]

\* What a snapshot here has got hold of, and how far it has read.
ReadSoFar(here) ==
  /\ here.metas \in 1 .. Len(methodMetas) /\ here.stats \in 1 .. Len(methodStats)
  /\ here.next <= here.max
  /\ \A k \in here.known :
       /\ k \in Registered
       /\ Holds(methodMetas[here.metas], methodIdsByKey[k], k)
       /\ here.at # "take_stats" => Holds(methodStats[here.stats], methodIdsByKey[k], k)
       /\ here.at \in {"rows", "done"} =>
            /\ methodIdsByKey[k] < here.max
            /\ methodIdsByKey[k] < here.next => <<k, k>> \in here.rows
  /\ here.at \in {"rows", "done"} =>
       here.max <= Len(methodMetas[here.metas]) /\ here.max <= Len(methodStats[here.stats])
  /\ here.at \notin {"rows", "done"} => here.next = 0
  /\ here.at = "done" => here.next = here.max
  /\ \A row \in here.rows : row[1] = row[2]

SnapInv ==
  /\ IInv
  /\ VersionsFilled
  /\ snapshot \in [Readers -> SnapshotType]
  /\ \A r \in Readers : ReadSoFar(snapshot[r])

\* Versions of an array whose elements at ids stay as they are.
Kept(old, new) ==
  \A v \in 1 .. Len(old) :
    /\ v \in 1 .. Len(new) /\ Len(new[v]) = Len(old[v])
    /\ \A k \in Registered :
         Holds(old[v], methodIdsByKey[k], k) => Holds(new[v], methodIdsByKey[k], k)

LEMMA OwnedUnique ==
  ASSUME IInv, NEW x \in Owned, NEW y \in Owned, x[2] = y[2]
  PROVE  x[1] = y[1]
<1>1. \A w \in Workers : worker[w].at \in Critical =>
        \A k \in Registered : methodIdsByKey[k] < worker[w].id /\ methodIdsByKey[k] \in Nat
  BY HolderFacts
<1>2. \A v, w \in Workers : worker[v].at \in Critical /\ worker[w].at \in Critical => v = w
  BY DEF IInv, TypeOK
<1>3. \A j, k \in Registered : methodIdsByKey[j] = methodIdsByKey[k] => j = k
  BY DEF IInv, IdsDistinct
<1>4. /\ (x[1] \in Registered /\ methodIdsByKey[x[1]] = x[2])
         \/ \E w \in Workers : worker[w].at \in Critical /\ x = <<worker[w].key, worker[w].id>>
      /\ (y[1] \in Registered /\ methodIdsByKey[y[1]] = y[2])
         \/ \E w \in Workers : worker[w].at \in Critical /\ y = <<worker[w].key, worker[w].id>>
  BY DEF Owned
<1>. QED
  BY <1>1, <1>2, <1>3, <1>4

\* An id, once taken, stays with its key.
LEMMA OwnedStays ==
  ASSUME IInv, NEW w \in Workers, Register(w)
  PROVE  /\ Owned \subseteq Owned'
         /\ \A k \in Registered : k \in Registered' /\ methodIdsByKey'[k] = methodIdsByKey[k]
<1>1. /\ worker \in [Workers -> [at : {"idle", "blocked"} \cup Critical,
                                 key : Keys \cup {Null}, id : Nat]]
      /\ \A v \in Workers : worker[v].at \in Critical <=> lock = {v}
  BY DEF IInv, TypeOK
<1>2. CASE Publish(w)
  <2>1. worker[w].at \in Critical /\ \A v \in Workers : worker[v].at \in Critical => v = w
    BY <1>1, <1>2 DEF Publish, Critical
  <2>2. worker[w].key \notin Registered
    BY <2>1 DEF IInv, HolderProgress, Progress
  <2>3. /\ Registered' = Registered \cup {worker[w].key}
        /\ methodIdsByKey'[worker[w].key] = worker[w].id
        /\ \A k \in Registered : methodIdsByKey'[k] = methodIdsByKey[k]
    BY <1>2, <2>2 DEF Publish, Registered
  <2>. QED
    BY <2>1, <2>3 DEF Owned
<1>3. CASE ~Publish(w)
  <2>1. UNCHANGED methodIdsByKey
    BY <1>3 DEF Register, Look, FindUnderLock, TakeId, GrowMetas, GrowStats, WriteMeta,
       WriteStats, WorkerStep
  <2>2. ASSUME NEW v \in Workers, worker[v].at \in Critical
        PROVE  /\ worker'[v].at \in Critical
               /\ worker'[v].key = worker[v].key /\ worker'[v].id = worker[v].id
    <3>1. CASE v # w
      <4>1. worker' = worker \/ \E next : worker' = [worker EXCEPT ![w] = next]
        BY <1>3 DEF Register, Look, FindUnderLock, TakeId, GrowMetas, GrowStats, WriteMeta,
           WriteStats, WorkerStep
      <4>2. worker'[v] = worker[v]
        BY <1>1, <3>1, <4>1
      <4>. QED
        BY <2>2, <4>2
    <3>2. CASE v = w
      BY <1>1, <1>3, <2>2, <3>2 DEF Register, Look, FindUnderLock, TakeId, GrowMetas, GrowStats,
         WriteMeta, WriteStats, WorkerStep, Critical
    <3>. QED
      BY <3>1, <3>2
  <2>. QED
    BY <2>1, <2>2 DEF Owned, Registered
<1>. QED
  BY <1>2, <1>3

\* A longer copy becomes the current version.
LEMMA GrownVersions ==
  ASSUME NEW old \in Seq(Seq(Entries)), old # <<>>, NEW owned, FilledBy(old, owned)
  PROVE  /\ FilledBy(Append(old, Grown(Last(old))), owned)
         /\ Kept(old, Append(old, Grown(Last(old))))
<1> DEFINE grown == Grown(Last(old))
<1>1. /\ Len(old) \in Nat \ {0} /\ Last(old) \in Seq(Entries) /\ Len(Last(old)) \in Nat
      /\ Last(old) = old[Len(old)]
  BY LastElement, LenProperties DEF Last
<1>2. /\ grown \in Seq(Entries) /\ Len(grown) = 2 * Len(Last(old))
      /\ \A s \in 1 .. Len(grown) : grown[s] = IF s <= Len(Last(old)) THEN Last(old)[s] ELSE Null
  BY <1>1, GrownArray DEF Grown
<1>. HIDE DEF grown
<1>3. /\ Len(Append(old, grown)) = Len(old) + 1
      /\ \A v \in 1 .. Len(old) : Append(old, grown)[v] = old[v]
      /\ Append(old, grown)[Len(old) + 1] = grown
  BY <1>2, AppendProperties
<1>4. FilledBy(Append(old, grown), owned)
  <2>1. ASSUME NEW v \in 1 .. Len(Append(old, grown)),
               NEW s \in 1 .. Len(Append(old, grown)[v])
        PROVE  \/ Append(old, grown)[v][s] = Null
               \/ <<Append(old, grown)[v][s], s - 1>> \in owned
    <3>1. CASE v \in 1 .. Len(old)
      BY <1>3, <2>1, <3>1 DEF FilledBy
    <3>2. CASE v = Len(old) + 1
      <4>1. s \in 1 .. Len(grown) /\ Append(old, grown)[v][s] = grown[s]
        BY <1>3, <2>1, <3>2
      <4>2. s <= Len(Last(old)) => s \in 1 .. Len(old[Len(old)])
        BY <1>1, <4>1
      <4>3. \A q \in 1 .. Len(old[Len(old)]) :
              old[Len(old)][q] = Null \/ <<old[Len(old)][q], q - 1>> \in owned
        BY <1>1, SMTT(30) DEF FilledBy
      <4>. QED
        BY <1>1, <1>2, <4>1, <4>2, <4>3
    <3>3. v \in 1 .. Len(old) \/ v = Len(old) + 1
      BY <1>1, <1>3, <2>1
    <3>. QED
      BY <3>1, <3>2, <3>3
  <2>. QED
    BY <2>1 DEF FilledBy
<1>5. Kept(old, Append(old, grown))
  BY <1>1, <1>3 DEF Kept
<1>. QED
  BY <1>4, <1>5 DEF grown

\* The holder of the lock writes its key at its id, where no other belongs.
LEMMA WrittenVersions ==
  ASSUME NEW w \in Workers, NEW old \in Seq(Seq(Entries)), old # <<>>,
         worker[w].id \in Nat, worker[w].key \in Entries,
         Slot(worker[w].id) <= Len(Last(old)),
         \A k \in Registered : methodIdsByKey[k] \in Nat /\ methodIdsByKey[k] < worker[w].id,
         NEW owned, FilledBy(old, owned), <<worker[w].key, worker[w].id>> \in owned
  PROVE  FilledBy(Written(old, w), owned) /\ Kept(old, Written(old, w))
<1> DEFINE here == Slot(worker[w].id)
           array == [Last(old) EXCEPT ![here] = worker[w].key]
<1>1. /\ Len(old) \in Nat \ {0} /\ Last(old) \in Seq(Entries) /\ Len(Last(old)) \in Nat
      /\ Last(old) = old[Len(old)] /\ DOMAIN old = 1 .. Len(old)
      /\ here \in 1 .. Len(Last(old))
  BY LastElement, LenProperties DEF Last, Slot
<1>2. /\ array \in Seq(Entries) /\ Len(array) = Len(Last(old))
      /\ array[here] = worker[w].key
      /\ \A s \in 1 .. Len(Last(old)) : s # here => array[s] = Last(old)[s]
  BY <1>1, WrittenArray
<1>3. Written(old, w) = [old EXCEPT ![Len(old)] = array]
  BY <1>1 DEF Written
<1>4. here - 1 = worker[w].id
  BY DEF Slot
<1>. HIDE DEF array, here
<1>5. /\ Len(Written(old, w)) = Len(old)
      /\ \A v \in 1 .. Len(old) : v # Len(old) => Written(old, w)[v] = old[v]
      /\ Written(old, w)[Len(old)] = array
  <2>1. Len(old) \in 1 .. Len(old)
    BY <1>1
  <2>2. Len([old EXCEPT ![Len(old)] = array]) = Len(old)
    BY <1>2, <2>1, ExceptSeq
  <2>3. \A v \in DOMAIN old :
          [old EXCEPT ![Len(old)] = array][v] = IF v = Len(old) THEN array ELSE old[v]
    OBVIOUS
  <2>. QED
    BY <1>1, <1>3, <2>1, <2>2, <2>3
<1>6. ASSUME NEW v \in 1 .. Len(old), NEW s \in 1 .. Len(Written(old, w)[v])
      PROVE  Written(old, w)[v][s] = Null \/ <<Written(old, w)[v][s], s - 1>> \in owned
  <2>1. CASE v # Len(old)
    BY <1>5, <1>6, <2>1 DEF FilledBy
  <2>2. CASE v = Len(old) /\ s # here
    <3>1. s \in 1 .. Len(old[v]) /\ Written(old, w)[v][s] = old[v][s]
      BY <1>1, <1>2, <1>5, <1>6, <2>2
    <3>. QED
      BY <3>1 DEF FilledBy
  <2>3. CASE v = Len(old) /\ s = here
    BY <1>2, <1>4, <1>5, <2>3
  <2>. QED
    BY <2>1, <2>2, <2>3
<1>7. ASSUME NEW v \in 1 .. Len(old)
      PROVE  /\ v \in 1 .. Len(Written(old, w)) /\ Len(Written(old, w)[v]) = Len(old[v])
             /\ \A k \in Registered : Holds(old[v], methodIdsByKey[k], k)
                                      => Holds(Written(old, w)[v], methodIdsByKey[k], k)
  <2>1. CASE v # Len(old)
    BY <1>5, <2>1
  <2>2. CASE v = Len(old)
    <3>1. \A k \in Registered : Slot(methodIdsByKey[k]) \in Nat \ {0} /\ Slot(methodIdsByKey[k]) # here
      BY SMTT(30) DEF Slot, here
    <3>2. /\ v \in 1 .. Len(Written(old, w)) /\ Written(old, w)[v] = array
          /\ old[v] = Last(old) /\ Len(array) = Len(Last(old))
      BY <1>1, <1>2, <1>5, <2>2
    <3>3. ASSUME NEW k \in Registered, Holds(Last(old), methodIdsByKey[k], k)
          PROVE  Holds(array, methodIdsByKey[k], k)
      <4>1. Slot(methodIdsByKey[k]) \in 1 .. Len(Last(old))
        BY <1>1, <3>1, <3>3 DEF Holds
      <4>. QED
        BY <1>2, <3>1, <3>3, <4>1 DEF Holds
    <3>. QED
      BY <3>2, <3>3
  <2>. QED
    BY <2>1, <2>2
<1>. QED
  BY <1>5, <1>6, <1>7 DEF FilledBy, Kept

\* Whatever a thread does to register a method, readers keep what they have.
LEMMA RegisterKeepsVersions ==
  ASSUME IInv, VersionsFilled, NEW w \in Workers, Register(w)
  PROVE  VersionsFilled' /\ Kept(methodMetas, methodMetas') /\ Kept(methodStats, methodStats')
<1>1. Owned \subseteq Owned'
  BY OwnedStays
<1>2. /\ methodMetas \in Seq(Seq(Entries)) /\ methodMetas # <<>>
      /\ methodStats \in Seq(Seq(Entries)) /\ methodStats # <<>>
  BY DEF IInv, TypeOK, Entries
<1>3. FilledBy(methodMetas, Owned') /\ FilledBy(methodStats, Owned')
  BY <1>1 DEF VersionsFilled, FilledBy
<1>4. /\ UNCHANGED methodMetas => Kept(methodMetas, methodMetas')
      /\ UNCHANGED methodStats => Kept(methodStats, methodStats')
  BY DEF Kept
<1>5. ASSUME worker[w].at \in {"write_meta", "write_stats"}
      PROVE  /\ worker[w].id \in Nat /\ worker[w].key \in Entries
             /\ Slot(worker[w].id) <= Len(Last(methodMetas))
             /\ Slot(worker[w].id) <= Len(Last(methodStats))
             /\ \A k \in Registered :
                  methodIdsByKey[k] \in Nat /\ methodIdsByKey[k] < worker[w].id
             /\ <<worker[w].key, worker[w].id>> \in Owned'
  <2>1. worker[w].at \in Critical
    BY <1>5 DEF Critical
  <2>2. /\ worker[w].id \in Nat /\ worker[w].key \in Keys /\ worker[w].key \in Entries
        /\ \A k \in Registered : methodIdsByKey[k] \in Nat /\ methodIdsByKey[k] < worker[w].id
        /\ Slot(worker[w].id) <= Len(Metas) /\ Slot(worker[w].id) <= Len(Stats)
    BY <1>5, <2>1, HolderFacts DEF Progress
  <2>3. <<worker[w].key, worker[w].id>> \in Owned
    BY <2>1, <2>2 DEF Owned
  <2>. QED
    BY <1>1, <2>2, <2>3 DEF Metas, Stats
<1>6. CASE GrowMetas(w)
  BY <1>2, <1>3, <1>4, <1>6, GrownVersions DEF GrowMetas, VersionsFilled
<1>7. CASE GrowStats(w)
  BY <1>2, <1>3, <1>4, <1>7, GrownVersions DEF GrowStats, VersionsFilled
<1>8. CASE WriteMeta(w)
  <2>1. /\ worker[w].at \in {"write_meta", "write_stats"}
        /\ methodMetas' = Written(methodMetas, w) /\ UNCHANGED methodStats
    BY <1>8 DEF WriteMeta, WorkerStep
  <2>2. FilledBy(methodMetas', Owned') /\ Kept(methodMetas, methodMetas')
    BY <1>2, <1>3, <1>5, <2>1, WrittenVersions
  <2>. QED
    BY <1>3, <1>4, <2>1, <2>2 DEF VersionsFilled
<1>9. CASE WriteStats(w)
  <2>1. /\ worker[w].at \in {"write_meta", "write_stats"}
        /\ methodStats' = Written(methodStats, w) /\ UNCHANGED methodMetas
    BY <1>9 DEF WriteStats, WorkerStep
  <2>2. FilledBy(methodStats', Owned') /\ Kept(methodStats, methodStats')
    BY <1>2, <1>3, <1>5, <2>1, WrittenVersions
  <2>. QED
    BY <1>3, <1>4, <2>1, <2>2 DEF VersionsFilled
<1>10. CASE UNCHANGED <<methodMetas, methodStats>>
  BY <1>3, <1>4, <1>10 DEF VersionsFilled
<1>. QED
  BY <1>6, <1>7, <1>8, <1>9, <1>10 DEF Register, Look, FindUnderLock, TakeId, Publish

----------------------------------------------------------------------------
(* The steps of a reader.                                                  *)

LEMMA RegisterKeepsReader ==
  ASSUME SnapInv, NEW w \in Workers, Register(w), NEW r \in Readers
  PROVE  ReadSoFar(snapshot[r])'
<1>1. snapshot' = snapshot
  BY DEF Register, Look, FindUnderLock, TakeId, GrowMetas, GrowStats, WriteMeta, WriteStats,
         WorkerStep, Publish
<1>2. Kept(methodMetas, methodMetas') /\ Kept(methodStats, methodStats')
  BY RegisterKeepsVersions DEF SnapInv
<1>3. \A k \in Registered : k \in Registered' /\ methodIdsByKey'[k] = methodIdsByKey[k]
  BY OwnedStays DEF SnapInv
<1>4. PICK here : here = snapshot[r]
  OBVIOUS
<1>5. ReadSoFar(here)
  BY <1>4 DEF SnapInv
<1>6. /\ here.metas \in 1 .. Len(methodMetas) /\ here.metas \in 1 .. Len(methodMetas')
      /\ here.stats \in 1 .. Len(methodStats) /\ here.stats \in 1 .. Len(methodStats')
      /\ Len(methodMetas'[here.metas]) = Len(methodMetas[here.metas])
      /\ Len(methodStats'[here.stats]) = Len(methodStats[here.stats])
  BY <1>2, <1>5 DEF ReadSoFar, Kept
<1>7. ASSUME NEW k \in here.known
      PROVE  /\ k \in Registered'
             /\ Holds(methodMetas'[here.metas], methodIdsByKey'[k], k)
             /\ here.at # "take_stats" =>
                  Holds(methodStats'[here.stats], methodIdsByKey'[k], k)
             /\ here.at \in {"rows", "done"} =>
                  /\ methodIdsByKey'[k] < here.max
                  /\ methodIdsByKey'[k] < here.next => <<k, k>> \in here.rows
  <2>1. k \in Registered
    BY <1>5 DEF ReadSoFar
  <2>. QED
    BY <1>2, <1>3, <1>5, <1>6, <2>1 DEF ReadSoFar, Kept
<1>8. ReadSoFar(here)'
  BY <1>5, <1>6, <1>7 DEF ReadSoFar
<1>. QED
  BY <1>1, <1>4, <1>8

\* Both arrays hold what is registered.
LEMMA RegisteredHeld ==
  ASSUME IInv, NEW k \in Registered
  PROVE  /\ Holds(methodMetas[Len(methodMetas)], methodIdsByKey[k], k)
         /\ Holds(methodStats[Len(methodStats)], methodIdsByKey[k], k)
         /\ methodIdsByKey[k] \in Nat /\ methodIdsByKey[k] < nextMethodId
BY DEF IInv, TypeOK, EntriesFilled, IdsBelowNext, Metas, Stats, Last

\* The limit of a snapshot covers every id whose entries it has got hold of.
LEMMA LimitCovers ==
  ASSUME SnapInv, NEW r \in Readers
  PROVE  /\ Limit(r) \in Nat
         /\ Limit(r) <= Len(methodMetas[snapshot[r].metas])
         /\ Limit(r) <= Len(methodStats[snapshot[r].stats])
         /\ \A id \in Nat : /\ id < nextMethodId
                            /\ id < Len(methodMetas[snapshot[r].metas])
                            /\ id < Len(methodStats[snapshot[r].stats])
                            => id < Limit(r)
<1> DEFINE metas == Len(methodMetas[snapshot[r].metas])
           stats == Len(methodStats[snapshot[r].stats])
           Least(n) == n <= nextMethodId /\ n <= metas /\ n <= stats
<1>1. nextMethodId \in Nat /\ metas \in Nat /\ stats \in Nat
  <2>1. /\ methodMetas \in Seq(Seq(Entries)) /\ methodStats \in Seq(Seq(Entries))
        /\ nextMethodId \in Nat
    BY DEF SnapInv, IInv, TypeOK, Entries
  <2>2. /\ snapshot[r].metas \in 1 .. Len(methodMetas)
        /\ snapshot[r].stats \in 1 .. Len(methodStats)
    BY DEF SnapInv, ReadSoFar
  <2>3. /\ methodMetas[snapshot[r].metas] \in Seq(Entries)
        /\ methodStats[snapshot[r].stats] \in Seq(Entries)
    BY <2>1, <2>2, ElementOfSeq
  <2>. QED
    BY <2>1, <2>3, LenProperties
<1>. HIDE DEF metas, stats
<1>2. \E n \in {nextMethodId, metas, stats} : Least(n)
  <2>1. Least(nextMethodId) \/ Least(metas) \/ Least(stats)
    BY <1>1
  <2>. QED
    BY <2>1
<1>3. Limit(r) = CHOOSE n \in {nextMethodId, metas, stats} : Least(n)
  BY DEF Limit, metas, stats
<1>4. Limit(r) \in {nextMethodId, metas, stats} /\ Least(Limit(r))
  <2>. HIDE DEF Least
  <2>. QED
    BY <1>2, <1>3
<1>. QED
  BY <1>1, <1>4 DEF metas, stats

\* A row pairs a method with its own statistics, for one id has one key.
LEMMA RowsPair ==
  ASSUME SnapInv, NEW here, ReadSoFar(here), here.next \in Nat, here.max \in Nat,
         here.at = "rows", here.next < here.max
  PROVE  LET meta == methodMetas[here.metas][Slot(here.next)]
             stat == methodStats[here.stats][Slot(here.next)]
         IN  /\ meta \in Entries /\ stat \in Entries
             /\ Null \notin {meta, stat} => meta = stat
<1> DEFINE slot == Slot(here.next)
           meta == methodMetas[here.metas][slot]
           stat == methodStats[here.stats][slot]
<1>1. /\ here.metas \in 1 .. Len(methodMetas) /\ here.stats \in 1 .. Len(methodStats)
      /\ here.max <= Len(methodMetas[here.metas]) /\ here.max <= Len(methodStats[here.stats])
  BY DEF ReadSoFar
<1>2. methodMetas[here.metas] \in Seq(Entries) /\ methodStats[here.stats] \in Seq(Entries)
  <2>1. methodMetas \in Seq(Seq(Entries)) /\ methodStats \in Seq(Seq(Entries))
    BY DEF SnapInv, IInv, TypeOK, Entries
  <2>. QED
    BY <1>1, <2>1, ElementOfSeq
<1>3. /\ slot \in 1 .. Len(methodMetas[here.metas]) /\ slot \in 1 .. Len(methodStats[here.stats])
      /\ slot - 1 = here.next
  BY <1>1, <1>2, LenProperties DEF Slot
<1>4. meta \in Entries /\ stat \in Entries
  BY <1>2, <1>3, ElementOfSeq
<1>5. /\ meta = Null \/ <<meta, here.next>> \in Owned
      /\ stat = Null \/ <<stat, here.next>> \in Owned
  BY <1>1, <1>3 DEF SnapInv, VersionsFilled, FilledBy
<1>6. ASSUME NEW x \in Owned, NEW y \in Owned, x[2] = y[2] PROVE x[1] = y[1]
  BY <1>6, OwnedUnique DEF SnapInv
<1>. HIDE DEF meta, stat
<1>7. <<meta, here.next>> \in Owned /\ <<stat, here.next>> \in Owned => meta = stat
  BY <1>6
<1>8. Null \notin {meta, stat} => meta = stat
  BY <1>5, <1>7
<1>. QED
  BY <1>4, <1>8 DEF meta, stat, slot

LEMMA ReaderStep ==
  ASSUME SnapInv, NEW r \in Readers, Snapshot(r)
  PROVE  snapshot'[r] \in SnapshotType /\ ReadSoFar(snapshot'[r])
<1>1. PICK here : here = snapshot[r]
  OBVIOUS
<1>2. here \in SnapshotType /\ ReadSoFar(here) /\ DOMAIN snapshot = Readers
  BY <1>1 DEF SnapInv
<1>3. /\ IInv /\ Len(methodMetas) \in Nat \ {0} /\ Len(methodStats) \in Nat \ {0}
      /\ Registered \subseteq Keys /\ \A k \in Registered : methodIdsByKey[k] \in Nat
  BY LastElement DEF SnapInv, IInv, TypeOK
<1>4. ASSUME TakeMetas(r) PROVE snapshot'[r] \in SnapshotType /\ ReadSoFar(snapshot'[r])
  <2>1. snapshot'[r] = [at |-> "take_stats", metas |-> Len(methodMetas), stats |-> 1, max |-> 0,
                        next |-> 0, rows |-> {}, known |-> Registered]
    BY <1>2, <1>4 DEF TakeMetas, IdleSnapshot
  <2>2. PICK new : new = snapshot'[r]
    OBVIOUS
  <2>3. /\ new.at = "take_stats" /\ new.metas = Len(methodMetas) /\ new.stats = 1
        /\ new.max = 0 /\ new.next = 0 /\ new.rows = {} /\ new.known = Registered
        /\ new \in SnapshotType
    BY <1>3, <2>1, <2>2 DEF SnapshotType
  <2>4. ReadSoFar(new)
    BY <1>3, <2>3, RegisteredHeld DEF ReadSoFar
  <2>. QED
    BY <2>2, <2>3, <2>4
<1>5. ASSUME TakeStats(r) PROVE snapshot'[r] \in SnapshotType /\ ReadSoFar(snapshot'[r])
  <2>1. /\ here.at = "take_stats"
        /\ snapshot'[r] = [here EXCEPT !.at = "take_max", !.stats = Len(methodStats)]
    BY <1>1, <1>2, <1>5 DEF TakeStats
  <2>2. PICK new : new = snapshot'[r]
    OBVIOUS
  <2>3. /\ new.at = "take_max" /\ new.metas = here.metas /\ new.stats = Len(methodStats)
        /\ new.max = here.max /\ new.next = here.next /\ new.rows = here.rows
        /\ new.known = here.known /\ new \in SnapshotType
    BY <1>2, <1>3, <2>1, <2>2 DEF SnapshotType
  <2>4. \A k \in here.known : /\ k \in Registered
                             /\ Holds(methodMetas[here.metas], methodIdsByKey[k], k)
                             /\ Holds(methodStats[Len(methodStats)], methodIdsByKey[k], k)
    BY <1>2, <1>3, RegisteredHeld DEF ReadSoFar
  <2>5. ReadSoFar(new)
    BY <1>2, <1>3, <2>1, <2>3, <2>4 DEF ReadSoFar
  <2>. QED
    BY <2>2, <2>3, <2>5
<1>6. ASSUME TakeMax(r) PROVE snapshot'[r] \in SnapshotType /\ ReadSoFar(snapshot'[r])
  <2>1. /\ here.at = "take_max"
        /\ snapshot'[r] = [here EXCEPT !.at = "rows", !.max = Limit(r)]
    BY <1>1, <1>2, <1>6 DEF TakeMax
  <2>2. PICK new : new = snapshot'[r]
    OBVIOUS
  <2>3. /\ Limit(r) \in Nat
        /\ Limit(r) <= Len(methodMetas[here.metas]) /\ Limit(r) <= Len(methodStats[here.stats])
        /\ \A id \in Nat : /\ id < nextMethodId
                           /\ id < Len(methodMetas[here.metas])
                           /\ id < Len(methodStats[here.stats])
                           => id < Limit(r)
    BY <1>1, LimitCovers
  <2>4. /\ new.at = "rows" /\ new.metas = here.metas /\ new.stats = here.stats
        /\ new.max = Limit(r) /\ new.next = here.next /\ new.rows = here.rows
        /\ new.known = here.known /\ new \in SnapshotType
    BY <1>2, <2>1, <2>2, <2>3 DEF SnapshotType
  <2>5. here.next = 0
    BY <1>1, <1>2, <2>1 DEF SnapInv, ReadSoFar
  <2>6. \A k \in here.known : methodIdsByKey[k] < Limit(r)
    <3>1. Len(methodMetas[here.metas]) \in Nat /\ Len(methodStats[here.stats]) \in Nat
      <4>1. /\ methodMetas \in Seq(Seq(Entries)) /\ methodStats \in Seq(Seq(Entries))
            /\ here.metas \in 1 .. Len(methodMetas) /\ here.stats \in 1 .. Len(methodStats)
        BY <1>2, <1>3 DEF IInv, TypeOK, Entries, ReadSoFar
      <4>2. /\ methodMetas[here.metas] \in Seq(Entries)
            /\ methodStats[here.stats] \in Seq(Entries)
        BY <4>1, ElementOfSeq
      <4>. QED
        BY <4>2, LenProperties
    <3>2. ASSUME NEW k \in here.known PROVE methodIdsByKey[k] < Limit(r)
      <4>1. /\ methodIdsByKey[k] \in Nat /\ methodIdsByKey[k] < nextMethodId
            /\ methodIdsByKey[k] + 1 <= Len(methodMetas[here.metas])
            /\ methodIdsByKey[k] + 1 <= Len(methodStats[here.stats])
        BY <1>2, <1>3, <2>1, RegisteredHeld DEF ReadSoFar, Holds, Slot
      <4>. QED
        BY <2>3, <3>1, <4>1
    <3>. QED
      BY <3>2
  <2>7. ReadSoFar(new)
    BY <1>2, <1>3, <2>1, <2>3, <2>4, <2>5, <2>6 DEF ReadSoFar
  <2>. QED
    BY <2>2, <2>4, <2>7
<1>7. ASSUME ReadRow(r) PROVE snapshot'[r] \in SnapshotType /\ ReadSoFar(snapshot'[r])
  <2> DEFINE meta == methodMetas[here.metas][Slot(here.next)]
             stat == methodStats[here.stats][Slot(here.next)]
             rows == IF Null \in {meta, stat} THEN here.rows ELSE here.rows \cup {<<meta, stat>>}
  <2>1. /\ here.at = "rows" /\ here.next < here.max
        /\ snapshot'[r] = [here EXCEPT !.next = @ + 1, !.rows = rows]
    BY <1>1, <1>2, <1>7 DEF ReadRow
  <2>2. PICK new : new = snapshot'[r]
    OBVIOUS
  <2>3. here.next \in Nat /\ here.max \in Nat /\ here.rows \subseteq Entries \X Entries
    BY <1>2 DEF SnapshotType
  <2>4. /\ meta \in Entries /\ stat \in Entries
        /\ Null \notin {meta, stat} => meta = stat
    BY <1>2, <2>1, <2>3, RowsPair
  <2>5. \A k \in here.known : methodIdsByKey[k] = here.next => meta = k /\ stat = k /\ k # Null
    BY <1>2, <1>3, <2>1, RegistryAssumption DEF ReadSoFar, Holds
  <2>. HIDE DEF meta, stat
  <2>6. /\ rows \subseteq Entries \X Entries /\ here.rows \subseteq rows
        /\ \A row \in rows : row \in here.rows \/ row[1] = row[2]
    BY <2>3, <2>4
  <2>7. \A k \in here.known : methodIdsByKey[k] = here.next => <<k, k>> \in rows
    BY <2>5
  <2>. HIDE DEF rows
  <2>8. /\ new.at = "rows" /\ new.metas = here.metas /\ new.stats = here.stats
        /\ new.max = here.max /\ new.next = here.next + 1 /\ new.rows = rows
        /\ new.known = here.known /\ new \in SnapshotType
    <3>1. here.next + 1 \in Nat /\ rows \in SUBSET (Entries \X Entries)
      BY <2>3, <2>6
    <3>. QED
      BY <1>2, <2>1, <2>2, <3>1 DEF SnapshotType
  <2>9. \A k \in here.known : methodIdsByKey[k] < here.next + 1 => <<k, k>> \in rows
    <3>1. \A k \in here.known : methodIdsByKey[k] \in Nat /\ (methodIdsByKey[k] < here.next => <<k, k>> \in rows)
      BY <1>2, <1>3, <2>1, <2>6 DEF ReadSoFar
    <3>. QED
      BY <2>3, <2>7, <3>1
  <2>10. ReadSoFar(new)
    BY <1>2, <2>1, <2>3, <2>6, <2>8, <2>9 DEF ReadSoFar
  <2>. QED
    BY <2>2, <2>8, <2>10
<1>8. ASSUME Reply(r) PROVE snapshot'[r] \in SnapshotType /\ ReadSoFar(snapshot'[r])
  <2>1. /\ here.at = "rows" /\ here.next = here.max
        /\ snapshot'[r] = [here EXCEPT !.at = "done"]
    BY <1>1, <1>2, <1>8 DEF Reply
  <2>2. PICK new : new = snapshot'[r]
    OBVIOUS
  <2>3. /\ new.at = "done" /\ new.metas = here.metas /\ new.stats = here.stats
        /\ new.max = here.max /\ new.next = here.next /\ new.rows = here.rows
        /\ new.known = here.known /\ new \in SnapshotType
    BY <1>2, <2>1, <2>2 DEF SnapshotType
  <2>4. ReadSoFar(new)
    BY <1>2, <2>1, <2>3 DEF ReadSoFar
  <2>. QED
    BY <2>2, <2>3, <2>4
<1>9. ASSUME Forget(r) PROVE snapshot'[r] \in SnapshotType /\ ReadSoFar(snapshot'[r])
  <2>1. snapshot'[r] = IdleSnapshot
    BY <1>2, <1>9 DEF Forget
  <2>. QED
    BY <1>3, <2>1 DEF IdleSnapshot, SnapshotType, ReadSoFar
<1>. QED
  BY <1>4, <1>5, <1>6, <1>7, <1>8, <1>9 DEF Snapshot

LEMMA StepKeepsSnapInv ==
  ASSUME SnapInv, [Next]_vars
  PROVE  SnapInv'
<1>1. IInv'
  BY StepKeepsIInv DEF SnapInv
<1>2. ASSUME UNCHANGED registry PROVE VersionsFilled'
  BY <1>2 DEF SnapInv, VersionsFilled, registry, Owned, Registered
<1>3. ASSUME NEW w \in Workers, Register(w) PROVE SnapInv'
  <2>1. VersionsFilled'
    BY <1>3, RegisterKeepsVersions DEF SnapInv
  <2>2. snapshot' = snapshot
    BY <1>3 DEF Register, Look, FindUnderLock, TakeId, GrowMetas, GrowStats, WriteMeta,
       WriteStats, WorkerStep, Publish
  <2>3. \A r \in Readers : ReadSoFar(snapshot[r])'
    BY <1>3, RegisterKeepsReader
  <2>. QED
    BY <1>1, <2>1, <2>2, <2>3 DEF SnapInv
<1>4. ASSUME NEW r \in Readers, Snapshot(r) PROVE SnapInv'
  <2>1. UNCHANGED registry /\ \E new : snapshot' = [snapshot EXCEPT ![r] = new]
    BY <1>4 DEF Snapshot, TakeMetas, TakeStats, TakeMax, ReadRow, Reply, Forget
  <2>2. snapshot'[r] \in SnapshotType /\ ReadSoFar(snapshot'[r])
    BY <1>4, ReaderStep
  <2>3. /\ snapshot' \in [Readers -> SnapshotType]
        /\ \A q \in Readers : q # r => snapshot'[q] = snapshot[q]
    BY <2>1, <2>2 DEF SnapInv
  <2>4. \A q \in Readers : ReadSoFar(snapshot'[q])
    BY <2>2, <2>3 DEF SnapInv
  <2>5. \A q \in Readers : ReadSoFar(snapshot[q])'
    BY <2>1, <2>4 DEF registry, ReadSoFar, Registered
  <2>. QED
    BY <1>1, <1>2, <2>1, <2>3, <2>5 DEF SnapInv
<1>5. CASE UNCHANGED vars
  <2>1. \A q \in Readers : ReadSoFar(snapshot[q])'
    BY <1>5 DEF SnapInv, vars, registry, ReadSoFar, Registered
  <2>. QED
    BY <1>1, <1>2, <1>5, <2>1 DEF SnapInv, vars
<1>. QED
  BY <1>3, <1>4, <1>5 DEF Next

LEMMA InitSnapInv == Init => SnapInv
<1>. SUFFICES ASSUME Init PROVE SnapInv
  OBVIOUS
<1>1. \A r \in Readers : snapshot[r] = IdleSnapshot
  BY DEF Init
<1>2. /\ snapshot \in [Readers -> SnapshotType]
      /\ Len(methodMetas) = 1 /\ Len(methodStats) = 1
  BY DEF Init, IdleSnapshot, SnapshotType
<1>3. \A r \in Readers : ReadSoFar(snapshot[r])
  BY <1>1, <1>2 DEF IdleSnapshot, ReadSoFar
<1>4. VersionsFilled
  <2>1. \A s \in 1 .. InitialLength : methodMetas[1][s] = Null /\ methodStats[1][s] = Null
    BY DEF Init
  <2>2. Len(methodMetas[1]) = InitialLength /\ Len(methodStats[1]) = InitialLength
    <3>1. InitialLength \in Nat /\ Null \in Entries
      BY RegistryAssumption DEF Entries
    <3>2. [s \in 1 .. InitialLength |-> Null] \in [1 .. InitialLength -> Entries]
      BY <3>1
    <3>3. Len([s \in 1 .. InitialLength |-> Null]) = InitialLength
      BY <3>1, <3>2, FunctionIsSeq
    <3>. QED
      BY <3>3 DEF Init
  <2>. QED
    BY <1>2, <2>1, <2>2 DEF VersionsFilled, FilledBy
<1>. QED
  BY <1>2, <1>3, <1>4, InitIInv DEF SnapInv

\* A reply pairs no method with another's statistics and misses none that was
\* registered before it was begun, however often the arrays are replaced
\* between the reads (Profiler.getMethodSnapshots 718-727).
THEOREM RegistrySnapshotsSound == Spec => []SnapshotsSound
<1>1. ASSUME SnapInv PROVE SnapshotsSound
  <2>. SUFFICES ASSUME NEW r \in Readers
                PROVE  /\ \A row \in snapshot[r].rows : row[1] = row[2]
                       /\ snapshot[r].at = "done" =>
                            \A k \in snapshot[r].known : <<k, k>> \in snapshot[r].rows
    BY DEF SnapshotsSound
  <2>1. ReadSoFar(snapshot[r])
    BY <1>1 DEF SnapInv
  <2>. QED
    BY <2>1 DEF ReadSoFar
<1>2. Init => SnapInv
  BY InitSnapInv
<1>3. SnapInv /\ [Next]_vars => SnapInv'
  BY StepKeepsSnapInv
<1>. QED
  BY <1>1, <1>2, <1>3, PTL DEF Spec

----------------------------------------------------------------------------
(* MethodRegistry implements RegistryPromise: Publish is the promised step,*)
(* and every other one stutters, the looks that find a method included,    *)
(* for what they return has been handed out before.  What hooks find is    *)
(* what was handed out, read backwards.                                    *)

ReadBackwards == Found = {<<x[2], x[1]>> : x \in handed}

LEMMA FoundIsHanded == IInv => ReadBackwards
<1>. SUFFICES ASSUME IInv PROVE ReadBackwards
  OBVIOUS
<1>1. \A x \in handed : /\ Last(methodMetas)[Slot(x[2])] = x[1]
                        /\ Last(methodStats)[Slot(x[2])] = x[1]
  BY DEF IInv, HandedAsPublished, EntriesFilled, Holds, Metas, Stats
<1>. QED
  BY <1>1 DEF Found, ReadBackwards

\* A step that hands out nothing and leaves the next id to promise stutters.
LEMMA SameIdsStutter ==
  ASSUME IInv, IInv', UNCHANGED <<methodIdsByKey, handed, NextPromised>>
  PROVE  UNCHANGED Promise!vars
<1>1. ReadBackwards /\ ReadBackwards'
  BY FoundIsHanded, PTL
<1>. QED
  BY <1>1 DEF ReadBackwards, Promise!vars

LEMMA PublishRegisters ==
  ASSUME IInv, IInv', NEW w \in Workers, Publish(w)
  PROVE  Promise!Next
<1> DEFINE key == worker[w].key
           id  == worker[w].id
<1>1. worker[w].at = "publish" /\ worker[w].at \in Critical
  BY DEF Publish, Critical
<1>2. /\ key \in Keys /\ key \notin DOMAIN methodIdsByKey
      /\ id \in Nat /\ id + 1 = nextMethodId
  BY <1>1, HolderFacts DEF Progress, Registered
<1>3. /\ handed' = handed \cup {<<key, id>>}
      /\ methodIdsByKey' = [k \in DOMAIN methodIdsByKey \cup {key} |->
                             IF k = key THEN id ELSE methodIdsByKey[k]]
  BY DEF Publish, Registered
<1>4. ReadBackwards /\ ReadBackwards'
  BY FoundIsHanded, PTL
<1>. HIDE DEF key, id
<1>5. Found' = Found \cup {<<id, key>>}
  <2>1. Found = {<<x[2], x[1]>> : x \in handed} /\ Found' = {<<x[2], x[1]>> : x \in handed'}
    BY <1>4 DEF ReadBackwards
  <2>2. <<key, id>>[1] = key /\ <<key, id>>[2] = id
    OBVIOUS
  <2>. QED
    BY <1>3, <2>1, <2>2
<1>6. NextPromised = id /\ NextPromised' = id + 1
  <2>1. lock = {w} /\ lock' = {} /\ nextMethodId' = nextMethodId
    BY <1>1 DEF Publish, IInv, TypeOK
  <2>. QED
    BY <1>2, <2>1 DEF NextPromised
<1>7. Promise!Register(key)
  BY <1>2, <1>3, <1>5, <1>6 DEF Promise!Register
<1>. QED
  BY <1>2, <1>7 DEF Promise!Next

----------------------------------------------------------------------------
(* Everything published has been handed out, so telling it again is        *)
(* nothing new.                                                            *)

Told == \A k \in Registered : <<k, methodIdsByKey[k]>> \in handed

LEMMA StepKeepsTold == IInv /\ Told /\ [Next]_vars => Told'
<1>. SUFFICES ASSUME IInv, Told, [Next]_vars PROVE Told'
  OBVIOUS
<1>1. ASSUME UNCHANGED methodIdsByKey, handed \subseteq handed' PROVE Told'
  BY <1>1 DEF Told, Registered
<1>2. ASSUME NEW w \in Workers, Register(w) PROVE Told'
  <2>1. CASE Publish(w)
    <3>1. /\ handed' = handed \cup {<<worker[w].key, worker[w].id>>}
          /\ Registered' = Registered \cup {worker[w].key}
          /\ \A k \in Registered' : methodIdsByKey'[k] =
               IF k = worker[w].key THEN worker[w].id ELSE methodIdsByKey[k]
      BY <2>1 DEF Publish, Registered
    <3>. QED
      BY <3>1 DEF Told
  <2>2. CASE ~Publish(w)
    <3>1. UNCHANGED methodIdsByKey /\ handed \subseteq handed'
      BY <1>2, <2>2 DEF Register, Look, FindUnderLock, TakeId, GrowMetas, GrowStats, WriteMeta,
         WriteStats, WorkerStep
    <3>. QED
      BY <1>1, <3>1
  <2>. QED
    BY <2>1, <2>2
<1>3. ASSUME UNCHANGED registry PROVE Told'
  BY <1>1, <1>3 DEF registry
<1>4. ASSUME NEW r \in Readers, Snapshot(r) PROVE Told'
  BY <1>3, <1>4 DEF Snapshot, TakeMetas, TakeStats, TakeMax, ReadRow, Reply, Forget
<1>. QED
  BY <1>2, <1>3, <1>4 DEF Next, vars

\* The id in work leaves the next promised id where it was.
LEMMA TakeIdPromisesNothing ==
  ASSUME IInv, NEW w \in Workers, TakeId(w)
  PROVE  UNCHANGED NextPromised
BY DEF TakeId, Free, NextPromised, IInv, TypeOK

LEMMA StepMaps ==
  ASSUME IInv, Told, IInv', [Next]_vars
  PROVE  [Promise!Next]_Promise!vars
<1>1. ASSUME UNCHANGED <<methodIdsByKey, handed, NextPromised>> PROVE UNCHANGED Promise!vars
  BY <1>1, SameIdsStutter
<1>2. ASSUME NEW w \in Workers, Register(w) PROVE [Promise!Next]_Promise!vars
  <2>1. CASE Publish(w)
    BY <2>1, PublishRegisters
  <2>2. CASE TakeId(w)
    <3>1. UNCHANGED <<methodIdsByKey, handed, NextPromised>>
      BY <2>2, TakeIdPromisesNothing DEF TakeId
    <3>. QED
      BY <1>1, <3>1
  <2>3. CASE ~Publish(w) /\ ~TakeId(w)
    <3>1. UNCHANGED <<methodIdsByKey, handed, nextMethodId, lock>>
      BY <1>2, <2>3 DEF Register, Look, FindUnderLock, Seen, GrowMetas, GrowStats,
         WriteMeta, WriteStats, WorkerStep, Told
    <3>. QED
      BY <1>1, <3>1 DEF NextPromised
  <2>. QED
    BY <2>1, <2>2, <2>3
<1>3. ASSUME UNCHANGED registry PROVE UNCHANGED Promise!vars
  BY <1>1, <1>3 DEF registry, NextPromised
<1>4. ASSUME NEW r \in Readers, Snapshot(r) PROVE UNCHANGED Promise!vars
  BY <1>3, <1>4 DEF Snapshot, TakeMetas, TakeStats, TakeMax, ReadRow, Reply, Forget
<1>. QED
  BY <1>2, <1>3, <1>4 DEF Next, vars

LEMMA InitMaps == Init => Promise!Init /\ Told
<1>. SUFFICES ASSUME Init PROVE Promise!Init /\ Told
  OBVIOUS
<1>1. /\ methodIdsByKey = [k \in {} |-> 0] /\ handed = {} /\ Registered = {}
      /\ NextPromised = 0
  BY DEF Init, Registered, NextPromised
<1>. QED
  BY <1>1 DEF Promise!Init, Told, Found

\* Every behaviour of the registry, with all its threads, is one of the
\* promise: registering a method is a single step that nobody sees halfway
\* (Profiler.registerMethod 397-435).
THEOREM RegistryKeepsPromise == Spec => KeepsPromise
<1>1. Init => IInv /\ Told
  BY InitIInv, InitMaps
<1>2. IInv /\ Told /\ [Next]_vars => (IInv /\ Told)'
  BY StepKeepsIInv, StepKeepsTold
<1>3. IInv /\ Told /\ IInv' /\ [Next]_vars => [Promise!Next]_Promise!vars
  BY StepMaps
<1>. QED
  BY <1>1, <1>2, <1>3, InitMaps, PTL DEF Spec, KeepsPromise, Promise!Spec
=============================================================================
