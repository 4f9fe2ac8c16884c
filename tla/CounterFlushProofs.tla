------------------------ MODULE CounterFlushProofs ------------------------
(***************************************************************************)
(* Theorems of CounterFlush: its types, and that it counts exactly where   *)
(* no race is.                                                             *)
(*                                                                         *)
(* The argument has two layers.  Places says where the arrays, hooks and   *)
(* flushers are, races or not.  Clean(m), for an id no race has touched,   *)
(* keeps its account: the shared statistics and the rest, what the current *)
(* arrays hold and no flusher has moved yet, add up to what was called     *)
(* (Accounted); during a reset, which breaks the account, each buffer the  *)
(* reset is done with holds what was called since (Restarted), so that the *)
(* last statistic cleared takes the account up again.  The rest of Clean   *)
(* is why each step does that: a flusher holds the current arrays          *)
(* (Current), a hook writes one more than is there (ReadStands), a zeroed  *)
(* duration stays zero (TimeZeroed), an id beyond the arrays has no calls  *)
(* (Untouched).                                                            *)
(***************************************************************************)
EXTENDS CounterFlush, DataFacts, SequenceTheorems

----------------------------------------------------------------------------
(* Sums over the threads.                                                  *)

(* The tallies of a thread are summed as functions are. *)
LEMMA SumOverTotal ==
  ASSUME NEW tally, NEW m
  PROVE  SumOver(tally, m) = Total([a \in Threads |-> tally[a][m]], Threads)
BY DEF SumOver, Total, SumsOf, Sums, Choice, MapThenSumSet, MapThenFoldSet

\* What the current array of a thread holds for id m.
Held(versions, a, m) ==
  IF m \in DOMAIN Newest(versions[a]) THEN Newest(versions[a])[m] ELSE 0

(* So is what their current arrays hold. *)
LEMMA BufferedTotal ==
  ASSUME NEW versions, NEW m
  PROVE  Buffered(versions, m) = Total([a \in Threads |-> Held(versions, a, m)], Threads)
BY ZenonT(40) DEF Buffered, Held, Total, SumsOf, Sums, Choice, MapThenSumSet, MapThenFoldSet

----------------------------------------------------------------------------
(* Doubling a length until it suffices.                                    *)

\* f doubles every length of the set lengths until it is required or more.
Doubles(f, lengths, required) ==
  f = [n \in lengths |-> IF n >= required THEN n ELSE f[2 * n]]

From(m) == {n \in Nat : n >= m}

(* Lengths that are k too short: a function that doubles them exists. *)
LEMMA DoublesFrom ==
  ASSUME NEW required \in Nat, NEW k \in Nat, k < required
  PROVE  \E f : Doubles(f, From(required - k), required)
<1> DEFINE Missing == {j \in Nat : j < required /\ ~ \E f : Doubles(f, From(required - j), required)}
<1> SUFFICES ASSUME Missing # {} PROVE FALSE
  OBVIOUS
<1>1. PICK j \in Missing : \A i \in Missing : j <= i
  <2>1. Missing \in SUBSET Nat
    OBVIOUS
  <2> QED BY <2>1, LeastElement
<1>2. CASE j = 0
  <2>1. PICK f : f = [n \in From(required) |-> n]
    OBVIOUS
  <2>2. \A n \in From(required) : n >= required
    BY DEF From
  <2>3. f = [n \in From(required) |-> IF n >= required THEN n ELSE f[2 * n]]
    BY <2>1, <2>2
  <2>4. required - 0 = required
    OBVIOUS
  <2> QED BY <1>1, <1>2, <2>3, <2>4 DEF Doubles
<1>3. CASE j # 0
  <2> DEFINE m == required - j
  <2>1. j - 1 \in Nat /\ j - 1 < required /\ required - (j - 1) = m + 1 /\ m \in Nat /\ m >= 1
    BY <1>1, <1>3
  <2>2. j - 1 \notin Missing
    BY <1>1, <2>1, Smaller
  <2>3. PICK f : Doubles(f, From(m + 1), required)
    BY <2>1, <2>2
  <2>4. f = [n \in From(m + 1) |-> IF n >= required THEN n ELSE f[2 * n]]
    BY <2>3 DEF Doubles
  <2>5. PICK g : g = [n \in From(m) |-> IF n >= required THEN n ELSE f[2 * n]]
    OBVIOUS
  <2> HIDE DEF m
  <2>6. \A n \in From(m + 1) : n \in From(m)
    BY <2>1 DEF From
  <2>7. \A n \in From(m + 1) : g[n] = f[n]
    BY <2>4, <2>5, <2>6
  <2>8. \A n \in From(m) : 2 * n \in From(m + 1)
    BY <2>1 DEF From
  <2>9. g = [n \in From(m) |-> IF n >= required THEN n ELSE g[2 * n]]
    BY <2>5, <2>7, <2>8
  <2>10. Doubles(g, From(m), required)
    BY <2>9 DEF Doubles
  <2> QED BY <1>1, <2>10 DEF m
<1> QED BY <1>2, <1>3

(* The function that doubles any length. *)
LEMMA DoublesExist ==
  ASSUME NEW required \in Nat \ {0}
  PROVE  \E f : Doubles(f, Nat \ {0}, required)
<1>1. required - 1 \in Nat /\ required - 1 < required /\ required - (required - 1) = 1
  OBVIOUS
<1>2. \E f : Doubles(f, From(1), required)
  BY <1>1, DoublesFrom
<1>3. From(1) = Nat \ {0}
  BY DEF From
<1> QED BY <1>2, <1>3

(* Doubled returns a length that is as long as the old one and as required. *)
LEMMA DoubledSuffices ==
  ASSUME NEW length \in Nat \ {0}, NEW required \in Nat \ {0}
  PROVE  /\ Doubled(length, required) \in Nat
         /\ Doubled(length, required) >= length
         /\ Doubled(length, required) >= required
<1> DEFINE D == CHOOSE f : f = [n \in Nat \ {0} |-> IF n >= required THEN n ELSE f[2 * n]]
<1>1. Doubled(length, required) = D[length]
  BY DEF Doubled
<1>2. D = [n \in Nat \ {0} |-> IF n >= required THEN n ELSE D[2 * n]]
  BY DoublesExist DEF Doubles
<1> HIDE DEF D
<1> DEFINE Good(n) == D[n] \in Nat /\ D[n] >= n /\ D[n] >= required
<1> DEFINE Wrong == {k \in Nat : \E n \in Nat \ {0} : n + k >= required /\ ~ Good(n)}
<1>3. Wrong = {}
  <2> SUFFICES ASSUME Wrong # {} PROVE FALSE
    OBVIOUS
  <2>1. PICK k \in Wrong : \A j \in Wrong : k <= j
    <3>1. Wrong \in SUBSET Nat
      OBVIOUS
    <3> QED BY <3>1, LeastElement
  <2>2. PICK n \in Nat \ {0} : n + k >= required /\ ~ Good(n)
    BY <2>1
  <2>3. ~ (n >= required)
    BY <1>2, <2>2
  <2>4. D[n] = D[2 * n]
    BY <1>2, <2>3
  <2>5. k \in Nat /\ k - 1 \in Nat
    BY <2>1, <2>2, <2>3
  <2>6. k - 1 \notin Wrong
    BY <2>1, <2>5, Smaller
  <2>7. 2 * n \in Nat \ {0} /\ 2 * n + (k - 1) >= required /\ 2 * n >= n
    BY <2>2, <2>5
  <2>8. Good(2 * n)
    BY <2>5, <2>6, <2>7
  <2>9. D[n] \in Nat /\ D[n] >= n /\ D[n] >= required
    BY <2>4, <2>7, <2>8
  <2> QED BY <2>2, <2>9
<1>4. required \in Nat /\ required \notin Wrong /\ length + required >= required
  BY <1>3
<1>5. Good(length)
  BY <1>4
<1> QED BY <1>1, <1>5

----------------------------------------------------------------------------
(* What the arrays of a thread and the places of hooks and flushers are.   *)

Array == UNION {[0 .. n - 1 -> Nat] : n \in Nat \ {0}}
Versions == Seq(Array) \ {<<>>}

Growing(versions) ==
  \A v, w \in DOMAIN versions : v <= w => DOMAIN versions[v] \subseteq DOMAIN versions[w]

Types ==
  /\ count \in [Threads -> Versions] /\ time \in [Threads -> Versions]
  /\ hook \in [Threads -> [at : HookPlaces, id : Ids, read : Nat]]
  /\ flusher \in [Flushers ->
       [at : FlusherPlaces, reset : BOOLEAN, todo : SUBSET Threads, thread : Threads \cup {{}},
        timeRef : Nat, countRef : Nat, id : Ids]]
  /\ sharedCount \in [Ids -> Nat] /\ sharedTime \in [Ids -> Nat]
  /\ called \in [Threads -> [Ids -> Nat]] /\ spent \in [Threads -> [Ids -> Nat]]
  /\ raced \subseteq Ids

\* Both arrays are replaced, one after the other, before the hook goes on.
ArraysOK(a) ==
  /\ Growing(count[a]) /\ Growing(time[a])
  /\ DOMAIN Newest(time[a]) =
       IF hook[a].at = "grow_count" THEN DOMAIN Grown(Newest(count[a]), hook[a].id)
       ELSE DOMAIN Newest(count[a])
  /\ hook[a].at \notin {"idle", "grow_time", "grow_count"} =>
       hook[a].id \in DOMAIN Newest(count[a])

\* The arrays a flusher holds are versions of its thread's, its id is in both.
FlusherOK(f) ==
  /\ flusher[f].at = "idle" => ~flusher[f].reset
  /\ flusher[f].at = "clear" => flusher[f].reset /\ flusher[f].todo = {}
  /\ flusher[f].at \notin {"idle", "next", "clear"} =>
       /\ flusher[f].thread \in Threads \ flusher[f].todo
       /\ flusher[f].timeRef \in DOMAIN time[flusher[f].thread]
       /\ flusher[f].at # "take_count" =>
            /\ flusher[f].countRef \in DOMAIN count[flusher[f].thread]
            /\ flusher[f].id \in DOMAIN time[flusher[f].thread][flusher[f].timeRef]
            /\ flusher[f].id \in DOMAIN count[flusher[f].thread][flusher[f].countRef]

Places ==
  /\ Types
  /\ \A a \in Threads : ArraysOK(a)
  /\ \A f \in Flushers : FlusherOK(f)

----------------------------------------------------------------------------
(* Where the calls of an id that no race has touched are.                  *)

OneReset == \A f, g \in Flushers : flusher[f].reset /\ flusher[g].reset => f = g

RacedSeen == \A m \in Ids : Meet(m) => m \in raced

\* A flusher that met no growth holds the current arrays.
Current(m) ==
  \A f \in Flushers, a \in Threads : HoldsArrays(f, a) =>
    /\ flusher[f].timeRef = Len(time[a])
    /\ flusher[f].at # "take_count" => flusher[f].countRef = Len(count[a])

\* What a hook has read is still there.
ReadStands(m) ==
  \A a \in Threads : hook[a].id = m =>
    /\ hook[a].at = "counting" => hook[a].read = Held(count, a, m)
    /\ hook[a].at = "timing" => hook[a].read = Held(time, a, m)

TimeZeroed(m) ==
  \A f \in Flushers, a \in Threads :
    MovingSlot(f, a, m) /\ flusher[f].at = "zero_count" => Held(time, a, m) = 0

\* An id the arrays are too short for was not called since they exist.
Untouched(m) ==
  \A a \in Threads : m \notin DOMAIN Newest(count[a]) =>
    called[a][m] = 0 /\ spent[a][m] = 0 /\ Held(time, a, m) = 0

\* Who is moving an element, and whose part of it is in the shared statistics.
Moves(r, a, m) ==
  /\ r.at \in {"add_time", "add_count", "zero_time", "zero_count"}
  /\ r.thread = a /\ r.id = m
CountMoved(F, a, m) ==
  \E f \in Flushers : Moves(F[f], a, m) /\ F[f].at \in {"zero_time", "zero_count"}
TimeMoved(F, a, m) ==
  \E f \in Flushers : Moves(F[f], a, m) /\ F[f].at \in {"add_count", "zero_time", "zero_count"}

\* What an array holds and the shared statistics do not yet.
RestCount(a, m) == IF CountMoved(flusher, a, m) THEN 0 ELSE Held(count, a, m)
RestTime(a, m) == IF TimeMoved(flusher, a, m) THEN 0 ELSE Held(time, a, m)

RestCounts(m) == [a \in Threads |-> RestCount(a, m)]
RestTimes(m) == [a \in Threads |-> RestTime(a, m)]
Calls(m) == [a \in Threads |-> called[a][m]]
Durations(m) == [a \in Threads |-> spent[a][m]]

\* Without a reset under way: shared and rest are what was called and spent.
Accounted(m) ==
  (\A f \in Flushers : ~flusher[f].reset) =>
    /\ sharedCount[m] + Total(RestCounts(m), Threads) = Total(Calls(m), Threads)
    /\ sharedTime[m] + Total(RestTimes(m), Threads) = Total(Durations(m), Threads)

\* The reset g has been through the buffer of thread a as far as id m.
Done(g, a, m) ==
  /\ a \notin flusher[g].todo
  /\ HoldsArrays(g, a) => flusher[g].at # "take_count" /\ m < flusher[g].id

\* During a reset: what is buffered again is what was called since.
Restarted(m) ==
  \A g \in Flushers : flusher[g].reset =>
    /\ \A a \in Threads : Done(g, a, m) =>
         called[a][m] = Held(count, a, m) /\ spent[a][m] = Held(time, a, m)
    /\ flusher[g].at = "clear" /\ m < flusher[g].id =>
         sharedCount[m] = 0 /\ sharedTime[m] = 0

Clean(m) ==
  /\ Current(m) /\ ReadStands(m) /\ TimeZeroed(m) /\ Untouched(m)
  /\ Accounted(m) /\ Restarted(m)

IInv ==
  /\ Places /\ OneReset /\ RacedSeen
  /\ \A m \in Ids \ raced : Clean(m)

----------------------------------------------------------------------------
(* Arrays and their versions.                                              *)

(* An array is indexed from zero and has an element. *)
LEMMA ArrayShape ==
  ASSUME NEW x \in Array
  PROVE  /\ Cardinality(DOMAIN x) \in Nat \ {0}
         /\ DOMAIN x = 0 .. Cardinality(DOMAIN x) - 1
         /\ 0 \in DOMAIN x
         /\ x \in [DOMAIN x -> Nat]
<1>1. PICK n \in Nat \ {0} : x \in [0 .. n - 1 -> Nat]
  BY DEF Array
<1>2. DOMAIN x = 0 .. n - 1
  BY <1>1
<1>3. Cardinality(0 .. n - 1) = n
  BY FS_Interval
<1> QED BY <1>1, <1>2, <1>3

(* The array that replaces a shorter one has its elements, then zeroes. *)
LEMMA GrownArray ==
  ASSUME NEW x \in Array, NEW id \in Nat
  PROVE  /\ Grown(x, id) \in Array
         /\ DOMAIN x \subseteq DOMAIN Grown(x, id)
         /\ id \in DOMAIN Grown(x, id)
         /\ \A i \in DOMAIN x : Grown(x, id)[i] = x[i]
         /\ \A i \in DOMAIN Grown(x, id) : i \notin DOMAIN x => Grown(x, id)[i] = 0
<1> DEFINE length == Cardinality(DOMAIN x)
           d == Doubled(length, id + 1)
<1>1. length \in Nat \ {0} /\ DOMAIN x = 0 .. length - 1 /\ x \in [0 .. length - 1 -> Nat]
  BY ArrayShape
<1>2. id + 1 \in Nat \ {0}
  OBVIOUS
<1>3. d \in Nat /\ d >= length /\ d >= id + 1
  BY <1>1, <1>2, DoubledSuffices
<1>4. Grown(x, id) = [i \in 0 .. d - 1 |-> IF i < length THEN x[i] ELSE 0]
  BY DEF Grown
<1> HIDE DEF d, length
<1>5. d \in Nat \ {0} /\ Grown(x, id) \in [0 .. d - 1 -> Nat]
  BY <1>1, <1>3, <1>4
<1>6. Grown(x, id) \in Array
  BY <1>5 DEF Array
<1>7. DOMAIN Grown(x, id) = 0 .. d - 1
  BY <1>4
<1>8. \A i \in 0 .. length - 1 : i \in 0 .. d - 1 /\ i < length
  BY <1>1, <1>3
<1>9. id \in 0 .. d - 1
  BY <1>3
<1>10. \A i \in DOMAIN x : Grown(x, id)[i] = x[i]
  BY <1>1, <1>4, <1>8
<1>11. \A i \in 0 .. d - 1 : i \notin DOMAIN x => ~ (i < length)
  BY <1>1
<1>12. \A i \in DOMAIN Grown(x, id) : i \notin DOMAIN x => Grown(x, id)[i] = 0
  BY <1>4, <1>7, <1>11
<1> QED BY <1>1, <1>6, <1>7, <1>8, <1>9, <1>10, <1>12

(* How long the replacement is depends on the length replaced only. *)
LEMMA GrownDomain ==
  ASSUME NEW x, NEW y, NEW id, DOMAIN x = DOMAIN y
  PROVE  DOMAIN Grown(x, id) = DOMAIN Grown(y, id)
BY DEF Grown

(* There is a last version; none before it is longer. *)
LEMMA LastVersion ==
  ASSUME NEW vs \in Versions
  PROVE  /\ Len(vs) \in Nat
         /\ DOMAIN vs = 1 .. Len(vs)
         /\ Len(vs) \in DOMAIN vs
         /\ \A v \in DOMAIN vs : vs[v] \in Array
         /\ Newest(vs) \in Array
         /\ Growing(vs) => \A v \in DOMAIN vs : DOMAIN vs[v] \subseteq DOMAIN Newest(vs)
<1>1. vs \in Seq(Array) /\ vs # <<>>
  BY DEF Versions
<1>2. Len(vs) \in Nat /\ DOMAIN vs = 1 .. Len(vs)
  BY <1>1
<1>3. Len(vs) # 0
  BY <1>1
<1>4. Len(vs) \in DOMAIN vs
  BY <1>2, <1>3
<1>5. \A v \in DOMAIN vs : vs[v] \in Array
  BY <1>1
<1>6. Newest(vs) \in Array
  BY <1>4, <1>5 DEF Newest
<1>7. Growing(vs) => \A v \in DOMAIN vs : DOMAIN vs[v] \subseteq DOMAIN Newest(vs)
  BY <1>2, <1>4 DEF Growing, Newest
<1> QED BY <1>2, <1>4, <1>5, <1>6, <1>7

SameShape(vs, ws) ==
  /\ Len(ws) = Len(vs) /\ DOMAIN ws = DOMAIN vs
  /\ DOMAIN Newest(ws) = DOMAIN Newest(vs)
  /\ \A v \in DOMAIN vs : DOMAIN ws[v] = DOMAIN vs[v]

Write(V, a, r, i, n) == [V EXCEPT ![a][r][i] = n]

(* A write to an element: every array keeps its length, every other element *)
(* its value.                                                               *)
LEMMA Written ==
  ASSUME NEW V \in [Threads -> Versions], NEW a \in Threads, NEW r \in DOMAIN V[a],
         NEW i \in DOMAIN V[a][r], NEW n \in Nat,
         NEW W, W = Write(V, a, r, i, n)
  PROVE  /\ W \in [Threads -> Versions]
         /\ \A b \in Threads : SameShape(V[b], W[b])
         /\ \A b \in Threads : Growing(V[b]) => Growing(W[b])
         /\ \A b \in Threads : b # a => W[b] = V[b]
         /\ \A m : Held(W, a, m) = IF r = Len(V[a]) /\ m = i THEN n ELSE Held(V, a, m)
<1> DEFINE vs == V[a]
           x == vs[r]
           y == [x EXCEPT ![i] = n]
           ws == [vs EXCEPT ![r] = y]
<1>1. vs \in Versions
  OBVIOUS
<1>2. vs \in Seq(Array) /\ Len(vs) \in Nat /\ DOMAIN vs = 1 .. Len(vs) /\ Len(vs) \in DOMAIN vs
  BY <1>1, LastVersion DEF Versions
<1>3. x \in Array
  BY <1>1, LastVersion
<1>4. y \in Array /\ DOMAIN y = DOMAIN x
  <2>1. x \in [0 .. Cardinality(DOMAIN x) - 1 -> Nat] /\ Cardinality(DOMAIN x) \in Nat \ {0}
    BY <1>3, ArrayShape
  <2>2. y \in [0 .. Cardinality(DOMAIN x) - 1 -> Nat]
    BY <2>1
  <2> QED BY <2>1, <2>2 DEF Array
<1>5. W[a] = ws /\ \A b \in Threads : b # a => W[b] = V[b]
  BY DEF Write
<1>6. DOMAIN W = Threads
  BY DEF Write
<1>7. W = [b \in Threads |-> W[b]]
  BY DEF Write
<1> HIDE DEF y
<1>8. ws \in Seq(Array)
  BY <1>2, <1>4
<1>9. Len(ws) = Len(vs) /\ DOMAIN ws = DOMAIN vs
  BY <1>2, <1>4
<1>10. ws[r] = y /\ \A v \in DOMAIN vs : v # r => ws[v] = vs[v]
  BY <1>2
<1>11. ws # <<>>
  BY <1>2, <1>9
<1>12. ws \in Versions
  BY <1>8, <1>11 DEF Versions
<1>13. y[i] = n /\ \A j \in DOMAIN x : j # i => y[j] = x[j]
  <2>1. x \in [DOMAIN x -> Nat]
    BY <1>3, ArrayShape
  <2> QED BY <2>1 DEF y
<1> HIDE DEF ws
<1>14. W \in [Threads -> Versions]
  BY <1>5, <1>7, <1>12
<1>15. \A v \in DOMAIN vs : DOMAIN ws[v] = DOMAIN vs[v]
  BY <1>4, <1>10
<1>16. SameShape(vs, ws)
  BY <1>2, <1>9, <1>15 DEF SameShape, Newest
<1>17. Growing(vs) => Growing(ws)
  BY <1>9, <1>15 DEF Growing
<1>18. \A b \in Threads : SameShape(V[b], W[b]) /\ (Growing(V[b]) => Growing(W[b]))
  <2> SUFFICES ASSUME NEW b \in Threads
               PROVE  SameShape(V[b], W[b]) /\ (Growing(V[b]) => Growing(W[b]))
    OBVIOUS
  <2>1. CASE b = a
    BY <2>1, <1>5, <1>16, <1>17
  <2>2. CASE b # a
    <3>1. W[b] = V[b]
      BY <2>2, <1>5
    <3> QED BY <3>1 DEF SameShape
  <2> QED BY <2>1, <2>2
<1>19. ASSUME NEW m
       PROVE  Held(W, a, m) = IF r = Len(V[a]) /\ m = i THEN n ELSE Held(V, a, m)
  <2>1. Newest(W[a]) = ws[Len(vs)] /\ Newest(V[a]) = vs[Len(vs)]
    BY <1>5, <1>9 DEF Newest
  <2>2. CASE r = Len(vs)
    BY <2>1, <2>2, <1>4, <1>10, <1>13 DEF Held
  <2>3. CASE r # Len(vs)
    BY <2>1, <2>3, <1>2, <1>10 DEF Held
  <2> QED BY <2>2, <2>3
<1> QED BY <1>5, <1>14, <1>18, <1>19

Longer(vs, id) == Append(vs, Grown(Newest(vs), id))
Extension(V, a, id) == [V EXCEPT ![a] = Longer(V[a], id)]

(* An array replaced: the versions before it stay, nothing held is lost. *)
LEMMA Extended ==
  ASSUME NEW V \in [Threads -> Versions], NEW a \in Threads, NEW id \in Nat,
         NEW W, W = Extension(V, a, id)
  PROVE  /\ W \in [Threads -> Versions]
         /\ \A b \in Threads : b # a => W[b] = V[b]
         /\ \A v \in DOMAIN V[a] : v \in DOMAIN W[a] /\ W[a][v] = V[a][v]
         /\ Newest(W[a]) = Grown(Newest(V[a]), id)
         /\ Growing(V[a]) => Growing(W[a])
         /\ \A m : Held(W, a, m) = Held(V, a, m)
<1> DEFINE vs == V[a]
           x == Grown(Newest(vs), id)
           ws == Append(vs, x)
<1>1. vs \in Seq(Array) /\ vs # <<>> /\ Len(vs) \in Nat /\ DOMAIN vs = 1 .. Len(vs)
      /\ Len(vs) \in DOMAIN vs /\ Newest(vs) \in Array
  BY LastVersion DEF Versions
<1>2. x \in Array /\ DOMAIN Newest(vs) \subseteq DOMAIN x
  BY <1>1, GrownArray
<1>3. W[a] = ws /\ \A b \in Threads : b # a => W[b] = V[b]
  BY DEF Longer, Extension
<1>4. W = [b \in Threads |-> W[b]]
  BY DEF Extension
<1> HIDE DEF x
<1>5. ws \in Seq(Array) /\ Len(ws) = Len(vs) + 1
  BY <1>1, <1>2
<1>6. ws[Len(vs) + 1] = x /\ \A v \in 1 .. Len(vs) : ws[v] = vs[v]
  BY <1>1, <1>2
<1>7. DOMAIN ws = 1 .. Len(vs) + 1
  BY <1>5
<1> HIDE DEF ws
<1>8. ws # <<>>
  BY <1>1, <1>5
<1>9. W \in [Threads -> Versions]
  BY <1>3, <1>4, <1>5, <1>8 DEF Versions
<1>10. Newest(ws) = x
  BY <1>5, <1>6 DEF Newest
<1>11. ASSUME Growing(vs) PROVE Growing(ws)
  <2>1. \A v \in 1 .. Len(vs) : DOMAIN vs[v] \subseteq DOMAIN Newest(vs)
    BY <1>1, <1>11, LastVersion
  <2> SUFFICES ASSUME NEW v \in 1 .. Len(vs) + 1, NEW w \in 1 .. Len(vs) + 1, v <= w
               PROVE  DOMAIN ws[v] \subseteq DOMAIN ws[w]
    BY <1>7 DEF Growing
  <2>2. CASE w \in 1 .. Len(vs)
    <3>1. v \in 1 .. Len(vs)
      BY <2>2, <1>1
    <3> QED BY <3>1, <2>2, <1>1, <1>6, <1>11 DEF Growing
  <2>3. CASE w = Len(vs) + 1 /\ v \in 1 .. Len(vs)
    <3>1. DOMAIN ws[v] \subseteq DOMAIN Newest(vs)
      BY <2>3, <2>1, <1>6
    <3> QED BY <3>1, <2>3, <1>2, <1>6
  <2>4. CASE w = Len(vs) + 1 /\ v = Len(vs) + 1
    BY <2>4
  <2> QED BY <2>2, <2>3, <2>4, <1>1
<1>12. \A v \in DOMAIN vs : v \in DOMAIN ws /\ ws[v] = vs[v]
  BY <1>1, <1>6, <1>7
<1>13. ASSUME NEW m PROVE Held(W, a, m) = Held(V, a, m)
  <2>1. Newest(W[a]) = x
    BY <1>3, <1>10
  <2>2. CASE m \in DOMAIN Newest(vs)
    <3>1. x[m] = Newest(vs)[m]
      BY <2>2, <1>1, GrownArray DEF x
    <3> QED BY <2>1, <2>2, <3>1, <1>2 DEF Held
  <2>3. CASE m \notin DOMAIN Newest(vs)
    <3>1. m \in DOMAIN x => x[m] = 0
      BY <2>3, <1>1, GrownArray DEF x
    <3> QED BY <2>1, <2>3, <3>1 DEF Held
  <2> QED BY <2>2, <2>3
<1> QED BY <1>3, <1>9, <1>10, <1>11, <1>12, <1>13 DEF x

----------------------------------------------------------------------------
(* Places is inductive: what the application threads do.                   *)

Evolves(vs, ws) == \A v \in DOMAIN vs : v \in DOMAIN ws /\ DOMAIN ws[v] = DOMAIN vs[v]

(* A flusher is not disturbed by writes and replacements of the arrays. *)
LEMMA FlusherStays ==
  ASSUME Types, NEW f \in Flushers, FlusherOK(f), flusher'[f] = flusher[f],
         \A b \in Threads : Evolves(count[b], count'[b]) /\ Evolves(time[b], time'[b])
  PROVE  FlusherOK(f)'
BY DEF FlusherOK, Evolves

(* Writes do not disturb what is said of lengths. *)
LEMMA ArraysStay ==
  ASSUME NEW b \in Threads, ArraysOK(b), hook'[b] = hook[b],
         SameShape(count[b], count'[b]), SameShape(time[b], time'[b]),
         Growing(count[b])', Growing(time[b])'
  PROVE  ArraysOK(b)'
<1>1. DOMAIN Newest(count'[b]) = DOMAIN Newest(count[b]) /\ DOMAIN Newest(time'[b]) = DOMAIN Newest(time[b])
  BY DEF SameShape
<1>2. DOMAIN Grown(Newest(count'[b]), hook[b].id) = DOMAIN Grown(Newest(count[b]), hook[b].id)
  BY <1>1, GrownDomain
<1> QED BY <1>1, <1>2 DEF ArraysOK

LEMMA SameEvolves ==
  ASSUME NEW vs, NEW ws, SameShape(vs, ws)
  PROVE  Evolves(vs, ws)
BY DEF SameShape, Evolves

LEMMA UnchangedShape ==
  ASSUME NEW vs
  PROVE  SameShape(vs, vs)
BY DEF SameShape

(* Where both families of arrays keep their shape and a thread is not in a *)
(* hook, everything stays in place.                                        *)
LEMMA PlacesWritten ==
  ASSUME Places, Types',
         \A b \in Threads : SameShape(count[b], count'[b]) /\ SameShape(time[b], time'[b]),
         \A b \in Threads : Growing(count[b])' /\ Growing(time[b])',
         \A b \in Threads : hook'[b] = hook[b] \/ ArraysOK(b)',
         \A f \in Flushers : flusher'[f] = flusher[f] \/ FlusherOK(f)'
  PROVE  Places'
<1>1. ASSUME NEW b \in Threads PROVE ArraysOK(b)'
  BY ArraysStay DEF Places
<1>2. \A b \in Threads : Evolves(count[b], count'[b]) /\ Evolves(time[b], time'[b])
  BY SameEvolves
<1>3. ASSUME NEW f \in Flushers PROVE FlusherOK(f)'
  BY <1>2, FlusherStays DEF Places
<1> QED BY <1>1, <1>3 DEF Places

(* Watching keeps a set of ids. *)
LEMMA WatchTyped ==
  ASSUME raced \subseteq Ids, Watch
  PROVE  raced' \subseteq Ids
BY DEF Watch

HookRec == [at : HookPlaces, id : Ids, read : Nat]

LEMMA IdsNat == Ids \subseteq Nat
BY DEF Ids

LEMMA EnterPlaces ==
  ASSUME Places, NEW a \in Threads, NEW m \in Ids, Enter(a, m), Watch
  PROVE  Places'
<1>1. Types'
  BY WatchTyped DEF Places, Types, Enter, shared, buffers, HookPlaces
<1>2. count' = count /\ time' = time /\ flusher' = flusher
  BY DEF Enter, buffers
<1>3. hook'[a].at \in {"entering", "grow_time"} /\ hook'[a].id = m
      /\ (hook'[a].at = "entering" => m \in DOMAIN Newest(count[a]))
      /\ \A b \in Threads : b # a => hook'[b] = hook[b]
  BY DEF Places, Types, Enter
<1>4. ArraysOK(a)'
  <2>1. ArraysOK(a) /\ hook[a].at = "idle"
    BY DEF Places, Enter
  <2> QED BY <2>1, <1>2, <1>3 DEF ArraysOK
<1>5. \A b \in Threads : SameShape(count[b], count'[b]) /\ SameShape(time[b], time'[b])
                         /\ Growing(count[b])' /\ Growing(time[b])'
  BY <1>2, UnchangedShape DEF Places, ArraysOK
<1> QED BY <1>1, <1>2, <1>3, <1>4, <1>5, PlacesWritten

LEMMA ReadPlaces ==
  ASSUME Places, NEW a \in Threads, ReadCount(a) \/ ReadTime(a), Watch
  PROVE  Places'
<1>1. count' = count /\ time' = time /\ flusher' = flusher
      /\ sharedCount' = sharedCount /\ sharedTime' = sharedTime
      /\ called' = called /\ spent' = spent
  BY DEF ReadCount, ReadTime, ReadThen, buffers, shared, tallies
<1>2. hook[a].id \in DOMAIN Newest(count[a]) /\ hook[a].id \in DOMAIN Newest(time[a])
      /\ Newest(count[a]) \in Array /\ Newest(time[a]) \in Array
  <2>1. ArraysOK(a) /\ hook[a].at \in {"entering", "running"}
    BY DEF Places, ReadCount, ReadTime, ReadThen
  <2>2. count[a] \in Versions /\ time[a] \in Versions
    BY DEF Places, Types
  <2> QED BY <2>1, <2>2, LastVersion DEF ArraysOK
<1>3. Newest(count[a])[hook[a].id] \in Nat /\ Newest(time[a])[hook[a].id] \in Nat
  BY <1>2, ArrayShape
<1>4. Types'
  <2>1. hook' \in [Threads -> HookRec]
    <3>1. PICK to \in {"counting", "timing"}, n \in Nat :
            hook' = [hook EXCEPT ![a].at = to, ![a].read = n]
      BY <1>3 DEF ReadCount, ReadTime, ReadThen
    <3>2. hook \in [Threads -> HookRec] /\ to \in HookPlaces
      BY DEF Places, Types, HookPlaces, HookRec
    <3> QED BY <3>1, <3>2 DEF HookRec
  <2> QED BY <2>1, <1>1, WatchTyped DEF Places, Types, HookRec
<1>5. hook'[a].at \in {"counting", "timing"} /\ hook'[a].id = hook[a].id
      /\ \A b \in Threads : b # a => hook'[b] = hook[b]
  BY DEF Places, Types, ReadCount, ReadTime, ReadThen
<1>6. ArraysOK(a)'
  <2>1. ArraysOK(a) /\ hook[a].at \in {"entering", "running"}
    BY DEF Places, ReadCount, ReadTime, ReadThen
  <2> QED BY <2>1, <1>1, <1>2, <1>5 DEF ArraysOK
<1>7. \A b \in Threads : SameShape(count[b], count'[b]) /\ SameShape(time[b], time'[b])
                         /\ Growing(count[b])' /\ Growing(time[b])'
  BY <1>1, UnchangedShape DEF Places, ArraysOK
<1> QED BY <1>1, <1>4, <1>5, <1>6, <1>7, PlacesWritten

LEMMA GrowTimePlaces ==
  ASSUME Places, NEW a \in Threads, GrowTime(a), Watch
  PROVE  Places'
<1>1. count' = count /\ flusher' = flusher /\ sharedCount' = sharedCount
      /\ sharedTime' = sharedTime /\ called' = called /\ spent' = spent
  BY DEF GrowTime, HookStep, shared, tallies
<1>2. hook'[a].at = "grow_count" /\ hook'[a].id = hook[a].id /\ hook[a].at = "grow_time"
      /\ \A b \in Threads : b # a => hook'[b] = hook[b]
  BY DEF Places, Types, GrowTime, HookStep
<1>3. hook[a].id \in Nat
  BY IdsNat DEF Places, Types
<1>4. /\ time' \in [Threads -> Versions]
      /\ \A b \in Threads : b # a => time'[b] = time[b]
      /\ \A v \in DOMAIN time[a] : v \in DOMAIN time'[a] /\ time'[a][v] = time[a][v]
      /\ Newest(time'[a]) = Grown(Newest(time[a]), hook[a].id)
      /\ Growing(time[a]) => Growing(time'[a])
  <2>1. time' = Extension(time, a, hook[a].id)
    BY DEF GrowTime, Longer, Extension
  <2>2. time \in [Threads -> Versions]
    BY DEF Places, Types
  <2> QED BY <2>1, <2>2, <1>3, Extended
<1>5. Types'
  <2>1. hook' \in [Threads -> HookRec]
    <3>1. hook' = [hook EXCEPT ![a].at = "grow_count"]
      BY DEF GrowTime, HookStep
    <3>2. hook \in [Threads -> HookRec] /\ "grow_count" \in HookPlaces
      BY DEF Places, Types, HookPlaces, HookRec
    <3> QED BY <3>1, <3>2 DEF HookRec
  <2> QED BY <2>1, <1>1, <1>4, WatchTyped DEF Places, Types, HookRec
<1>6. ASSUME NEW b \in Threads PROVE ArraysOK(b)'
  <2>1. ArraysOK(b)
    BY DEF Places
  <2>2. CASE b = a
    <3>1. DOMAIN Newest(time[a]) = DOMAIN Newest(count[a])
      BY <2>1, <2>2, <1>2 DEF ArraysOK
    <3>2. DOMAIN Newest(time'[a]) = DOMAIN Grown(Newest(count[a]), hook[a].id)
      BY <3>1, <1>4, GrownDomain
    <3> QED BY <2>1, <2>2, <3>2, <1>1, <1>2, <1>4 DEF ArraysOK
  <2>3. CASE b # a
    BY <2>1, <2>3, <1>1, <1>2, <1>4 DEF ArraysOK
  <2> QED BY <2>2, <2>3
<1>7. \A b \in Threads : Evolves(count[b], count'[b]) /\ Evolves(time[b], time'[b])
  BY <1>1, <1>4 DEF Evolves
<1>8. ASSUME NEW f \in Flushers PROVE FlusherOK(f)'
  BY <1>1, <1>7, FlusherStays DEF Places
<1> QED BY <1>5, <1>6, <1>8 DEF Places

LEMMA GrowCountPlaces ==
  ASSUME Places, NEW a \in Threads, GrowCount(a), Watch
  PROVE  Places'
<1>1. time' = time /\ flusher' = flusher /\ sharedCount' = sharedCount
      /\ sharedTime' = sharedTime /\ called' = called /\ spent' = spent
  BY DEF GrowCount, HookStep, shared, tallies
<1>2. hook'[a].at = "entering" /\ hook'[a].id = hook[a].id /\ hook[a].at = "grow_count"
      /\ \A b \in Threads : b # a => hook'[b] = hook[b]
  BY DEF Places, Types, GrowCount, HookStep
<1>3. hook[a].id \in Nat
  BY IdsNat DEF Places, Types
<1>4. /\ count' \in [Threads -> Versions]
      /\ \A b \in Threads : b # a => count'[b] = count[b]
      /\ \A v \in DOMAIN count[a] : v \in DOMAIN count'[a] /\ count'[a][v] = count[a][v]
      /\ Newest(count'[a]) = Grown(Newest(count[a]), hook[a].id)
      /\ Growing(count[a]) => Growing(count'[a])
  <2>1. count' = Extension(count, a, hook[a].id)
    BY DEF GrowCount, Longer, Extension
  <2>2. count \in [Threads -> Versions]
    BY DEF Places, Types
  <2> QED BY <2>1, <2>2, <1>3, Extended
<1>5. Types'
  <2>1. hook' \in [Threads -> HookRec]
    <3>1. hook' = [hook EXCEPT ![a].at = "entering"]
      BY DEF GrowCount, HookStep
    <3>2. hook \in [Threads -> HookRec] /\ "entering" \in HookPlaces
      BY DEF Places, Types, HookPlaces, HookRec
    <3> QED BY <3>1, <3>2 DEF HookRec
  <2> QED BY <2>1, <1>1, <1>4, WatchTyped DEF Places, Types, HookRec
<1>6. ASSUME NEW b \in Threads PROVE ArraysOK(b)'
  <2>1. ArraysOK(b)
    BY DEF Places
  <2>2. CASE b = a
    <3>1. Newest(count[a]) \in Array
      <4>1. count[a] \in Versions
        BY DEF Places, Types
      <4> QED BY <4>1, LastVersion
    <3>2. hook[a].id \in DOMAIN Newest(count'[a])
      BY <3>1, <1>3, <1>4, GrownArray
    <3>3. DOMAIN Newest(time[a]) = DOMAIN Newest(count'[a])
      BY <2>1, <2>2, <1>2, <1>4 DEF ArraysOK
    <3> QED BY <2>1, <2>2, <3>2, <3>3, <1>1, <1>2, <1>4 DEF ArraysOK
  <2>3. CASE b # a
    BY <2>1, <2>3, <1>1, <1>2, <1>4 DEF ArraysOK
  <2> QED BY <2>2, <2>3
<1>7. \A b \in Threads : Evolves(count[b], count'[b]) /\ Evolves(time[b], time'[b])
  BY <1>1, <1>4 DEF Evolves
<1>8. ASSUME NEW f \in Flushers PROVE FlusherOK(f)'
  BY <1>1, <1>7, FlusherStays DEF Places
<1> QED BY <1>5, <1>6, <1>8 DEF Places

(* A tally is a number per thread and id. *)
LEMMA TallyTyped ==
  ASSUME NEW T \in [Threads -> [Ids -> Nat]], NEW a \in Threads, NEW m \in Ids, NEW n \in Nat
  PROVE  /\ [T EXCEPT ![a][m] = n] \in [Threads -> [Ids -> Nat]]
         /\ [T EXCEPT ![a][m] = @ + 1] \in [Threads -> [Ids -> Nat]]
OBVIOUS

LEMMA WriteCountPlaces ==
  ASSUME Places, NEW a \in Threads, WriteCount(a), Watch
  PROVE  /\ Places'
         /\ \A b \in Threads : b # a => count'[b] = count[b]
         /\ \A m : Held(count', a, m) =
                     IF m = hook[a].id THEN hook[a].read + 1 ELSE Held(count, a, m)
         /\ \A b \in Threads : Len(count'[b]) = Len(count[b])
         /\ \A b \in Threads : DOMAIN Newest(count'[b]) = DOMAIN Newest(count[b])
<1>1. time' = time /\ flusher' = flusher /\ sharedCount' = sharedCount
      /\ sharedTime' = sharedTime /\ spent' = spent
  BY DEF WriteCount, HookStep, shared
<1>2. hook[a].id \in Ids /\ hook[a].read + 1 \in Nat
  BY DEF Places, Types
<1>3. Len(count[a]) \in DOMAIN count[a] /\ hook[a].id \in DOMAIN count[a][Len(count[a])]
  <2>1. ArraysOK(a) /\ hook[a].at = "counting" /\ count[a] \in Versions
    BY DEF Places, Types, WriteCount, HookStep
  <2> QED BY <2>1, LastVersion DEF ArraysOK, Newest
<1>4. /\ count' \in [Threads -> Versions]
      /\ \A b \in Threads : SameShape(count[b], count'[b])
      /\ \A b \in Threads : Growing(count[b]) => Growing(count'[b])
      /\ \A b \in Threads : b # a => count'[b] = count[b]
      /\ \A m : Held(count', a, m) = IF Len(count[a]) = Len(count[a]) /\ m = hook[a].id
                                     THEN hook[a].read + 1 ELSE Held(count, a, m)
  <2>1. count' = Write(count, a, Len(count[a]), hook[a].id, hook[a].read + 1)
    BY DEF WriteCount, Write
  <2>2. count \in [Threads -> Versions]
    BY DEF Places, Types
  <2> QED BY <2>1, <2>2, <1>2, <1>3, Written
<1>5. Types'
  <2>1. hook' \in [Threads -> HookRec]
    <3>1. hook' = [hook EXCEPT ![a].at = "running"]
      BY DEF WriteCount, HookStep
    <3>2. hook \in [Threads -> HookRec] /\ "running" \in HookPlaces
      BY DEF Places, Types, HookPlaces, HookRec
    <3> QED BY <3>1, <3>2 DEF HookRec
  <2>2. called' \in [Threads -> [Ids -> Nat]]
    BY <1>2, TallyTyped DEF Places, Types, WriteCount
  <2> QED BY <2>1, <2>2, <1>1, <1>4, WatchTyped DEF Places, Types, HookRec
<1>6. hook'[a].at = "running" /\ hook'[a].id = hook[a].id
      /\ \A b \in Threads : b # a => hook'[b] = hook[b]
  BY DEF Places, Types, WriteCount, HookStep
<1>7. ArraysOK(a)'
  <2>1. ArraysOK(a) /\ hook[a].at = "counting"
    BY DEF Places, WriteCount, HookStep
  <2> QED BY <2>1, <1>1, <1>4, <1>6 DEF ArraysOK, SameShape
<1>8. \A b \in Threads : SameShape(count[b], count'[b]) /\ SameShape(time[b], time'[b])
                         /\ Growing(count[b])' /\ Growing(time[b])'
  BY <1>1, <1>4, UnchangedShape DEF Places, ArraysOK
<1>9. Places'
  BY <1>1, <1>5, <1>6, <1>7, <1>8, PlacesWritten
<1> QED BY <1>4, <1>9 DEF SameShape

LEMMA WriteTimePlaces ==
  ASSUME Places, NEW a \in Threads, WriteTime(a), Watch
  PROVE  /\ Places'
         /\ \A b \in Threads : b # a => time'[b] = time[b]
         /\ \A m : Held(time', a, m) =
                     IF m = hook[a].id THEN hook[a].read + 1 ELSE Held(time, a, m)
         /\ \A b \in Threads : Len(time'[b]) = Len(time[b])
<1>1. count' = count /\ flusher' = flusher /\ sharedCount' = sharedCount
      /\ sharedTime' = sharedTime /\ called' = called
  BY DEF WriteTime, shared
<1>2. hook[a].id \in Ids /\ hook[a].read + 1 \in Nat
  BY DEF Places, Types
<1>3. Len(time[a]) \in DOMAIN time[a] /\ hook[a].id \in DOMAIN time[a][Len(time[a])]
  <2>1. ArraysOK(a) /\ hook[a].at = "timing" /\ time[a] \in Versions
    BY DEF Places, Types, WriteTime
  <2> QED BY <2>1, LastVersion DEF ArraysOK, Newest
<1>4. /\ time' \in [Threads -> Versions]
      /\ \A b \in Threads : SameShape(time[b], time'[b])
      /\ \A b \in Threads : Growing(time[b]) => Growing(time'[b])
      /\ \A b \in Threads : b # a => time'[b] = time[b]
      /\ \A m : Held(time', a, m) = IF Len(time[a]) = Len(time[a]) /\ m = hook[a].id
                                    THEN hook[a].read + 1 ELSE Held(time, a, m)
  <2>1. time' = Write(time, a, Len(time[a]), hook[a].id, hook[a].read + 1)
    BY DEF WriteTime, Write
  <2>2. time \in [Threads -> Versions]
    BY DEF Places, Types
  <2> QED BY <2>1, <2>2, <1>2, <1>3, Written
<1>5. Types'
  <2>1. hook' \in [Threads -> HookRec]
    <3>1. hook' = [hook EXCEPT ![a] = IdleHook]
      BY DEF WriteTime
    <3>2. hook \in [Threads -> HookRec] /\ IdleHook \in HookRec
      BY FlushAssumption DEF Places, Types, HookPlaces, HookRec, IdleHook, Ids
    <3> QED BY <3>1, <3>2
  <2>2. spent' \in [Threads -> [Ids -> Nat]]
    BY <1>2, TallyTyped DEF Places, Types, WriteTime
  <2> QED BY <2>1, <2>2, <1>1, <1>4, WatchTyped DEF Places, Types, HookRec
<1>6. hook'[a].at = "idle" /\ \A b \in Threads : b # a => hook'[b] = hook[b]
  BY DEF Places, Types, WriteTime, IdleHook
<1>7. ArraysOK(a)'
  <2>1. ArraysOK(a) /\ hook[a].at = "timing"
    BY DEF Places, WriteTime
  <2> QED BY <2>1, <1>1, <1>4, <1>6 DEF ArraysOK, SameShape
<1>8. \A b \in Threads : SameShape(count[b], count'[b]) /\ SameShape(time[b], time'[b])
                         /\ Growing(count[b])' /\ Growing(time[b])'
  BY <1>1, <1>4, UnchangedShape DEF Places, ArraysOK
<1>9. Places'
  BY <1>1, <1>5, <1>6, <1>7, <1>8, PlacesWritten
<1> QED BY <1>4, <1>9 DEF SameShape

----------------------------------------------------------------------------
(* Places is inductive: what the agent threads do.                         *)

FlusherRec ==
  [at : FlusherPlaces, reset : BOOLEAN, todo : SUBSET Threads, thread : Threads \cup {{}},
   timeRef : Nat, countRef : Nat, id : Ids]

(* The smallest of three numbers is none of them or less. *)
LEMMA MinOfThree ==
  ASSUME NEW x \in Nat, NEW y \in Nat, NEW z \in Nat
  PROVE  Min({x, y, z}) <= x /\ Min({x, y, z}) <= y /\ Min({x, y, z}) <= z
         /\ Min({x, y, z}) \in {x, y, z}
<1>1. \E n \in {x, y, z} : \A k \in {x, y, z} : n =< k
  <2>1. CASE x =< y /\ x =< z
    BY <2>1
  <2>2. CASE y =< x /\ y =< z
    BY <2>2
  <2>3. CASE z =< x /\ z =< y
    BY <2>3
  <2> QED BY <2>1, <2>2, <2>3
<1> QED BY <1>1 DEF Min

(* What a flusher that looks at an element holds. *)
LEMMA AtElement ==
  ASSUME Places, NEW f \in Flushers,
         flusher[f].at \in {"check", "add_time", "add_count", "zero_time", "zero_count"}
  PROVE  LET here == flusher[f]
             a    == flusher[f].thread
         IN  /\ here \in FlusherRec
             /\ a \in Threads /\ a \notin here.todo /\ here.id \in Ids
             /\ count[a] \in Versions /\ time[a] \in Versions
             /\ here.timeRef \in DOMAIN time[a] /\ here.countRef \in DOMAIN count[a]
             /\ here.id \in DOMAIN time[a][here.timeRef]
             /\ here.id \in DOMAIN count[a][here.countRef]
             /\ time[a][here.timeRef][here.id] \in Nat
             /\ count[a][here.countRef][here.id] \in Nat
             /\ here.id \in DOMAIN Newest(time[a]) /\ here.id \in DOMAIN Newest(count[a])
             /\ Newest(time[a])[here.id] \in Nat
<1> DEFINE here == flusher[f]
           a    == flusher[f].thread
<1>1. here \in FlusherRec /\ here.id \in Ids
  BY DEF Places, Types, FlusherRec
<1>2. /\ a \in Threads /\ a \notin here.todo
      /\ here.timeRef \in DOMAIN time[a] /\ here.countRef \in DOMAIN count[a]
      /\ here.id \in DOMAIN time[a][here.timeRef]
      /\ here.id \in DOMAIN count[a][here.countRef]
  BY DEF Places, FlusherOK
<1>3. count[a] \in Versions /\ time[a] \in Versions /\ Growing(count[a]) /\ Growing(time[a])
  BY <1>2 DEF Places, Types, ArraysOK
<1>4. time[a][here.timeRef] \in Array /\ count[a][here.countRef] \in Array
  BY <1>2, <1>3, LastVersion
<1>5. time[a][here.timeRef][here.id] \in Nat /\ count[a][here.countRef][here.id] \in Nat
  BY <1>2, <1>4, ArrayShape
<1>6. here.id \in DOMAIN Newest(time[a]) /\ here.id \in DOMAIN Newest(count[a])
  BY <1>2, <1>3, LastVersion
<1>7. Newest(time[a])[here.id] \in Nat
  <2>1. Newest(time[a]) \in Array
    BY <1>3, LastVersion
  <2> QED BY <2>1, <1>6, ArrayShape
<1> QED BY <1>1, <1>2, <1>3, <1>5, <1>6, <1>7

(* The next element is one of both arrays; past the last, of neither or of *)
(* one only.                                                               *)
LEMMA NextIdStep ==
  ASSUME Places, NEW f \in Flushers, flusher[f].at \in {"check", "zero_count"}, NextId(f)
  PROVE  LET here == flusher[f]
             a    == flusher[f].thread
         IN  /\ flusher' \in [Flushers -> FlusherRec]
             /\ \A g \in Flushers : g # f => flusher'[g] = flusher[g]
             /\ flusher'[f].at \in {"check", "next"}
             /\ flusher'[f].reset = here.reset /\ flusher'[f].todo = here.todo
             /\ flusher'[f].thread = here.thread
             /\ flusher'[f].timeRef = here.timeRef /\ flusher'[f].countRef = here.countRef
             /\ flusher'[f].at = "check" =>
                  /\ flusher'[f].id = here.id + 1
                  /\ here.id + 1 \in DOMAIN time[a][here.timeRef]
                  /\ here.id + 1 \in DOMAIN count[a][here.countRef]
             /\ flusher'[f].at = "next" => \A m \in Ids : m > here.id =>
                  m \notin DOMAIN time[a][here.timeRef] \/ m \notin DOMAIN count[a][here.countRef]
<1> DEFINE here == flusher[f]
           a    == flusher[f].thread
           t    == time[a][here.timeRef]
           c    == count[a][here.countRef]
<1>1. here \in FlusherRec /\ a \in Threads /\ here.id \in Ids /\ here.id \in Nat
  BY AtElement, IdsNat
<1>2. t \in Array /\ c \in Array
  BY AtElement, LastVersion
<1>3. /\ Cardinality(DOMAIN t) \in Nat /\ Cardinality(DOMAIN c) \in Nat
      /\ DOMAIN t = 0 .. Cardinality(DOMAIN t) - 1
      /\ DOMAIN c = 0 .. Cardinality(DOMAIN c) - 1
  BY <1>2, ArrayShape
<1>4. MethodCount \in Nat
  BY FlushAssumption
<1>5. ScanLength(f) = Min({Cardinality(DOMAIN t), Cardinality(DOMAIN c), MethodCount})
  BY DEF ScanLength
<1>6. flusher \in [Flushers -> FlusherRec]
  BY DEF Places, Types, FlusherRec
<1> HIDE DEF t, c
<1>7. CASE here.id + 1 < ScanLength(f)
  <2>1. flusher' = [flusher EXCEPT ![f].at = "check", ![f].id = here.id + 1]
    BY <1>7 DEF NextId
  <2>2. here.id + 1 < Cardinality(DOMAIN t) /\ here.id + 1 < Cardinality(DOMAIN c)
        /\ here.id + 1 < MethodCount
    <3>1. /\ ScanLength(f) <= Cardinality(DOMAIN t) /\ ScanLength(f) <= Cardinality(DOMAIN c)
          /\ ScanLength(f) <= MethodCount
      BY <1>3, <1>4, <1>5, MinOfThree
    <3>2. ScanLength(f) \in {Cardinality(DOMAIN t), Cardinality(DOMAIN c), MethodCount}
      BY <1>3, <1>4, <1>5, MinOfThree
    <3>3. ScanLength(f) \in Nat
      BY <3>2, <1>3, <1>4
    <3> QED BY <3>1, <3>3, <1>1, <1>3, <1>4, <1>7
  <2>3. here.id + 1 \in Ids /\ "check" \in FlusherPlaces
    BY <1>1, <1>4, <2>2 DEF Ids, FlusherPlaces
  <2>4. here.id + 1 \in DOMAIN t /\ here.id + 1 \in DOMAIN c
    BY <1>1, <1>3, <2>2
  <2>5. flusher' \in [Flushers -> FlusherRec]
    BY <2>1, <2>3, <1>6, ZenonT(40) DEF FlusherRec
  <2>6. /\ \A g \in Flushers : g # f => flusher'[g] = flusher[g]
        /\ flusher'[f].at = "check" /\ flusher'[f].id = here.id + 1
        /\ flusher'[f].reset = here.reset /\ flusher'[f].todo = here.todo
        /\ flusher'[f].thread = here.thread
        /\ flusher'[f].timeRef = here.timeRef /\ flusher'[f].countRef = here.countRef
    BY <2>1, <1>6 DEF FlusherRec
  <2> QED BY <2>4, <2>5, <2>6 DEF t, c
<1>8. CASE ~ (here.id + 1 < ScanLength(f))
  <2>1. flusher' = [flusher EXCEPT ![f].at = "next"]
    BY <1>8 DEF NextId
  <2>2. "next" \in FlusherPlaces
    BY DEF FlusherPlaces
  <2>3. flusher' \in [Flushers -> FlusherRec]
    BY <2>1, <2>2, <1>6 DEF FlusherRec
  <2>4. /\ \A g \in Flushers : g # f => flusher'[g] = flusher[g]
        /\ flusher'[f].at = "next"
        /\ flusher'[f].reset = here.reset /\ flusher'[f].todo = here.todo
        /\ flusher'[f].thread = here.thread
        /\ flusher'[f].timeRef = here.timeRef /\ flusher'[f].countRef = here.countRef
    BY <2>1, <1>6 DEF FlusherRec
  <2>5. ASSUME NEW m \in Ids, m > here.id, m \in DOMAIN t, m \in DOMAIN c PROVE FALSE
    <3>1. m \in Nat /\ m < MethodCount
      BY <1>4 DEF Ids
    <3>2. m < Cardinality(DOMAIN t) /\ m < Cardinality(DOMAIN c)
      BY <2>5, <1>3
    <3>3. ScanLength(f) \in {Cardinality(DOMAIN t), Cardinality(DOMAIN c), MethodCount}
      BY <1>3, <1>4, <1>5, MinOfThree
    <3>4. m < ScanLength(f) /\ ScanLength(f) \in Nat
      BY <3>1, <3>2, <3>3, <1>3, <1>4
    <3> QED BY <2>5, <3>1, <3>4, <1>1, <1>8
  <2> QED BY <2>3, <2>4, <2>5 DEF t, c
<1> QED BY <1>7, <1>8

(* A flusher that only moves leaves everything in place. *)
LEMMA PlacesMoved ==
  ASSUME Places, NEW f \in Flushers, flusher' \in [Flushers -> FlusherRec],
         \A g \in Flushers : g # f => flusher'[g] = flusher[g], FlusherOK(f)',
         UNCHANGED <<buffers, hook>>, sharedCount' \in [Ids -> Nat], sharedTime' \in [Ids -> Nat],
         called' \in [Threads -> [Ids -> Nat]], spent' \in [Threads -> [Ids -> Nat]], Watch
  PROVE  Places'
<1>1. count' = count /\ time' = time /\ hook' = hook
  BY DEF buffers
<1>2. Types'
  BY <1>1, WatchTyped DEF Places, Types, FlusherRec
<1>3. \A b \in Threads : SameShape(count[b], count'[b]) /\ SameShape(time[b], time'[b])
                         /\ Growing(count[b])' /\ Growing(time[b])'
  BY <1>1, UnchangedShape DEF Places, ArraysOK
<1> QED BY <1>1, <1>2, <1>3, PlacesWritten

(* Retally leaves tallies of the type they had. *)
LEMMA RetallyTyped ==
  ASSUME Types, NEW f \in Flushers, flusher[f].thread \in Threads,
         NEW n \in Nat, Retally(f, 0, n)
  PROVE  called' \in [Threads -> [Ids -> Nat]] /\ spent' \in [Threads -> [Ids -> Nat]]
<1>1. flusher[f].id \in Ids /\ 0 \in Nat
  BY DEF Types
<1>2. CASE flusher[f].reset
  <2>1. called' = [called EXCEPT ![flusher[f].thread][flusher[f].id] = 0]
        /\ spent' = [spent EXCEPT ![flusher[f].thread][flusher[f].id] = n]
    BY <1>2 DEF Retally
  <2> QED BY <2>1, <1>1, TallyTyped DEF Types
<1>3. CASE ~flusher[f].reset
  BY <1>3 DEF Types, Retally, tallies
<1> QED BY <1>2, <1>3

LEMMA BeginFlushPlaces ==
  ASSUME Places, NEW f \in Flushers, NEW reset \in BOOLEAN, BeginFlush(f, reset), Watch
  PROVE  /\ Places'
         /\ \A g \in Flushers : g # f => flusher'[g] = flusher[g]
         /\ flusher'[f].at = "next" /\ flusher'[f].reset = reset /\ flusher'[f].todo = Threads
<1> DEFINE r == [IdleFlusher EXCEPT !.at = "next", !.reset = reset, !.todo = Threads]
<1>1. r \in FlusherRec /\ r.at = "next" /\ r.reset = reset /\ r.todo = Threads
  <2>1. PICK idle : idle = IdleFlusher
    OBVIOUS
  <2>2. 0 \in Ids /\ 0 \in Nat /\ Threads \in SUBSET Threads /\ {} \in Threads \cup {{}}
    BY FlushAssumption DEF Ids
  <2>3. "next" \in FlusherPlaces /\ "idle" \in FlusherPlaces
    BY DEF FlusherPlaces
  <2>4. idle \in FlusherRec
    BY <2>1, <2>2, <2>3 DEF FlusherRec, IdleFlusher
  <2>5. r = [idle EXCEPT !.at = "next", !.reset = reset, !.todo = Threads]
    BY <2>1
  <2> QED BY <2>2, <2>3, <2>4, <2>5 DEF FlusherRec
<1>2. flusher' = [flusher EXCEPT ![f] = r] /\ flusher \in [Flushers -> FlusherRec]
  BY DEF BeginFlush, Places, Types, FlusherRec
<1> HIDE DEF r
<1>3. /\ flusher' \in [Flushers -> FlusherRec] /\ flusher'[f] = r
      /\ \A g \in Flushers : g # f => flusher'[g] = flusher[g]
  BY <1>1, <1>2
<1>4. FlusherOK(f)'
  BY <1>1, <1>3 DEF FlusherOK
<1>5. /\ UNCHANGED <<buffers, hook>> /\ sharedCount' \in [Ids -> Nat] /\ sharedTime' \in [Ids -> Nat]
      /\ called' \in [Threads -> [Ids -> Nat]] /\ spent' \in [Threads -> [Ids -> Nat]]
  BY DEF BeginFlush, shared, tallies, Places, Types
<1> QED BY <1>1, <1>3, <1>4, <1>5, PlacesMoved

LEMMA TakeTimeRefPlaces ==
  ASSUME Places, NEW f \in Flushers, NEW a \in flusher[f].todo, flusher[f].at = "next",
         flusher' = [flusher EXCEPT ![f].at = "take_count", ![f].thread = a,
                                    ![f].todo = @ \ {a}, ![f].timeRef = Len(time[a])],
         UNCHANGED <<buffers, hook, shared, tallies>>, Watch
  PROVE  /\ Places' /\ a \in Threads
         /\ \A g \in Flushers : g # f => flusher'[g] = flusher[g]
         /\ flusher'[f].at = "take_count" /\ flusher'[f].reset = flusher[f].reset
         /\ flusher'[f].todo = flusher[f].todo \ {a} /\ flusher'[f].thread = a
         /\ flusher'[f].timeRef = Len(time[a])
<1>1. flusher \in [Flushers -> FlusherRec] /\ a \in Threads
  BY DEF Places, Types, FlusherRec
<1>2. Len(time[a]) \in Nat /\ Len(time[a]) \in DOMAIN time[a]
  <2>1. time[a] \in Versions
    BY <1>1 DEF Places, Types
  <2> QED BY <2>1, LastVersion
<1>3. "take_count" \in FlusherPlaces
  BY DEF FlusherPlaces
<1>4. flusher' \in [Flushers -> FlusherRec]
  BY <1>1, <1>2, <1>3 DEF FlusherRec
<1>5. /\ \A g \in Flushers : g # f => flusher'[g] = flusher[g]
      /\ flusher'[f].at = "take_count" /\ flusher'[f].reset = flusher[f].reset
      /\ flusher'[f].todo = flusher[f].todo \ {a} /\ flusher'[f].thread = a
      /\ flusher'[f].timeRef = Len(time[a])
  BY <1>1 DEF FlusherRec
<1>6. time' = time
  BY DEF buffers
<1>7. FlusherOK(f)'
  BY <1>1, <1>2, <1>5, <1>6 DEF FlusherOK
<1>8. /\ UNCHANGED <<buffers, hook>> /\ sharedCount' \in [Ids -> Nat] /\ sharedTime' \in [Ids -> Nat]
      /\ called' \in [Threads -> [Ids -> Nat]] /\ spent' \in [Threads -> [Ids -> Nat]]
  BY DEF shared, tallies, Places, Types
<1> QED BY <1>1, <1>4, <1>5, <1>7, <1>8, PlacesMoved

LEMMA TakeCountRefPlaces ==
  ASSUME Places, NEW f \in Flushers, TakeCountRef(f), Watch
  PROVE  /\ Places' /\ flusher[f].thread \in Threads
         /\ \A g \in Flushers : g # f => flusher'[g] = flusher[g]
         /\ flusher'[f].at = "check" /\ flusher'[f].reset = flusher[f].reset
         /\ flusher'[f].todo = flusher[f].todo /\ flusher'[f].thread = flusher[f].thread
         /\ flusher'[f].timeRef = flusher[f].timeRef /\ flusher'[f].id = 0
         /\ flusher'[f].countRef = Len(count[flusher[f].thread])
<1> DEFINE a == flusher[f].thread
<1>1. flusher \in [Flushers -> FlusherRec]
  BY DEF Places, Types, FlusherRec
<1>2. a \in Threads \ flusher[f].todo /\ flusher[f].timeRef \in DOMAIN time[a]
  BY DEF TakeCountRef, Places, FlusherOK
<1>3. count[a] \in Versions /\ time[a] \in Versions
  BY <1>2 DEF Places, Types
<1>4. /\ Len(count[a]) \in Nat /\ Len(count[a]) \in DOMAIN count[a]
      /\ count[a][Len(count[a])] \in Array /\ time[a][flusher[f].timeRef] \in Array
  BY <1>2, <1>3, LastVersion
<1>5. "check" \in FlusherPlaces /\ 0 \in Ids
  BY FlushAssumption DEF FlusherPlaces, Ids
<1>6. flusher' = [flusher EXCEPT ![f].at = "check", ![f].id = 0, ![f].countRef = Len(count[a])]
  BY DEF TakeCountRef
<1>7. flusher' \in [Flushers -> FlusherRec]
  <2>1. PICK n \in Nat : n = Len(count[a])
    BY <1>4
  <2>2. PICK z \in Ids : z = 0
    BY <1>5
  <2>3. flusher' = [flusher EXCEPT ![f].at = "check", ![f].id = z, ![f].countRef = n]
    BY <1>6, <2>1, <2>2
  <2>4. PICK r : r = [flusher[f] EXCEPT !.at = "check", !.id = z, !.countRef = n]
    OBVIOUS
  <2>5. "check" \in FlusherPlaces /\ flusher[f] \in FlusherRec
    BY <1>1, <1>5
  <2>6. r \in FlusherRec
    BY <2>4, <2>5 DEF FlusherRec
  <2>7. flusher' = [flusher EXCEPT ![f] = r]
    BY <1>1, <2>3, <2>4
  <2> QED BY <1>1, <2>6, <2>7
<1>8. /\ \A g \in Flushers : g # f => flusher'[g] = flusher[g]
      /\ flusher'[f].at = "check" /\ flusher'[f].reset = flusher[f].reset
      /\ flusher'[f].todo = flusher[f].todo /\ flusher'[f].thread = flusher[f].thread
      /\ flusher'[f].timeRef = flusher[f].timeRef /\ flusher'[f].id = 0
      /\ flusher'[f].countRef = Len(count[a])
  BY <1>1, <1>6 DEF FlusherRec
<1>9. time' = time /\ count' = count
  BY DEF TakeCountRef, buffers
<1>10. 0 \in DOMAIN count[a][Len(count[a])] /\ 0 \in DOMAIN time[a][flusher[f].timeRef]
  BY <1>4, ArrayShape
<1>11. FlusherOK(f)'
  BY <1>2, <1>4, <1>8, <1>9, <1>10 DEF FlusherOK
<1>12. /\ UNCHANGED <<buffers, hook>> /\ sharedCount' \in [Ids -> Nat] /\ sharedTime' \in [Ids -> Nat]
       /\ called' \in [Threads -> [Ids -> Nat]] /\ spent' \in [Threads -> [Ids -> Nat]]
  BY DEF TakeCountRef, shared, tallies, Places, Types
<1>13. Places'
  BY <1>7, <1>8, <1>11, <1>12, PlacesMoved
<1> QED BY <1>2, <1>8, <1>13

Elements == {"check", "add_time", "add_count", "zero_time", "zero_count"}

LEMMA MovedTo ==
  ASSUME Places, NEW f \in Flushers, flusher[f].at \in Elements, NEW to \in Elements, MoveTo(f, to)
  PROVE  /\ flusher' \in [Flushers -> FlusherRec]
         /\ \A g \in Flushers : g # f => flusher'[g] = flusher[g]
         /\ flusher'[f].at = to /\ flusher'[f].reset = flusher[f].reset
         /\ flusher'[f].todo = flusher[f].todo /\ flusher'[f].thread = flusher[f].thread
         /\ flusher'[f].timeRef = flusher[f].timeRef
         /\ flusher'[f].countRef = flusher[f].countRef /\ flusher'[f].id = flusher[f].id
<1>1. flusher \in [Flushers -> FlusherRec]
  BY DEF Places, Types, FlusherRec
<1>2. flusher' = [flusher EXCEPT ![f].at = to] /\ to \in FlusherPlaces
  BY DEF MoveTo, Elements, FlusherPlaces
<1> QED BY <1>1, <1>2 DEF FlusherRec

(* Whoever stays at the same element, or goes to one both arrays have, is   *)
(* in place; so is whoever leaves for the next buffer.                      *)
LEMMA AtElementOK ==
  ASSUME Places, NEW f \in Flushers, flusher[f].at \in Elements,
         flusher'[f].at \in Elements \cup {"next"},
         flusher'[f].todo = flusher[f].todo, flusher'[f].thread = flusher[f].thread,
         flusher'[f].timeRef = flusher[f].timeRef, flusher'[f].countRef = flusher[f].countRef,
         flusher'[f].at = "next" \/
           /\ flusher'[f].id \in DOMAIN time[flusher[f].thread][flusher[f].timeRef]
           /\ flusher'[f].id \in DOMAIN count[flusher[f].thread][flusher[f].countRef],
         \A b \in Threads : Evolves(count[b], count'[b]) /\ Evolves(time[b], time'[b])
  PROVE  FlusherOK(f)'
<1>1. FlusherOK(f)
  BY DEF Places
<1>2. /\ flusher[f].thread \in Threads \ flusher[f].todo
      /\ flusher[f].timeRef \in DOMAIN time[flusher[f].thread]
      /\ flusher[f].countRef \in DOMAIN count[flusher[f].thread]
  BY <1>1 DEF FlusherOK, Elements
<1>3. CASE flusher'[f].at = "next"
  BY <1>3 DEF FlusherOK
<1>4. CASE flusher'[f].at \in Elements
  <2>1. /\ flusher[f].timeRef \in DOMAIN time'[flusher[f].thread]
        /\ flusher[f].countRef \in DOMAIN count'[flusher[f].thread]
        /\ flusher'[f].id \in DOMAIN time'[flusher[f].thread][flusher[f].timeRef]
        /\ flusher'[f].id \in DOMAIN count'[flusher[f].thread][flusher[f].countRef]
    BY <1>2, <1>4 DEF Evolves, Elements
  <2>2. flusher'[f].at \notin {"idle", "next", "clear", "take_count"}
    BY <1>4 DEF Elements
  <2> QED BY <1>2, <2>1, <2>2 DEF FlusherOK
<1> QED BY <1>3, <1>4

LEMMA SameEvolvesAll ==
  ASSUME UNCHANGED buffers
  PROVE  \A b \in Threads : Evolves(count[b], count'[b]) /\ Evolves(time[b], time'[b])
BY DEF buffers, Evolves

LEMMA SkipPlaces ==
  ASSUME Places, NEW f \in Flushers, Skip(f), Watch
  PROVE  Places'
<1> DEFINE here == flusher[f]
           a    == flusher[f].thread
<1>1. here.at = "check" /\ NextId(f) /\ UNCHANGED <<buffers, hook, shared>>
      /\ Retally(f, 0, Newest(time[a])[here.id])
  BY DEF Skip
<1>2. a \in Threads /\ Newest(time[a])[here.id] \in Nat
  BY <1>1, AtElement
<1>3. called' \in [Threads -> [Ids -> Nat]] /\ spent' \in [Threads -> [Ids -> Nat]]
  BY <1>1, <1>2, RetallyTyped DEF Places
<1>4. /\ flusher' \in [Flushers -> FlusherRec]
      /\ \A g \in Flushers : g # f => flusher'[g] = flusher[g]
      /\ flusher'[f].at \in {"check", "next"}
      /\ flusher'[f].todo = here.todo /\ flusher'[f].thread = here.thread
      /\ flusher'[f].timeRef = here.timeRef /\ flusher'[f].countRef = here.countRef
      /\ flusher'[f].at = "check" =>
           /\ flusher'[f].id = here.id + 1
           /\ here.id + 1 \in DOMAIN time[a][here.timeRef]
           /\ here.id + 1 \in DOMAIN count[a][here.countRef]
  BY <1>1, NextIdStep
<1>5. FlusherOK(f)'
  <2>1. UNCHANGED buffers
    BY <1>1
  <2> QED BY <1>1, <1>4, <2>1, SameEvolvesAll, AtElementOK DEF Elements
<1>6. sharedCount' \in [Ids -> Nat] /\ sharedTime' \in [Ids -> Nat]
  BY <1>1 DEF shared, Places, Types
<1> QED BY <1>1, <1>3, <1>4, <1>5, <1>6, PlacesMoved

(* Adding to an element of the shared statistics. *)
LEMMA AddTyped ==
  ASSUME NEW T \in [Ids -> Nat], NEW m \in Ids, NEW n \in Nat
  PROVE  /\ [T EXCEPT ![m] = @ + n] \in [Ids -> Nat]
         /\ [T EXCEPT ![m] = 0] \in [Ids -> Nat]
OBVIOUS

LEMMA AddPlaces ==
  ASSUME Places, NEW f \in Flushers, DoNotSkip(f) \/ AddTime(f) \/ AddCount(f), Watch
  PROVE  Places'
<1> DEFINE here == flusher[f]
           a    == flusher[f].thread
<1>1. here.at \in {"check", "add_time", "add_count"}
  BY DEF DoNotSkip, AddTime, AddCount
<1>2. PICK to \in {"add_time", "add_count", "zero_time"} : MoveTo(f, to)
  BY DEF DoNotSkip, AddTime, AddCount
<1>3. /\ flusher' \in [Flushers -> FlusherRec]
      /\ \A g \in Flushers : g # f => flusher'[g] = flusher[g]
      /\ flusher'[f].at = to
      /\ flusher'[f].todo = here.todo /\ flusher'[f].thread = here.thread
      /\ flusher'[f].timeRef = here.timeRef /\ flusher'[f].countRef = here.countRef
      /\ flusher'[f].id = here.id
  BY <1>1, <1>2, MovedTo DEF Elements
<1>4. UNCHANGED <<buffers, hook, tallies>>
  BY DEF DoNotSkip, AddTime, AddCount
<1>5. /\ here.id \in Ids /\ time[a][here.timeRef][here.id] \in Nat
      /\ count[a][here.countRef][here.id] \in Nat
      /\ here.id \in DOMAIN time[a][here.timeRef] /\ here.id \in DOMAIN count[a][here.countRef]
  BY <1>1, AtElement
<1>6. FlusherOK(f)'
  <2>1. UNCHANGED buffers
    BY <1>4
  <2> QED BY <1>1, <1>3, <1>5, <2>1, SameEvolvesAll, AtElementOK DEF Elements
<1>7. sharedCount' \in [Ids -> Nat] /\ sharedTime' \in [Ids -> Nat]
  <2>1. sharedCount \in [Ids -> Nat] /\ sharedTime \in [Ids -> Nat]
    BY DEF Places, Types
  <2>2. CASE DoNotSkip(f)
    BY <2>1, <2>2 DEF DoNotSkip, shared
  <2>3. CASE AddTime(f)
    <3>1. sharedTime' = [sharedTime EXCEPT ![here.id] = @ + time[a][here.timeRef][here.id]]
          /\ sharedCount' = sharedCount
      BY <2>3 DEF AddTime
    <3> QED BY <2>1, <3>1, <1>5, AddTyped
  <2>4. CASE AddCount(f)
    <3>1. sharedCount' = [sharedCount EXCEPT ![here.id] = @ + count[a][here.countRef][here.id]]
          /\ sharedTime' = sharedTime
      BY <2>4 DEF AddCount
    <3> QED BY <2>1, <3>1, <1>5, AddTyped
  <2> QED BY <2>2, <2>3, <2>4
<1>8. called' \in [Threads -> [Ids -> Nat]] /\ spent' \in [Threads -> [Ids -> Nat]]
  BY <1>4 DEF tallies, Places, Types
<1> QED BY <1>3, <1>4, <1>6, <1>7, <1>8, PlacesMoved

LEMMA ZeroTimePlaces ==
  ASSUME Places, NEW f \in Flushers, ZeroTime(f), Watch
  PROVE  LET here == flusher[f]
             a    == flusher[f].thread
         IN  /\ Places'
             /\ \A b \in Threads : b # a => time'[b] = time[b]
             /\ \A m : Held(time', a, m) =
                         IF here.timeRef = Len(time[a]) /\ m = here.id
                         THEN 0 ELSE Held(time, a, m)
             /\ \A b \in Threads : Len(time'[b]) = Len(time[b])
<1> DEFINE here == flusher[f]
           a    == flusher[f].thread
<1>1. here.at = "zero_time" /\ count' = count /\ UNCHANGED <<hook, shared, tallies>>
      /\ MoveTo(f, "zero_count")
  BY DEF ZeroTime
<1>2. /\ a \in Threads /\ here.timeRef \in DOMAIN time[a]
      /\ here.id \in DOMAIN time[a][here.timeRef] /\ here.id \in DOMAIN count[a][here.countRef]
  BY <1>1, AtElement
<1>3. /\ time' \in [Threads -> Versions]
      /\ \A b \in Threads : SameShape(time[b], time'[b])
      /\ \A b \in Threads : Growing(time[b]) => Growing(time'[b])
      /\ \A b \in Threads : b # a => time'[b] = time[b]
      /\ \A m : Held(time', a, m) = IF here.timeRef = Len(time[a]) /\ m = here.id
                                    THEN 0 ELSE Held(time, a, m)
  <2>1. time' = Write(time, a, here.timeRef, here.id, 0)
    BY DEF ZeroTime, Write
  <2>2. time \in [Threads -> Versions]
    BY DEF Places, Types
  <2> QED BY <2>1, <2>2, <1>2, Written
<1>4. /\ flusher' \in [Flushers -> FlusherRec]
      /\ \A g \in Flushers : g # f => flusher'[g] = flusher[g]
      /\ flusher'[f].at = "zero_count"
      /\ flusher'[f].todo = here.todo /\ flusher'[f].thread = here.thread
      /\ flusher'[f].timeRef = here.timeRef /\ flusher'[f].countRef = here.countRef
      /\ flusher'[f].id = here.id
  BY <1>1, MovedTo DEF Elements
<1>5. \A b \in Threads : SameShape(count[b], count'[b]) /\ SameShape(time[b], time'[b])
                         /\ Growing(count[b])' /\ Growing(time[b])'
  BY <1>1, <1>3, UnchangedShape DEF Places, ArraysOK
<1>6. FlusherOK(f)'
  <2>1. \A b \in Threads : Evolves(count[b], count'[b]) /\ Evolves(time[b], time'[b])
    BY <1>5, SameEvolves
  <2> QED BY <1>1, <1>2, <1>4, <2>1, AtElementOK DEF Elements
<1>7. Types'
  BY <1>1, <1>3, <1>4, WatchTyped DEF Places, Types, FlusherRec, shared, tallies
<1>8. Places'
  BY <1>1, <1>4, <1>5, <1>6, <1>7, PlacesWritten
<1> QED BY <1>3, <1>8 DEF SameShape

LEMMA ZeroCountPlaces ==
  ASSUME Places, NEW f \in Flushers, ZeroCount(f), Watch
  PROVE  LET here == flusher[f]
             a    == flusher[f].thread
         IN  /\ Places'
             /\ \A b \in Threads : b # a => count'[b] = count[b]
             /\ \A m : Held(count', a, m) =
                         IF here.countRef = Len(count[a]) /\ m = here.id
                         THEN 0 ELSE Held(count, a, m)
             /\ \A b \in Threads : Len(count'[b]) = Len(count[b])
             /\ \A b \in Threads : DOMAIN Newest(count'[b]) = DOMAIN Newest(count[b])
<1> DEFINE here == flusher[f]
           a    == flusher[f].thread
<1>1. here.at = "zero_count" /\ time' = time /\ UNCHANGED <<hook, shared>>
      /\ NextId(f) /\ Retally(f, 0, 0)
  BY DEF ZeroCount
<1>2. a \in Threads /\ here.countRef \in DOMAIN count[a]
      /\ here.id \in DOMAIN count[a][here.countRef]
  BY <1>1, AtElement
<1>3. /\ count' \in [Threads -> Versions]
      /\ \A b \in Threads : SameShape(count[b], count'[b])
      /\ \A b \in Threads : Growing(count[b]) => Growing(count'[b])
      /\ \A b \in Threads : b # a => count'[b] = count[b]
      /\ \A m : Held(count', a, m) = IF here.countRef = Len(count[a]) /\ m = here.id
                                     THEN 0 ELSE Held(count, a, m)
  <2>1. count' = Write(count, a, here.countRef, here.id, 0)
    BY DEF ZeroCount, Write
  <2>2. count \in [Threads -> Versions]
    BY DEF Places, Types
  <2> QED BY <2>1, <2>2, <1>2, Written
<1>4. /\ flusher' \in [Flushers -> FlusherRec]
      /\ \A g \in Flushers : g # f => flusher'[g] = flusher[g]
      /\ flusher'[f].at \in {"check", "next"}
      /\ flusher'[f].todo = here.todo /\ flusher'[f].thread = here.thread
      /\ flusher'[f].timeRef = here.timeRef /\ flusher'[f].countRef = here.countRef
      /\ flusher'[f].at = "check" =>
           /\ flusher'[f].id = here.id + 1
           /\ here.id + 1 \in DOMAIN time[a][here.timeRef]
           /\ here.id + 1 \in DOMAIN count[a][here.countRef]
  BY <1>1, NextIdStep
<1>5. \A b \in Threads : SameShape(count[b], count'[b]) /\ SameShape(time[b], time'[b])
                         /\ Growing(count[b])' /\ Growing(time[b])'
  BY <1>1, <1>3, UnchangedShape DEF Places, ArraysOK
<1>6. FlusherOK(f)'
  <2>1. \A b \in Threads : Evolves(count[b], count'[b]) /\ Evolves(time[b], time'[b])
    BY <1>5, SameEvolves
  <2> QED BY <1>1, <1>4, <2>1, AtElementOK DEF Elements
<1>7. called' \in [Threads -> [Ids -> Nat]] /\ spent' \in [Threads -> [Ids -> Nat]]
  BY <1>1, <1>2, RetallyTyped DEF Places
<1>8. Types'
  BY <1>1, <1>3, <1>4, <1>7, WatchTyped DEF Places, Types, FlusherRec, shared
<1>9. Places'
  BY <1>1, <1>4, <1>5, <1>6, <1>8, PlacesWritten
<1> QED BY <1>3, <1>9 DEF SameShape

LEMMA FinishPlaces ==
  ASSUME Places, NEW f \in Flushers, Finish(f), Watch
  PROVE  /\ Places'
         /\ \A g \in Flushers : g # f => flusher'[g] = flusher[g]
         /\ flusher'[f].at = IF flusher[f].reset THEN "clear" ELSE "idle"
         /\ flusher'[f].reset = flusher[f].reset
         /\ flusher'[f].todo = {} /\ flusher'[f].id = 0
<1>1. flusher \in [Flushers -> FlusherRec] /\ flusher[f].reset \in BOOLEAN
  BY DEF Places, Types, FlusherRec
<1>2. IdleFlusher \in FlusherRec
  <2>1. 0 \in Ids /\ 0 \in Nat /\ {} \in SUBSET Threads /\ {} \in Threads \cup {{}}
    BY FlushAssumption DEF Ids
  <2>2. "idle" \in FlusherPlaces
    BY DEF FlusherPlaces
  <2> QED BY <2>1, <2>2 DEF FlusherRec, IdleFlusher
<1>3. PICK idle : idle = IdleFlusher
  OBVIOUS
<1>4. /\ idle \in FlusherRec /\ idle.at = "idle" /\ idle.reset = FALSE /\ idle.todo = {}
      /\ idle.id = 0
  BY <1>2, <1>3 DEF IdleFlusher
<1>5. PICK r : r = IF flusher[f].reset THEN [idle EXCEPT !.at = "clear", !.reset = TRUE] ELSE idle
  OBVIOUS
<1>6. flusher' = [flusher EXCEPT ![f] = r]
  BY <1>1, <1>3, <1>5 DEF Finish
<1>7. /\ r \in FlusherRec /\ r.todo = {} /\ r.id = 0
      /\ r.at = IF flusher[f].reset THEN "clear" ELSE "idle"
      /\ r.reset = flusher[f].reset
  <2>1. CASE flusher[f].reset
    <3>1. r = [idle EXCEPT !.at = "clear", !.reset = TRUE]
      BY <2>1, <1>5
    <3>2. "clear" \in FlusherPlaces
      BY DEF FlusherPlaces
    <3>3. r \in FlusherRec /\ r.todo = {} /\ r.id = 0 /\ r.at = "clear" /\ r.reset = TRUE
      BY <3>1, <3>2, <1>4 DEF FlusherRec
    <3> QED BY <2>1, <3>3, <1>1
  <2>2. CASE ~flusher[f].reset
    <3>1. r = idle
      BY <2>2, <1>5
    <3> QED BY <2>2, <3>1, <1>1, <1>4
  <2> QED BY <2>1, <2>2
<1>8. /\ flusher' \in [Flushers -> FlusherRec] /\ flusher'[f] = r
      /\ \A g \in Flushers : g # f => flusher'[g] = flusher[g]
  BY <1>1, <1>6, <1>7
<1>9. FlusherOK(f)'
  <2>1. CASE flusher[f].reset
    BY <2>1, <1>7, <1>8 DEF FlusherOK
  <2>2. CASE ~flusher[f].reset
    BY <2>2, <1>7, <1>8 DEF FlusherOK
  <2> QED BY <2>1, <2>2
<1>10. /\ UNCHANGED <<buffers, hook>> /\ sharedCount' \in [Ids -> Nat] /\ sharedTime' \in [Ids -> Nat]
       /\ called' \in [Threads -> [Ids -> Nat]] /\ spent' \in [Threads -> [Ids -> Nat]]
  BY DEF Finish, shared, tallies, Places, Types
<1>11. Places'
  BY <1>8, <1>9, <1>10, PlacesMoved
<1> QED BY <1>7, <1>8, <1>11

LEMMA ClearPlaces ==
  ASSUME Places, NEW f \in Flushers, Clear(f), Watch
  PROVE  /\ Places' /\ flusher[f].reset /\ flusher[f].todo = {} /\ flusher[f].id \in Ids
         /\ \A g \in Flushers : g # f => flusher'[g] = flusher[g]
         /\ \/ /\ flusher[f].id + 1 < MethodCount
               /\ flusher'[f].at = "clear" /\ flusher'[f].reset
               /\ flusher'[f].todo = {} /\ flusher'[f].id = flusher[f].id + 1
            \/ /\ ~ (flusher[f].id + 1 < MethodCount)
               /\ flusher'[f].at = "idle" /\ ~flusher'[f].reset
         /\ sharedCount' = [sharedCount EXCEPT ![flusher[f].id] = 0]
         /\ sharedTime' = [sharedTime EXCEPT ![flusher[f].id] = 0]
<1>1. /\ flusher \in [Flushers -> FlusherRec] /\ flusher[f] \in FlusherRec /\ flusher[f].id \in Ids
      /\ flusher[f].reset \in BOOLEAN
  BY DEF Places, Types, FlusherRec
<1>2. flusher[f].at = "clear" /\ flusher[f].reset /\ flusher[f].todo = {}
  BY DEF Places, FlusherOK, Clear
<1>3. sharedCount' = [sharedCount EXCEPT ![flusher[f].id] = 0]
      /\ sharedTime' = [sharedTime EXCEPT ![flusher[f].id] = 0]
      /\ UNCHANGED <<buffers, hook, tallies>>
  BY DEF Clear
<1>4. IdleFlusher \in FlusherRec /\ IdleFlusher.at = "idle" /\ ~IdleFlusher.reset
  <2>1. 0 \in Ids /\ 0 \in Nat /\ {} \in SUBSET Threads /\ {} \in Threads \cup {{}}
    BY FlushAssumption DEF Ids
  <2>2. "idle" \in FlusherPlaces
    BY DEF FlusherPlaces
  <2> QED BY <2>1, <2>2 DEF FlusherRec, IdleFlusher
<1>5. /\ flusher' \in [Flushers -> FlusherRec]
      /\ \A g \in Flushers : g # f => flusher'[g] = flusher[g]
      /\ \/ /\ flusher[f].id + 1 < MethodCount
            /\ flusher'[f].at = "clear" /\ flusher'[f].reset
            /\ flusher'[f].todo = {} /\ flusher'[f].id = flusher[f].id + 1
         \/ /\ ~ (flusher[f].id + 1 < MethodCount)
            /\ flusher'[f].at = "idle" /\ ~flusher'[f].reset
  <2>1. CASE flusher[f].id + 1 < MethodCount
    <3>1. flusher' = [flusher EXCEPT ![f] = [flusher[f] EXCEPT !.id = flusher[f].id + 1]]
      BY <2>1, <1>1 DEF Clear
    <3>2. flusher[f].id + 1 \in Ids
      BY <2>1, <1>1, FlushAssumption DEF Ids
    <3>3. PICK r : r = [flusher[f] EXCEPT !.id = flusher[f].id + 1]
      OBVIOUS
    <3>4. r \in FlusherRec /\ r.at = flusher[f].at /\ r.reset = flusher[f].reset
          /\ r.todo = flusher[f].todo /\ r.id = flusher[f].id + 1
      BY <3>2, <3>3, <1>1 DEF FlusherRec
    <3>5. flusher' \in [Flushers -> FlusherRec] /\ flusher'[f] = r
          /\ \A g \in Flushers : g # f => flusher'[g] = flusher[g]
      BY <3>1, <3>3, <3>4, <1>1
    <3> QED BY <2>1, <3>4, <3>5, <1>2
  <2>2. CASE ~ (flusher[f].id + 1 < MethodCount)
    <3>1. flusher' = [flusher EXCEPT ![f] = IdleFlusher]
      BY <2>2, <1>1 DEF Clear
    <3>2. flusher' \in [Flushers -> FlusherRec] /\ flusher'[f] = IdleFlusher
          /\ \A g \in Flushers : g # f => flusher'[g] = flusher[g]
      BY <3>1, <1>1, <1>4
    <3> QED BY <2>2, <3>2, <1>4
  <2> QED BY <2>1, <2>2
<1>6. FlusherOK(f)'
  BY <1>5 DEF FlusherOK
<1>7. /\ sharedCount' \in [Ids -> Nat] /\ sharedTime' \in [Ids -> Nat]
      /\ called' \in [Threads -> [Ids -> Nat]] /\ spent' \in [Threads -> [Ids -> Nat]]
  BY <1>1, <1>3, AddTyped DEF tallies, Places, Types
<1>8. Places'
  BY <1>3, <1>5, <1>6, <1>7, PlacesMoved
<1> QED BY <1>1, <1>2, <1>3, <1>5, <1>8

(* The places of the start. *)
LEMMA InitPlaces ==
  ASSUME Init
  PROVE  Places
<1> DEFINE zeroes == [i \in 0 .. Capacity - 1 |-> 0]
<1>1. zeroes \in Array
  <2>1. Capacity \in Nat \ {0} /\ zeroes \in [0 .. Capacity - 1 -> Nat]
    BY FlushAssumption
  <2> QED BY <2>1 DEF Array
<1> HIDE DEF zeroes
<1>2. /\ <<zeroes>> \in Versions /\ Newest(<<zeroes>>) = zeroes /\ Growing(<<zeroes>>)
  BY <1>1 DEF Versions, Newest, Growing
<1>3. count = [a \in Threads |-> <<zeroes>>] /\ time = count
  BY DEF Init, zeroes
<1>4. IdleHook \in HookRec /\ IdleFlusher \in FlusherRec /\ None \in [Ids -> Nat]
  <2>1. 0 \in Ids /\ 0 \in Nat /\ {} \in SUBSET Threads /\ {} \in Threads \cup {{}}
    BY FlushAssumption DEF Ids
  <2>2. "idle" \in FlusherPlaces /\ "idle" \in HookPlaces
    BY DEF FlusherPlaces, HookPlaces
  <2>3. IdleHook \in HookRec
    BY <2>1, <2>2 DEF HookRec, IdleHook
  <2>4. IdleFlusher \in FlusherRec
    BY <2>1, <2>2 DEF FlusherRec, IdleFlusher
  <2> QED BY <2>3, <2>4 DEF None
<1>5. count \in [Threads -> Versions] /\ time \in [Threads -> Versions]
  BY <1>2, <1>3
<1>6. hook \in [Threads -> HookRec] /\ flusher \in [Flushers -> FlusherRec]
  BY <1>4 DEF Init
<1>7. /\ sharedCount \in [Ids -> Nat] /\ sharedTime \in [Ids -> Nat]
      /\ called \in [Threads -> [Ids -> Nat]] /\ spent \in [Threads -> [Ids -> Nat]]
      /\ raced \subseteq Ids
  BY <1>4 DEF Init
<1>8. Types
  BY <1>5, <1>6, <1>7 DEF Types, HookRec, FlusherRec
<1>9. ASSUME NEW a \in Threads PROVE ArraysOK(a)
  <2>1. hook[a].at = "idle"
    BY DEF Init, IdleHook
  <2> QED BY <2>1, <1>2, <1>3 DEF ArraysOK
<1>10. ASSUME NEW f \in Flushers PROVE FlusherOK(f)
  <2>1. flusher[f].at = "idle" /\ flusher[f].reset = FALSE
    BY DEF Init, IdleFlusher
  <2> QED BY <2>1 DEF FlusherOK
<1> QED BY <1>8, <1>9, <1>10 DEF Places

(* Places is inductive. *)
LEMMA PlacesKept ==
  ASSUME Places, [Next]_vars
  PROVE  Places'
<1>1. ASSUME UNCHANGED vars PROVE Places'
  BY <1>1 DEF vars, buffers, shared, tallies, Places, Types, ArraysOK, FlusherOK
<1>2. ASSUME NEW a \in Threads, HookNext(a), Watch PROVE Places'
  BY <1>2, EnterPlaces, ReadPlaces, GrowTimePlaces, GrowCountPlaces, WriteCountPlaces,
     WriteTimePlaces DEF HookNext, HookOn
<1>3. ASSUME NEW f \in Flushers, FlushNext(f), Watch PROVE Places'
  <2>1. ASSUME NEW reset \in BOOLEAN, BeginFlush(f, reset) PROVE Places'
    BY <2>1, <1>3, BeginFlushPlaces
  <2>2. ASSUME TakeTimeRef(f) PROVE Places'
    BY <2>2, <1>3, TakeTimeRefPlaces DEF TakeTimeRef
  <2>3. ASSUME TakeCountRef(f) PROVE Places'
    BY <2>3, <1>3, TakeCountRefPlaces
  <2>4. ASSUME Skip(f) PROVE Places'
    BY <2>4, <1>3, SkipPlaces
  <2>5. ASSUME DoNotSkip(f) \/ AddTime(f) \/ AddCount(f) PROVE Places'
    BY <2>5, <1>3, AddPlaces
  <2>6. ASSUME ZeroTime(f) PROVE Places'
    BY <2>6, <1>3, ZeroTimePlaces
  <2>7. ASSUME ZeroCount(f) PROVE Places'
    BY <2>7, <1>3, ZeroCountPlaces
  <2>8. ASSUME Finish(f) PROVE Places'
    BY <2>8, <1>3, FinishPlaces
  <2>9. ASSUME Clear(f) PROVE Places'
    BY <2>9, <1>3, ClearPlaces
  <2> QED BY <1>3, <2>1, <2>2, <2>3, <2>4, <2>5, <2>6, <2>7, <2>8, <2>9 DEF FlushNext
<1> QED BY <1>1, <1>2, <1>3 DEF Next

(* Places says what TypeOK does. *)
LEMMA PlacesTyped ==
  ASSUME Places
  PROVE  TypeOK
<1>1. ASSUME NEW vs \in Versions, Growing(vs) PROVE Arrays(vs)
  <2>1. Len(vs) >= 1
    <3>1. Len(vs) \in Nat /\ Len(vs) \in 1 .. Len(vs)
      BY LastVersion
    <3> QED BY <3>1
  <2>2. ASSUME NEW v \in DOMAIN vs
        PROVE  vs[v] \in [0 .. Cardinality(DOMAIN vs[v]) - 1 -> Nat]
    <3>1. vs[v] \in Array
      BY LastVersion
    <3>2. vs[v] \in [DOMAIN vs[v] -> Nat] /\ DOMAIN vs[v] = 0 .. Cardinality(DOMAIN vs[v]) - 1
      BY <3>1, ArrayShape
    <3> QED BY <3>2
  <2> QED BY <1>1, <2>1, <2>2 DEF Arrays, Growing
<1>2. \A a \in Threads : Arrays(count[a]) /\ Arrays(time[a])
  BY <1>1 DEF Places, Types, ArraysOK
<1>3. hook \in [Threads -> [at : HookPlaces, id : Ids, read : Nat]]
      /\ sharedCount \in [Ids -> Nat] /\ sharedTime \in [Ids -> Nat] /\ raced \subseteq Ids
  BY DEF Places, Types
<1>4. \A a \in Threads : hook[a].at \notin {"idle", "grow_time", "grow_count"} =>
        hook[a].id \in DOMAIN Newest(count[a]) \cap DOMAIN Newest(time[a])
  BY DEF Places, ArraysOK
<1>5. ASSUME NEW f \in Flushers
      PROVE  /\ flusher[f].at \in FlusherPlaces
             /\ flusher[f].todo \subseteq Threads
             /\ \A a \in Threads : HoldsArrays(f, a) /\ flusher[f].at # "take_count" =>
                  flusher[f].id \in DOMAIN time[a][flusher[f].timeRef]
                                    \cap DOMAIN count[a][flusher[f].countRef]
  <2>1. flusher[f].at \in FlusherPlaces /\ flusher[f].todo \subseteq Threads
    BY DEF Places, Types
  <2>2. FlusherOK(f)
    BY DEF Places
  <2> QED BY <2>1, <2>2 DEF FlusherOK, HoldsArrays
<1> QED BY <1>2, <1>3, <1>4, <1>5 DEF TypeOK

(* CounterTypes: counters and shared statistics stay what they are, arrays  *)
(* only grow, and neither a hook nor a flush ever indexes past the arrays   *)
(* it uses, whichever versions they are (ensureCapacity, recordMethodEnter, *)
(* flushLocalCounters).                                                     *)
THEOREM CounterTypes == Spec => []TypeOK
<1>1. Init => Places
  BY InitPlaces
<1>2. Places /\ [Next]_vars => Places'
  BY PlacesKept
<1>3. Places => TypeOK
  BY PlacesTyped
<1> QED BY <1>1, <1>2, <1>3, PTL DEF Spec

----------------------------------------------------------------------------
(* Clean is inductive.  Everything below is about an id that is not raced. *)

LEMMA HeldTyped ==
  ASSUME NEW V \in [Threads -> Versions], NEW a \in Threads, NEW m
  PROVE  Held(V, a, m) \in Nat
<1>1. Newest(V[a]) \in Array
  BY LastVersion
<1> QED BY <1>1, ArrayShape DEF Held

LEMMA ColumnsTyped ==
  ASSUME Types, NEW m \in Ids
  PROVE  /\ RestCounts(m) \in [Threads -> Int] /\ RestTimes(m) \in [Threads -> Int]
         /\ Calls(m) \in [Threads -> Int] /\ Durations(m) \in [Threads -> Int]
         /\ sharedCount[m] \in Int /\ sharedTime[m] \in Int
<1>1. \A a \in Threads : Held(count, a, m) \in Nat /\ Held(time, a, m) \in Nat
  BY HeldTyped DEF Types
<1>2. \A a \in Threads : RestCount(a, m) \in Int /\ RestTime(a, m) \in Int
  BY <1>1 DEF RestCount, RestTime
<1>3. \A a \in Threads : called[a][m] \in Nat /\ spent[a][m] \in Nat
  BY DEF Types
<1>4. sharedCount[m] \in Nat /\ sharedTime[m] \in Nat
  BY DEF Types
<1> QED BY <1>2, <1>3, <1>4 DEF RestCounts, RestTimes, Calls, Durations

LEMMA ColumnsTypedNext ==
  ASSUME Types', NEW m \in Ids
  PROVE  /\ RestCounts(m)' \in [Threads -> Int] /\ RestTimes(m)' \in [Threads -> Int]
         /\ Calls(m)' \in [Threads -> Int] /\ Durations(m)' \in [Threads -> Int]
         /\ sharedCount'[m] \in Int /\ sharedTime'[m] \in Int
<1>1. \A a \in Threads : Held(count', a, m) \in Nat /\ Held(time', a, m) \in Nat
  BY HeldTyped DEF Types
<1>2. \A a \in Threads : RestCount(a, m)' \in Int /\ RestTime(a, m)' \in Int
  BY <1>1 DEF RestCount, RestTime
<1>3. \A a \in Threads : called'[a][m] \in Nat /\ spent'[a][m] \in Nat
  BY DEF Types
<1>4. sharedCount'[m] \in Nat /\ sharedTime'[m] \in Nat
  BY DEF Types
<1> QED BY <1>2, <1>3, <1>4 DEF RestCounts, RestTimes, Calls, Durations

(* The account is kept when one thread's part of it changes as it should. *)
LEMMA AccountedKept ==
  ASSUME Types, Types', NEW m \in Ids, NEW a \in Threads, Accounted(m),
         \A f \in Flushers : ~flusher[f].reset,
         \A b \in Threads : b # a =>
           /\ RestCount(b, m)' = RestCount(b, m) /\ RestTime(b, m)' = RestTime(b, m)
           /\ called'[b][m] = called[b][m] /\ spent'[b][m] = spent[b][m],
         sharedCount'[m] + RestCount(a, m)' - called'[a][m]
           = sharedCount[m] + RestCount(a, m) - called[a][m],
         sharedTime'[m] + RestTime(a, m)' - spent'[a][m]
           = sharedTime[m] + RestTime(a, m) - spent[a][m]
  PROVE  Accounted(m)'
<1>1. /\ sharedCount[m] + Total(RestCounts(m), Threads) = Total(Calls(m), Threads)
      /\ sharedTime[m] + Total(RestTimes(m), Threads) = Total(Durations(m), Threads)
  BY DEF Accounted
<1>2. /\ RestCounts(m)[a] = RestCount(a, m) /\ RestCounts(m)'[a] = RestCount(a, m)'
      /\ RestTimes(m)[a] = RestTime(a, m) /\ RestTimes(m)'[a] = RestTime(a, m)'
      /\ Calls(m)[a] = called[a][m] /\ Calls(m)'[a] = called'[a][m]
      /\ Durations(m)[a] = spent[a][m] /\ Durations(m)'[a] = spent'[a][m]
  BY DEF RestCounts, RestTimes, Calls, Durations
<1>3. \A b \in Threads : b # a =>
        /\ RestCounts(m)'[b] = RestCounts(m)[b] /\ RestTimes(m)'[b] = RestTimes(m)[b]
        /\ Calls(m)'[b] = Calls(m)[b] /\ Durations(m)'[b] = Durations(m)[b]
  BY DEF RestCounts, RestTimes, Calls, Durations
<1>4. sharedCount'[m] + Total(RestCounts(m)', Threads) = Total(Calls(m)', Threads)
  <2>1. RestCounts(m) \in [Threads -> Int] /\ Calls(m) \in [Threads -> Int] /\ sharedCount[m] \in Int
    BY ColumnsTyped
  <2>2. RestCounts(m)' \in [Threads -> Int] /\ Calls(m)' \in [Threads -> Int] /\ sharedCount'[m] \in Int
    BY ColumnsTypedNext
  <2>3. sharedCount'[m] + RestCounts(m)'[a] - Calls(m)'[a] = sharedCount[m] + RestCounts(m)[a] - Calls(m)[a]
    BY <1>2
  <2>4. \A b \in Threads : b # a =>
          RestCounts(m)'[b] = RestCounts(m)[b] /\ Calls(m)'[b] = Calls(m)[b]
    BY <1>3
  <2>5. sharedCount[m] + Total(RestCounts(m), Threads) = Total(Calls(m), Threads)
    BY <1>1
  <2>6. IsFiniteSet(Threads)
    BY FlushAssumption
  <2>7. /\ Total(RestCounts(m), Threads) \in Int /\ Total(RestCounts(m)', Threads) \in Int
        /\ Total(RestCounts(m)', Threads) - RestCounts(m)'[a] = Total(RestCounts(m), Threads) - RestCounts(m)[a]
    BY <2>1, <2>2, <2>4, <2>6, TotalChange
  <2>8. /\ Total(Calls(m), Threads) \in Int /\ Total(Calls(m)', Threads) \in Int
        /\ Total(Calls(m)', Threads) - Calls(m)'[a] = Total(Calls(m), Threads) - Calls(m)[a]
    BY <2>1, <2>2, <2>4, <2>6, TotalChange
  <2>9. /\ RestCounts(m)[a] \in Int /\ RestCounts(m)'[a] \in Int
        /\ Calls(m)[a] \in Int /\ Calls(m)'[a] \in Int
        /\ sharedCount[m] \in Int /\ sharedCount'[m] \in Int
    BY <2>1, <2>2
  <2> QED BY <2>3, <2>5, <2>7, <2>8, <2>9
<1>5. sharedTime'[m] + Total(RestTimes(m)', Threads) = Total(Durations(m)', Threads)
  <2>1. RestTimes(m) \in [Threads -> Int] /\ Durations(m) \in [Threads -> Int] /\ sharedTime[m] \in Int
    BY ColumnsTyped
  <2>2. RestTimes(m)' \in [Threads -> Int] /\ Durations(m)' \in [Threads -> Int] /\ sharedTime'[m] \in Int
    BY ColumnsTypedNext
  <2>3. sharedTime'[m] + RestTimes(m)'[a] - Durations(m)'[a] = sharedTime[m] + RestTimes(m)[a] - Durations(m)[a]
    BY <1>2
  <2>4. \A b \in Threads : b # a =>
          RestTimes(m)'[b] = RestTimes(m)[b] /\ Durations(m)'[b] = Durations(m)[b]
    BY <1>3
  <2>5. sharedTime[m] + Total(RestTimes(m), Threads) = Total(Durations(m), Threads)
    BY <1>1
  <2>6. IsFiniteSet(Threads)
    BY FlushAssumption
  <2>7. /\ Total(RestTimes(m), Threads) \in Int /\ Total(RestTimes(m)', Threads) \in Int
        /\ Total(RestTimes(m)', Threads) - RestTimes(m)'[a] = Total(RestTimes(m), Threads) - RestTimes(m)[a]
    BY <2>1, <2>2, <2>4, <2>6, TotalChange
  <2>8. /\ Total(Durations(m), Threads) \in Int /\ Total(Durations(m)', Threads) \in Int
        /\ Total(Durations(m)', Threads) - Durations(m)'[a] = Total(Durations(m), Threads) - Durations(m)[a]
    BY <2>1, <2>2, <2>4, <2>6, TotalChange
  <2>9. /\ RestTimes(m)[a] \in Int /\ RestTimes(m)'[a] \in Int
        /\ Durations(m)[a] \in Int /\ Durations(m)'[a] \in Int
        /\ sharedTime[m] \in Int /\ sharedTime'[m] \in Int
    BY <2>1, <2>2
  <2> QED BY <2>3, <2>5, <2>7, <2>8, <2>9
<1> QED BY <1>4, <1>5 DEF Accounted

(* It is kept when nothing of it changes. *)
LEMMA AccountedSame ==
  ASSUME NEW m, Accounted(m),
         (\A f \in Flushers : ~flusher'[f].reset) => (\A f \in Flushers : ~flusher[f].reset),
         \A b \in Threads :
           /\ RestCount(b, m)' = RestCount(b, m) /\ RestTime(b, m)' = RestTime(b, m)
           /\ called'[b][m] = called[b][m] /\ spent'[b][m] = spent[b][m],
         sharedCount'[m] = sharedCount[m], sharedTime'[m] = sharedTime[m]
  PROVE  Accounted(m)'
<1>1. RestCounts(m)' = RestCounts(m) /\ RestTimes(m)' = RestTimes(m)
      /\ Calls(m)' = Calls(m) /\ Durations(m)' = Durations(m)
  BY DEF RestCounts, RestTimes, Calls, Durations
<1> QED BY <1>1 DEF Accounted

(* Nobody else is at an element that is being moved and is not raced. *)
LEMMA MoverAlone ==
  ASSUME RacedSeen, NEW m \in Ids, m \notin raced, NEW f \in Flushers, NEW a \in Threads,
         Moves(flusher[f], a, m)
  PROVE  /\ \A g \in Flushers : g # f => ~Moves(flusher[g], a, m) /\ ~flusher[g].reset
         /\ ~ (hook[a].at \in {"counting", "timing"} /\ hook[a].id = m)
BY DEF RacedSeen, Meet, MovingSlot, Moves

LEMMA MoverAloneNext ==
  ASSUME RacedSeen', NEW m \in Ids, m \notin raced', NEW f \in Flushers, NEW a \in Threads,
         Moves(flusher'[f], a, m)
  PROVE  /\ \A g \in Flushers : g # f => ~Moves(flusher'[g], a, m) /\ ~flusher'[g].reset
         /\ ~ (hook'[a].at \in {"counting", "timing"} /\ hook'[a].id = m)
BY DEF RacedSeen, Meet, MovingSlot, Moves

(* Nobody holds the arrays of a thread that replaces them. *)
LEMMA GrowerAlone ==
  ASSUME RacedSeen, NEW m \in Ids, m \notin raced, NEW f \in Flushers, NEW a \in Threads,
         hook[a].at \in {"grow_time", "grow_count"}
  PROVE  ~HoldsArrays(f, a)
BY DEF RacedSeen, Meet

LEMMA MovedBy ==
  ASSUME NEW F, NEW f \in Flushers, NEW a, NEW m,
         \A g \in Flushers : g # f => ~Moves(F[g], a, m)
  PROVE  /\ CountMoved(F, a, m) <=>
              Moves(F[f], a, m) /\ F[f].at \in {"zero_time", "zero_count"}
         /\ TimeMoved(F, a, m) <=>
              Moves(F[f], a, m) /\ F[f].at \in {"add_count", "zero_time", "zero_count"}
BY DEF CountMoved, TimeMoved

LEMMA MovedSame ==
  ASSUME NEW F, NEW G, NEW f \in Flushers, NEW a, NEW m,
         \A g \in Flushers : g # f => G[g] = F[g], ~Moves(F[f], a, m), ~Moves(G[f], a, m)
  PROVE  /\ CountMoved(G, a, m) <=> CountMoved(F, a, m)
         /\ TimeMoved(G, a, m) <=> TimeMoved(F, a, m)
<1>1. \A g \in Flushers : Moves(G[g], a, m) <=> Moves(F[g], a, m)
  OBVIOUS
<1>2. \A g \in Flushers : Moves(G[g], a, m) => G[g] = F[g]
  OBVIOUS
<1>3. \A g \in Flushers : Moves(F[g], a, m) => G[g] = F[g]
  OBVIOUS
<1> QED BY <1>1, <1>2, <1>3 DEF CountMoved, TimeMoved

(* A step of flusher f and the rests: either it is not at the element, or   *)
(* it alone decides what is moved of it.                                    *)
LEMMA RestStep ==
  ASSUME RacedSeen, RacedSeen', NEW m \in Ids, m \notin raced, m \notin raced',
         NEW f \in Flushers, \A g \in Flushers : g # f => flusher'[g] = flusher[g],
         NEW b \in Threads
  PROVE  \/ /\ ~Moves(flusher[f], b, m) /\ ~Moves(flusher'[f], b, m)
            /\ CountMoved(flusher', b, m) <=> CountMoved(flusher, b, m)
            /\ TimeMoved(flusher', b, m) <=> TimeMoved(flusher, b, m)
         \/ /\ CountMoved(flusher, b, m) <=>
                 Moves(flusher[f], b, m) /\ flusher[f].at \in {"zero_time", "zero_count"}
            /\ TimeMoved(flusher, b, m) <=>
                 Moves(flusher[f], b, m)
                   /\ flusher[f].at \in {"add_count", "zero_time", "zero_count"}
            /\ CountMoved(flusher', b, m) <=>
                 Moves(flusher'[f], b, m) /\ flusher'[f].at \in {"zero_time", "zero_count"}
            /\ TimeMoved(flusher', b, m) <=>
                 Moves(flusher'[f], b, m)
                   /\ flusher'[f].at \in {"add_count", "zero_time", "zero_count"}
<1>1. CASE ~Moves(flusher[f], b, m) /\ ~Moves(flusher'[f], b, m)
  BY <1>1, MovedSame
<1>2. CASE Moves(flusher[f], b, m) \/ Moves(flusher'[f], b, m)
  <2>1. \A g \in Flushers : g # f => ~Moves(flusher[g], b, m) /\ ~Moves(flusher'[g], b, m)
    BY <1>2, MoverAlone, MoverAloneNext
  <2> QED BY <2>1, MovedBy
<1> QED BY <1>1, <1>2

(* A step of a thread that changes neither what is held nor the tallies     *)
(* leaves the account, the restarted tallies and the moved time alone.      *)
LEMMA HeldSame ==
  ASSUME NEW m \in Ids, Clean(m), flusher' = flusher,
         \A b \in Threads : Held(count', b, m) = Held(count, b, m)
                            /\ Held(time', b, m) = Held(time, b, m),
         sharedCount' = sharedCount, sharedTime' = sharedTime, called' = called, spent' = spent
  PROVE  TimeZeroed(m)' /\ Accounted(m)' /\ Restarted(m)'
<1>1. TimeZeroed(m)'
  BY DEF Clean, TimeZeroed, MovingSlot
<1>2. Accounted(m)'
  <2>1. \A b \in Threads : RestCount(b, m)' = RestCount(b, m) /\ RestTime(b, m)' = RestTime(b, m)
    BY DEF RestCount, RestTime
  <2> QED BY <2>1, AccountedSame DEF Clean
<1>3. Restarted(m)'
  BY DEF Clean, Restarted, Done, HoldsArrays
<1> QED BY <1>1, <1>2, <1>3

LEMMA EnterReadClean ==
  ASSUME Places, NEW m \in Ids, Clean(m), NEW a \in Threads, NEW k \in Ids,
         Enter(a, k) \/ ReadCount(a) \/ ReadTime(a)
  PROVE  Clean(m)'
<1>1. /\ flusher' = flusher /\ count' = count /\ time' = time
      /\ sharedCount' = sharedCount /\ sharedTime' = sharedTime
      /\ called' = called /\ spent' = spent
  BY DEF Enter, ReadCount, ReadTime, ReadThen, buffers, shared, tallies
<1>2. TimeZeroed(m)' /\ Accounted(m)' /\ Restarted(m)'
  BY <1>1, HeldSame
<1>3. Current(m)' /\ Untouched(m)'
  BY <1>1 DEF Clean, Current, Untouched, HoldsArrays
<1>4. ReadStands(m)'
  <2>1. \A b \in Threads : b # a => hook'[b] = hook[b]
    BY DEF Places, Types, Enter, ReadCount, ReadTime, ReadThen
  <2>2. CASE Enter(a, k)
    <3>1. hook'[a].at \in {"entering", "grow_time"}
      BY <2>2 DEF Places, Types, Enter
    <3> QED BY <3>1, <2>1, <1>1 DEF Clean, ReadStands
  <2>3. CASE ReadCount(a)
    <3>1. hook'[a].at = "counting" /\ hook'[a].id = hook[a].id
          /\ hook'[a].read = Newest(count[a])[hook[a].id]
      BY <2>3 DEF Places, Types, ReadCount, ReadThen
    <3>2. hook[a].id \in DOMAIN Newest(count[a])
      BY <2>3 DEF Places, ArraysOK, ReadCount, ReadThen
    <3>3. hook'[a].read = Held(count, a, hook[a].id)
      BY <3>1, <3>2 DEF Held
    <3> QED BY <3>1, <3>3, <2>1, <1>1 DEF Clean, ReadStands
  <2>4. CASE ReadTime(a)
    <3>1. hook'[a].at = "timing" /\ hook'[a].id = hook[a].id
          /\ hook'[a].read = Newest(time[a])[hook[a].id]
      BY <2>4 DEF Places, Types, ReadTime, ReadThen
    <3>2. hook[a].id \in DOMAIN Newest(time[a])
      BY <2>4 DEF Places, ArraysOK, ReadTime, ReadThen
    <3>3. hook'[a].read = Held(time, a, hook[a].id)
      BY <3>1, <3>2 DEF Held
    <3> QED BY <3>1, <3>3, <2>1, <1>1 DEF Clean, ReadStands
  <2> QED BY <2>2, <2>3, <2>4
<1> QED BY <1>2, <1>3, <1>4 DEF Clean

LEMMA GrowClean ==
  ASSUME Places, RacedSeen, NEW m \in Ids, m \notin raced, Clean(m), NEW a \in Threads,
         GrowTime(a) \/ GrowCount(a)
  PROVE  Clean(m)'
<1>1. /\ flusher' = flusher /\ sharedCount' = sharedCount /\ sharedTime' = sharedTime
      /\ called' = called /\ spent' = spent
  BY DEF GrowTime, GrowCount, HookStep, shared, tallies
<1>2. /\ \A b \in Threads : b # a => hook'[b] = hook[b]
      /\ hook[a].at \in {"grow_time", "grow_count"} /\ hook'[a].at \in {"grow_count", "entering"}
  <2>1. PICK from \in {"grow_time", "grow_count"}, to \in {"grow_count", "entering"} :
          hook[a].at = from /\ hook' = [hook EXCEPT ![a].at = to]
    BY DEF GrowTime, GrowCount, HookStep
  <2>2. hook \in [Threads -> HookRec]
    BY DEF Places, Types, HookRec
  <2> QED BY <2>1, <2>2 DEF HookRec
<1>3. hook[a].id \in Nat /\ count \in [Threads -> Versions] /\ time \in [Threads -> Versions]
  BY IdsNat DEF Places, Types
<1>4. /\ \A b \in Threads : b # a => count'[b] = count[b] /\ time'[b] = time[b]
      /\ Held(count', a, m) = Held(count, a, m) /\ Held(time', a, m) = Held(time, a, m)
      /\ DOMAIN Newest(count[a]) \subseteq DOMAIN Newest(count'[a])
  <2>1. CASE GrowTime(a)
    <3>1. time' = Extension(time, a, hook[a].id) /\ count' = count
      BY <2>1 DEF GrowTime, Longer, Extension
    <3>2. /\ \A b \in Threads : b # a => time'[b] = time[b]
          /\ \A k : Held(time', a, k) = Held(time, a, k)
      BY <3>1, <1>3, Extended
    <3> QED BY <3>1, <3>2
  <2>2. CASE GrowCount(a)
    <3>1. count' = Extension(count, a, hook[a].id) /\ time' = time
      BY <2>2 DEF GrowCount, Longer, Extension
    <3>2. /\ \A b \in Threads : b # a => count'[b] = count[b]
          /\ \A k : Held(count', a, k) = Held(count, a, k)
          /\ Newest(count'[a]) = Grown(Newest(count[a]), hook[a].id)
      BY <3>1, <1>3, Extended
    <3>3. Newest(count[a]) \in Array
      BY <1>3, LastVersion
    <3>4. DOMAIN Newest(count[a]) \subseteq DOMAIN Newest(count'[a])
      BY <3>2, <3>3, <1>3, GrownArray
    <3> QED BY <3>1, <3>2, <3>4
  <2> QED BY <2>1, <2>2
<1>5. \A b \in Threads : /\ Held(count', b, m) = Held(count, b, m)
                         /\ Held(time', b, m) = Held(time, b, m)
  BY <1>4 DEF Held
<1>6. TimeZeroed(m)' /\ Accounted(m)' /\ Restarted(m)'
  BY <1>1, <1>5, HeldSame
<1>7. Current(m)'
  <2>1. \A f \in Flushers : ~HoldsArrays(f, a)
    BY <1>2, GrowerAlone
  <2> QED BY <1>1, <1>4, <2>1 DEF Clean, Current, HoldsArrays
<1>8. ReadStands(m)'
  BY <1>2, <1>5 DEF Clean, ReadStands
<1>9. Untouched(m)'
  BY <1>1, <1>4, <1>5 DEF Clean, Untouched
<1> QED BY <1>6, <1>7, <1>8, <1>9 DEF Clean

LEMMA WriteCountClean ==
  ASSUME Places, Places', RacedSeen, NEW m \in Ids, m \notin raced, Clean(m), NEW a \in Threads,
         WriteCount(a), Watch
  PROVE  Clean(m)'
<1> DEFINE id == hook[a].id
<1>1. /\ flusher' = flusher /\ time' = time /\ sharedCount' = sharedCount
      /\ sharedTime' = sharedTime /\ spent' = spent /\ hook[a].at = "counting"
  BY DEF WriteCount, HookStep, shared
<1>2. /\ \A b \in Threads : b # a => count'[b] = count[b]
      /\ \A k : Held(count', a, k) = IF k = id THEN hook[a].read + 1 ELSE Held(count, a, k)
      /\ \A b \in Threads : Len(count'[b]) = Len(count[b])
      /\ \A b \in Threads : DOMAIN Newest(count'[b]) = DOMAIN Newest(count[b])
  BY WriteCountPlaces
<1>3. /\ \A b \in Threads : b # a => hook'[b] = hook[b]
      /\ hook'[a].at = "running" /\ hook'[a].id = id /\ id \in Ids
  BY DEF Places, Types, WriteCount, HookStep
<1>4. \A b \in Threads : called'[b][m] = IF b = a /\ m = id THEN called[b][m] + 1 ELSE called[b][m]
  <2>1. called' = [called EXCEPT ![a][id] = @ + 1]
    BY DEF WriteCount
  <2>2. called \in [Threads -> [Ids -> Nat]]
    BY DEF Places, Types
  <2> QED BY <2>1, <2>2, <1>3
<1>5. \A b \in Threads :
        Held(count', b, m) = IF b = a /\ m = id THEN Held(count, b, m) + 1 ELSE Held(count, b, m)
  <2>1. m = id => hook[a].read = Held(count, a, m)
    BY <1>1 DEF Clean, ReadStands
  <2>2. \A b \in Threads : b # a => Held(count', b, m) = Held(count, b, m)
    BY <1>2 DEF Held
  <2> QED BY <1>2, <2>1, <2>2
<1>6. Current(m)'
  BY <1>1, <1>2 DEF Clean, Current, HoldsArrays
<1>7. ReadStands(m)'
  BY <1>1, <1>3, <1>5 DEF Clean, ReadStands
<1>8. TimeZeroed(m)'
  BY <1>1 DEF Clean, TimeZeroed, MovingSlot
<1>9. Untouched(m)'
  <2>1. id \in DOMAIN Newest(count[a])
    BY <1>1 DEF Places, ArraysOK
  <2> QED BY <2>1, <1>1, <1>2, <1>4 DEF Clean, Untouched
<1>10. Accounted(m)'
  <2> SUFFICES ASSUME \A f \in Flushers : ~flusher[f].reset PROVE Accounted(m)'
    BY <1>1 DEF Accounted
  <2>1. \A b \in Threads : RestTime(b, m)' = RestTime(b, m)
    BY <1>1 DEF RestTime
  <2>2. \A b \in Threads : b # a => RestCount(b, m)' = RestCount(b, m)
    <3>1. \A b \in Threads : b # a => Held(count', b, m) = Held(count, b, m)
      BY <1>5
    <3> QED BY <3>1, <1>1 DEF RestCount
  <2>3. RestCount(a, m)' - called'[a][m] = RestCount(a, m) - called[a][m]
    <3>1. called[a][m] \in Nat /\ Held(count, a, m) \in Nat
      <4>1. called[a][m] \in Nat /\ count \in [Threads -> Versions]
        BY DEF Places, Types
      <4> QED BY <4>1, HeldTyped
    <3>2. CASE m = id
      <4>1. ~CountMoved(flusher, a, m)
        BY <3>2, <1>1, MoverAlone DEF CountMoved
      <4>2. RestCount(a, m)' = Held(count, a, m) + 1 /\ RestCount(a, m) = Held(count, a, m)
        BY <4>1, <3>2, <1>1, <1>5 DEF RestCount
      <4> QED BY <3>1, <3>2, <4>2, <1>4
    <3>3. CASE m # id
      BY <3>3, <1>1, <1>4, <1>5 DEF RestCount
    <3> QED BY <3>2, <3>3
  <2>4. sharedCount'[m] + RestCount(a, m)' - called'[a][m]
          = sharedCount[m] + RestCount(a, m) - called[a][m]
    <3>1. sharedCount[m] \in Nat /\ called[a][m] \in Nat /\ called'[a][m] \in Nat
      BY DEF Places, Types
    <3>2. Held(count, a, m) \in Nat /\ Held(count', a, m) \in Nat
      BY HeldTyped DEF Places, Types
    <3>3. RestCount(a, m) \in Nat /\ RestCount(a, m)' \in Nat
      BY <3>2 DEF RestCount
    <3> QED BY <3>1, <3>3, <2>3, <1>1
  <2>5. Types /\ Types' /\ Accounted(m)
    BY DEF Places, Clean
  <2> QED BY <2>1, <2>2, <2>4, <2>5, <1>1, <1>4, AccountedKept
<1>11. Restarted(m)'
  BY <1>1, <1>4, <1>5 DEF Clean, Restarted, Done, HoldsArrays
<1> QED BY <1>6, <1>7, <1>8, <1>9, <1>10, <1>11 DEF Clean

LEMMA WriteTimeClean ==
  ASSUME Places, Places', RacedSeen, NEW m \in Ids, m \notin raced, Clean(m), NEW a \in Threads,
         WriteTime(a), Watch
  PROVE  Clean(m)'
<1> DEFINE id == hook[a].id
<1>1. /\ flusher' = flusher /\ count' = count /\ sharedCount' = sharedCount
      /\ sharedTime' = sharedTime /\ called' = called /\ hook[a].at = "timing"
  BY DEF WriteTime, shared
<1>2. /\ \A b \in Threads : b # a => time'[b] = time[b]
      /\ \A k : Held(time', a, k) = IF k = id THEN hook[a].read + 1 ELSE Held(time, a, k)
      /\ \A b \in Threads : Len(time'[b]) = Len(time[b])
  BY WriteTimePlaces
<1>3. /\ \A b \in Threads : b # a => hook'[b] = hook[b]
      /\ hook'[a].at = "idle" /\ id \in Ids
  BY DEF Places, Types, WriteTime, IdleHook
<1>4. \A b \in Threads : spent'[b][m] = IF b = a /\ m = id THEN spent[b][m] + 1 ELSE spent[b][m]
  <2>1. spent' = [spent EXCEPT ![a][id] = @ + 1]
    BY DEF WriteTime
  <2>2. spent \in [Threads -> [Ids -> Nat]]
    BY DEF Places, Types
  <2> QED BY <2>1, <2>2, <1>3
<1>5. \A b \in Threads :
        Held(time', b, m) = IF b = a /\ m = id THEN Held(time, b, m) + 1 ELSE Held(time, b, m)
  <2>1. m = id => hook[a].read = Held(time, a, m)
    BY <1>1 DEF Clean, ReadStands
  <2>2. \A b \in Threads : b # a => Held(time', b, m) = Held(time, b, m)
    BY <1>2 DEF Held
  <2> QED BY <1>2, <2>1, <2>2
<1>6. Current(m)'
  BY <1>1, <1>2 DEF Clean, Current, HoldsArrays
<1>7. ReadStands(m)'
  BY <1>1, <1>3, <1>5 DEF Clean, ReadStands
<1>8. TimeZeroed(m)'
  <2> SUFFICES ASSUME NEW f \in Flushers, NEW b \in Threads, MovingSlot(f, b, m),
                      flusher[f].at = "zero_count"
               PROVE  Held(time', b, m) = 0
    BY <1>1 DEF TimeZeroed, MovingSlot
  <2>1. Held(time, b, m) = 0
    BY DEF Clean, TimeZeroed
  <2>2. ~ (b = a /\ m = id)
    BY <1>1, MoverAlone DEF MovingSlot, Moves
  <2> QED BY <2>1, <2>2, <1>5
<1>9. Untouched(m)'
  <2>1. id \in DOMAIN Newest(count[a])
    BY <1>1 DEF Places, ArraysOK
  <2> QED BY <2>1, <1>1, <1>4, <1>5 DEF Clean, Untouched
<1>10. Accounted(m)'
  <2> SUFFICES ASSUME \A f \in Flushers : ~flusher[f].reset PROVE Accounted(m)'
    BY <1>1 DEF Accounted
  <2>1. \A b \in Threads : RestCount(b, m)' = RestCount(b, m)
    BY <1>1 DEF RestCount
  <2>2. \A b \in Threads : b # a => RestTime(b, m)' = RestTime(b, m)
    <3>1. \A b \in Threads : b # a => Held(time', b, m) = Held(time, b, m)
      BY <1>5
    <3> QED BY <3>1, <1>1 DEF RestTime
  <2>3. RestTime(a, m)' - spent'[a][m] = RestTime(a, m) - spent[a][m]
    <3>1. spent[a][m] \in Nat /\ Held(time, a, m) \in Nat
      <4>1. spent[a][m] \in Nat /\ time \in [Threads -> Versions]
        BY DEF Places, Types
      <4> QED BY <4>1, HeldTyped
    <3>2. CASE m = id
      <4>1. ~TimeMoved(flusher, a, m)
        BY <3>2, <1>1, MoverAlone DEF TimeMoved
      <4>2. RestTime(a, m)' = Held(time, a, m) + 1 /\ RestTime(a, m) = Held(time, a, m)
        BY <4>1, <3>2, <1>1, <1>5 DEF RestTime
      <4> QED BY <3>1, <3>2, <4>2, <1>4
    <3>3. CASE m # id
      BY <3>3, <1>1, <1>4, <1>5 DEF RestTime
    <3> QED BY <3>2, <3>3
  <2>4. sharedTime'[m] + RestTime(a, m)' - spent'[a][m]
          = sharedTime[m] + RestTime(a, m) - spent[a][m]
    <3>1. sharedTime[m] \in Nat /\ spent[a][m] \in Nat /\ spent'[a][m] \in Nat
      BY DEF Places, Types
    <3>2. Held(time, a, m) \in Nat /\ Held(time', a, m) \in Nat
      BY HeldTyped DEF Places, Types
    <3>3. RestTime(a, m) \in Nat /\ RestTime(a, m)' \in Nat
      BY <3>2 DEF RestTime
    <3> QED BY <3>1, <3>3, <2>3, <1>1
  <2>5. Types /\ Types' /\ Accounted(m)
    BY DEF Places, Clean
  <2> QED BY <2>1, <2>2, <2>4, <2>5, <1>1, <1>4, AccountedKept
<1>11. Restarted(m)'
  BY <1>1, <1>4, <1>5 DEF Clean, Restarted, Done, HoldsArrays
<1> QED BY <1>6, <1>7, <1>8, <1>9, <1>10, <1>11 DEF Clean

(* Steps of flusher f that touch nothing but its own place, before it moves *)
(* an element.                                                              *)
LEMMA QuietClean ==
  ASSUME RacedSeen, RacedSeen', NEW m \in Ids, m \notin raced, m \notin raced', Clean(m),
         NEW f \in Flushers, \A g \in Flushers : g # f => flusher'[g] = flusher[g],
         UNCHANGED <<buffers, hook, shared, tallies>>,
         flusher[f].at \in {"idle", "next", "take_count", "check"},
         flusher'[f].at \in {"idle", "next", "take_count", "check", "add_time", "clear"},
         flusher[f].reset => flusher'[f].reset,
         \A a \in Threads : HoldsArrays(f, a)' =>
           /\ flusher'[f].timeRef = Len(time[a])
           /\ flusher'[f].at # "take_count" => flusher'[f].countRef = Len(count[a]),
         flusher'[f].reset =>
           /\ \A a \in Threads : Done(f, a, m)' => flusher[f].reset /\ Done(f, a, m)
           /\ ~ (flusher'[f].at = "clear" /\ m < flusher'[f].id)
  PROVE  Clean(m)'
<1>1. /\ count' = count /\ time' = time /\ hook' = hook
      /\ sharedCount' = sharedCount /\ sharedTime' = sharedTime
      /\ called' = called /\ spent' = spent
  BY DEF buffers, shared, tallies
<1>2. Current(m)'
  <2> SUFFICES ASSUME NEW g \in Flushers, NEW a \in Threads, HoldsArrays(g, a)'
               PROVE  /\ flusher'[g].timeRef = Len(time[a])
                      /\ flusher'[g].at # "take_count" => flusher'[g].countRef = Len(count[a])
    BY <1>1 DEF Current
  <2>1. CASE g = f
    BY <2>1
  <2>2. CASE g # f
    <3>1. flusher'[g] = flusher[g] /\ HoldsArrays(g, a)
      BY <2>2 DEF HoldsArrays
    <3> QED BY <3>1 DEF Clean, Current
  <2> QED BY <2>1, <2>2
<1>3. ReadStands(m)' /\ Untouched(m)'
  BY <1>1 DEF Clean, ReadStands, Untouched
<1>4. TimeZeroed(m)'
  <2> SUFFICES ASSUME NEW g \in Flushers, NEW a \in Threads, MovingSlot(g, a, m)',
                      flusher'[g].at = "zero_count"
               PROVE  Held(time, a, m) = 0
    BY <1>1 DEF TimeZeroed
  <2>1. g # f
    OBVIOUS
  <2>2. flusher'[g] = flusher[g] /\ MovingSlot(g, a, m)
    BY <2>1 DEF MovingSlot
  <2> QED BY <2>2 DEF Clean, TimeZeroed
<1>5. Accounted(m)'
  <2>1. (\A g \in Flushers : ~flusher'[g].reset) => (\A g \in Flushers : ~flusher[g].reset)
    OBVIOUS
  <2>2. ASSUME NEW b \in Threads
        PROVE  RestCount(b, m)' = RestCount(b, m) /\ RestTime(b, m)' = RestTime(b, m)
    <3>1. /\ CountMoved(flusher', b, m) <=> CountMoved(flusher, b, m)
          /\ TimeMoved(flusher', b, m) <=> TimeMoved(flusher, b, m)
      <4>1. ~Moves(flusher[f], b, m)
        BY DEF Moves
      <4>2. flusher'[f].at \notin {"add_count", "zero_time", "zero_count"}
        OBVIOUS
      <4> QED BY <4>1, <4>2, RestStep
    <3> QED BY <3>1, <1>1 DEF RestCount, RestTime
  <2> QED BY <2>1, <2>2, <1>1, AccountedSame DEF Clean
<1>6. Restarted(m)'
  <2> SUFFICES ASSUME NEW g \in Flushers, flusher'[g].reset
               PROVE  /\ \A a \in Threads : Done(g, a, m)' =>
                           called[a][m] = Held(count, a, m) /\ spent[a][m] = Held(time, a, m)
                      /\ flusher'[g].at = "clear" /\ m < flusher'[g].id =>
                           sharedCount[m] = 0 /\ sharedTime[m] = 0
    BY <1>1 DEF Restarted
  <2>1. CASE g = f
    BY <2>1 DEF Clean, Restarted
  <2>2. CASE g # f
    <3>1. flusher'[g] = flusher[g]
      BY <2>2
    <3>2. \A a \in Threads : Done(g, a, m)' => Done(g, a, m)
      BY <3>1 DEF Done, HoldsArrays
    <3> QED BY <3>1, <3>2 DEF Clean, Restarted
  <2> QED BY <2>1, <2>2
<1> QED BY <1>2, <1>3, <1>4, <1>5, <1>6 DEF Clean

LEMMA BeginFlushClean ==
  ASSUME Places, RacedSeen, RacedSeen', NEW m \in Ids, m \notin raced, m \notin raced', Clean(m),
         NEW f \in Flushers, NEW reset \in BOOLEAN, BeginFlush(f, reset), Watch
  PROVE  Clean(m)'
<1>1. /\ \A g \in Flushers : g # f => flusher'[g] = flusher[g]
      /\ flusher'[f].at = "next" /\ flusher'[f].reset = reset /\ flusher'[f].todo = Threads
  BY BeginFlushPlaces
<1>2. UNCHANGED <<buffers, hook, shared, tallies>> /\ flusher[f].at = "idle" /\ ~flusher[f].reset
  BY DEF BeginFlush, Places, FlusherOK
<1>3. \A a \in Threads : ~HoldsArrays(f, a)' /\ ~Done(f, a, m)'
  BY <1>1 DEF HoldsArrays, Done
<1> QED BY <1>1, <1>2, <1>3, QuietClean

LEMMA TakeTimeRefClean ==
  ASSUME Places, RacedSeen, RacedSeen', NEW m \in Ids, m \notin raced, m \notin raced', Clean(m),
         NEW f \in Flushers, TakeTimeRef(f), Watch
  PROVE  Clean(m)'
<1>1. PICK a \in flusher[f].todo :
        flusher' = [flusher EXCEPT ![f].at = "take_count", ![f].thread = a,
                                   ![f].todo = @ \ {a}, ![f].timeRef = Len(time[a])]
  BY DEF TakeTimeRef
<1>2. UNCHANGED <<buffers, hook, shared, tallies>> /\ flusher[f].at = "next"
  BY DEF TakeTimeRef
<1>3. /\ \A g \in Flushers : g # f => flusher'[g] = flusher[g]
      /\ flusher'[f].at = "take_count" /\ flusher'[f].reset = flusher[f].reset
      /\ flusher'[f].todo = flusher[f].todo \ {a} /\ flusher'[f].thread = a
      /\ flusher'[f].timeRef = Len(time[a])
  BY <1>1, <1>2, TakeTimeRefPlaces
<1>4. \A b \in Threads : HoldsArrays(f, b)' => b = a
  BY <1>3 DEF HoldsArrays
<1>5. \A b \in Threads : Done(f, b, m)' => Done(f, b, m)
  BY <1>2, <1>3 DEF HoldsArrays, Done
<1> QED BY <1>2, <1>3, <1>4, <1>5, QuietClean

LEMMA TakeCountRefClean ==
  ASSUME Places, RacedSeen, RacedSeen', NEW m \in Ids, m \notin raced, m \notin raced', Clean(m),
         NEW f \in Flushers, TakeCountRef(f), Watch
  PROVE  Clean(m)'
<1> DEFINE a == flusher[f].thread
<1>1. UNCHANGED <<buffers, hook, shared, tallies>> /\ flusher[f].at = "take_count"
  BY DEF TakeCountRef
<1>2. /\ a \in Threads
      /\ \A g \in Flushers : g # f => flusher'[g] = flusher[g]
      /\ flusher'[f].at = "check" /\ flusher'[f].reset = flusher[f].reset
      /\ flusher'[f].todo = flusher[f].todo /\ flusher'[f].thread = a
      /\ flusher'[f].timeRef = flusher[f].timeRef /\ flusher'[f].id = 0
      /\ flusher'[f].countRef = Len(count[a])
  BY TakeCountRefPlaces
<1>3. \A b \in Threads : HoldsArrays(f, b)' => b = a
  BY <1>2 DEF HoldsArrays
<1>4. flusher'[f].timeRef = Len(time[a])
  BY <1>1, <1>2 DEF Clean, Current, HoldsArrays
<1>5. \A b \in Threads : Done(f, b, m)' => Done(f, b, m)
  <2>1. ~ (m < 0)
    BY IdsNat
  <2> QED BY <2>1, <1>1, <1>2 DEF HoldsArrays, Done
<1> QED BY <1>1, <1>2, <1>3, <1>4, <1>5, QuietClean

LEMMA DoNotSkipClean ==
  ASSUME Places, RacedSeen, RacedSeen', NEW m \in Ids, m \notin raced, m \notin raced', Clean(m),
         NEW f \in Flushers, DoNotSkip(f)
  PROVE  Clean(m)'
<1>1. /\ UNCHANGED <<buffers, hook, shared, tallies>> /\ flusher[f].at = "check"
      /\ MoveTo(f, "add_time")
  BY DEF DoNotSkip
<1>2. /\ \A g \in Flushers : g # f => flusher'[g] = flusher[g]
      /\ flusher'[f].at = "add_time" /\ flusher'[f].reset = flusher[f].reset
      /\ flusher'[f].todo = flusher[f].todo /\ flusher'[f].thread = flusher[f].thread
      /\ flusher'[f].timeRef = flusher[f].timeRef
      /\ flusher'[f].countRef = flusher[f].countRef /\ flusher'[f].id = flusher[f].id
  BY <1>1, MovedTo DEF Elements
<1>3. \A b \in Threads : HoldsArrays(f, b)' => HoldsArrays(f, b)
  BY <1>1, <1>2 DEF HoldsArrays
<1>4. \A b \in Threads : HoldsArrays(f, b) =>
        flusher[f].timeRef = Len(time[b]) /\ flusher[f].countRef = Len(count[b])
  BY <1>1 DEF Clean, Current
<1>5. \A b \in Threads : Done(f, b, m)' => Done(f, b, m)
  BY <1>1, <1>2 DEF HoldsArrays, Done
<1> QED BY <1>1, <1>2, <1>3, <1>4, <1>5, QuietClean

LEMMA FinishClean ==
  ASSUME Places, RacedSeen, RacedSeen', NEW m \in Ids, m \notin raced, m \notin raced', Clean(m),
         NEW f \in Flushers, Finish(f), Watch
  PROVE  Clean(m)'
<1>1. /\ UNCHANGED <<buffers, hook, shared, tallies>> /\ flusher[f].at = "next"
      /\ flusher[f].todo = {}
  BY DEF Finish
<1>2. /\ \A g \in Flushers : g # f => flusher'[g] = flusher[g]
      /\ flusher'[f].at \in {"clear", "idle"}
      /\ flusher'[f].reset = flusher[f].reset
      /\ flusher'[f].todo = {} /\ flusher'[f].id = 0
  BY FinishPlaces
<1>3. \A a \in Threads : ~HoldsArrays(f, a)' /\ ~HoldsArrays(f, a)
  BY <1>1, <1>2 DEF HoldsArrays
<1>4. \A a \in Threads : Done(f, a, m)
  BY <1>1, <1>3 DEF Done
<1>5. ~ (m < flusher'[f].id)
  BY <1>2, IdsNat
<1> QED BY <1>1, <1>2, <1>3, <1>4, <1>5, QuietClean

(* Moving on at one element: who holds, moves and has done what is the same. *)
LEMMA ElementMoved ==
  ASSUME Places, NEW m, NEW f \in Flushers, NEW to,
         \/ flusher[f].at = "add_time" /\ to = "add_count"
         \/ flusher[f].at = "add_count" /\ to = "zero_time"
         \/ flusher[f].at = "zero_time" /\ to = "zero_count",
         MoveTo(f, to)
  PROVE  /\ flusher[f].thread \in Threads /\ flusher'[f].at = to
         /\ \A g \in Flushers : g # f => flusher'[g] = flusher[g]
         /\ \A g \in Flushers :
              /\ flusher'[g].reset = flusher[g].reset
              /\ flusher'[g].id = flusher[g].id
              /\ flusher'[g].timeRef = flusher[g].timeRef
              /\ flusher'[g].countRef = flusher[g].countRef
              /\ flusher'[g].at = "clear" <=> flusher[g].at = "clear"
              /\ flusher'[g].at = "take_count" <=> flusher[g].at = "take_count"
         /\ \A g \in Flushers, b \in Threads :
              /\ HoldsArrays(g, b)' <=> HoldsArrays(g, b)
              /\ Moves(flusher'[g], b, m) <=> Moves(flusher[g], b, m)
              /\ Done(g, b, m)' <=> Done(g, b, m)
         /\ Moves(flusher[f], flusher[f].thread, flusher[f].id)
         /\ HoldsArrays(f, flusher[f].thread)
<1>1. to \in Elements /\ flusher[f].at \in Elements
  BY DEF Elements
<1>2. /\ flusher'[f].at = to /\ \A g \in Flushers : g # f => flusher'[g] = flusher[g]
      /\ flusher'[f].reset = flusher[f].reset
      /\ flusher'[f].todo = flusher[f].todo /\ flusher'[f].thread = flusher[f].thread
      /\ flusher'[f].timeRef = flusher[f].timeRef
      /\ flusher'[f].countRef = flusher[f].countRef /\ flusher'[f].id = flusher[f].id
  BY <1>1, MovedTo
<1>3. flusher[f].thread \in Threads
  BY AtElement
<1>4. ASSUME NEW g \in Flushers
      PROVE  /\ flusher'[g].reset = flusher[g].reset
             /\ flusher'[g].id = flusher[g].id /\ flusher'[g].todo = flusher[g].todo
             /\ flusher'[g].thread = flusher[g].thread
             /\ flusher'[g].timeRef = flusher[g].timeRef
             /\ flusher'[g].countRef = flusher[g].countRef
             /\ flusher'[g].at = "clear" <=> flusher[g].at = "clear"
             /\ flusher'[g].at = "idle" <=> flusher[g].at = "idle"
             /\ flusher'[g].at = "next" <=> flusher[g].at = "next"
             /\ flusher'[g].at = "take_count" <=> flusher[g].at = "take_count"
             /\ flusher'[g].at \in {"add_time", "add_count", "zero_time", "zero_count"}
                  <=> flusher[g].at \in {"add_time", "add_count", "zero_time", "zero_count"}
  <2>1. CASE g = f
    BY <2>1, <1>2
  <2>2. CASE g # f
    BY <2>2, <1>2
  <2> QED BY <2>1, <2>2
<1>5. \A g \in Flushers, b \in Threads : HoldsArrays(g, b)' <=> HoldsArrays(g, b)
  BY <1>4 DEF HoldsArrays
<1>6. \A g \in Flushers, b \in Threads : Moves(flusher'[g], b, m) <=> Moves(flusher[g], b, m)
  BY <1>4 DEF Moves
<1>7. \A g \in Flushers, b \in Threads : Done(g, b, m)' <=> Done(g, b, m)
  BY <1>4, <1>5 DEF Done
<1>8. Moves(flusher[f], flusher[f].thread, flusher[f].id) /\ HoldsArrays(f, flusher[f].thread)
  BY DEF Moves, HoldsArrays
<1> QED BY <1>2, <1>3, <1>4, <1>5, <1>6, <1>7, <1>8

(* A flusher that looks at an element holds what it reads. *)
LEMMA HeldRead ==
  ASSUME Places, NEW m \in Ids, Clean(m), NEW f \in Flushers, flusher[f].at \in Elements
  PROVE  LET here == flusher[f]
             a    == flusher[f].thread
         IN  /\ here.timeRef = Len(time[a]) /\ here.countRef = Len(count[a])
             /\ time[a][here.timeRef][here.id] = Held(time, a, here.id)
             /\ count[a][here.countRef][here.id] = Held(count, a, here.id)
<1> DEFINE a == flusher[f].thread
<1>1. a \in Threads /\ HoldsArrays(f, a) /\ flusher[f].at # "take_count"
  BY AtElement DEF HoldsArrays, Elements
<1>2. flusher[f].timeRef = Len(time[a]) /\ flusher[f].countRef = Len(count[a])
  BY <1>1 DEF Clean, Current
<1>3. flusher[f].id \in DOMAIN Newest(time[a]) /\ flusher[f].id \in DOMAIN Newest(count[a])
  BY AtElement DEF Elements
<1> QED BY <1>2, <1>3 DEF Held, Newest

(* Adding the element of one id to the shared statistics. *)
LEMMA Added ==
  ASSUME NEW T \in [Ids -> Nat], NEW k \in Ids, NEW n \in Nat, NEW m \in Ids
  PROVE  [T EXCEPT ![k] = @ + n][m] = IF m = k THEN T[m] + n ELSE T[m]
OBVIOUS

LEMMA AddTimeClean ==
  ASSUME Places, Places', RacedSeen, RacedSeen', NEW m \in Ids, m \notin raced, m \notin raced',
         Clean(m), NEW f \in Flushers, AddTime(f)
  PROVE  Clean(m)'
<1>0. PICK a \in Threads : a = flusher[f].thread
  <2>1. flusher[f].at \in Elements
    BY DEF AddTime, Elements
  <2> QED BY <2>1, AtElement DEF Elements
<1> DEFINE id == flusher[f].id
           n  == time[a][flusher[f].timeRef][id]
<1>1. /\ count' = count /\ time' = time /\ hook' = hook /\ sharedCount' = sharedCount
      /\ called' = called /\ spent' = spent
      /\ flusher[f].at = "add_time" /\ MoveTo(f, "add_count")
      /\ sharedTime' = [sharedTime EXCEPT ![id] = @ + n]
  BY <1>0 DEF AddTime, buffers, tallies
<1>2. /\ flusher'[f].at = "add_count"
      /\ \A g \in Flushers : g # f => flusher'[g] = flusher[g]
      /\ \A g \in Flushers :
           /\ flusher'[g].reset = flusher[g].reset
           /\ flusher'[g].id = flusher[g].id
           /\ flusher'[g].timeRef = flusher[g].timeRef
           /\ flusher'[g].countRef = flusher[g].countRef
           /\ flusher'[g].at = "clear" <=> flusher[g].at = "clear"
           /\ flusher'[g].at = "take_count" <=> flusher[g].at = "take_count"
      /\ \A g \in Flushers, b \in Threads :
           /\ HoldsArrays(g, b)' <=> HoldsArrays(g, b)
           /\ Moves(flusher'[g], b, m) <=> Moves(flusher[g], b, m)
           /\ Done(g, b, m)' <=> Done(g, b, m)
      /\ Moves(flusher[f], a, id)
  BY <1>0, <1>1, ElementMoved
<1>3. n = Held(time, a, id) /\ n \in Nat /\ id \in Ids
  <2>1. flusher[f].at \in Elements
    BY <1>1 DEF Elements
  <2> QED BY <2>1, <1>0, HeldRead, AtElement DEF Elements
<1> HIDE DEF n
<1>4. sharedTime'[m] = IF m = id THEN sharedTime[m] + n ELSE sharedTime[m]
  <2>1. sharedTime \in [Ids -> Nat]
    BY DEF Places, Types
  <2> QED BY <2>1, <1>1, <1>3, Added
<1>5. Current(m)'
  BY <1>1, <1>2 DEF Clean, Current
<1>6. ReadStands(m)' /\ Untouched(m)'
  BY <1>1 DEF Clean, ReadStands, Untouched
<1>7. TimeZeroed(m)'
  <2> SUFFICES ASSUME NEW g \in Flushers, NEW b \in Threads, MovingSlot(g, b, m)',
                      flusher'[g].at = "zero_count"
               PROVE  Held(time, b, m) = 0
    BY <1>1 DEF TimeZeroed
  <2>1. flusher'[g] = flusher[g] /\ MovingSlot(g, b, m)
    BY <1>2 DEF MovingSlot
  <2> QED BY <2>1 DEF Clean, TimeZeroed
<1>8. Accounted(m)'
  <2> SUFFICES ASSUME \A g \in Flushers : ~flusher[g].reset PROVE Accounted(m)'
    BY <1>2 DEF Accounted
  <2>1. ASSUME NEW b \in Threads, b # a \/ m # id
        PROVE  RestTime(b, m)' = RestTime(b, m)
    <3>1. ~Moves(flusher[f], b, m)
      BY <2>1, <1>0 DEF Moves
    <3>2. TimeMoved(flusher', b, m) <=> TimeMoved(flusher, b, m)
      BY <3>1, <1>2, RestStep
    <3> QED BY <3>2, <1>1 DEF RestTime
  <2>2. ASSUME NEW b \in Threads PROVE RestCount(b, m)' = RestCount(b, m)
    <3>1. CountMoved(flusher', b, m) <=> CountMoved(flusher, b, m)
      BY <1>1, <1>2, RestStep DEF Moves
    <3> QED BY <3>1, <1>1 DEF RestCount
  <2>3. m = id => RestTime(a, m) = Held(time, a, m) /\ RestTime(a, m)' = 0
    <3> SUFFICES ASSUME m = id PROVE RestTime(a, m) = Held(time, a, m) /\ RestTime(a, m)' = 0
      OBVIOUS
    <3>1. Moves(flusher[f], a, m) /\ Moves(flusher'[f], a, m)
      BY <1>2
    <3>2. TimeMoved(flusher', a, m) /\ ~TimeMoved(flusher, a, m)
      BY <3>1, <1>1, <1>2, RestStep
    <3> QED BY <3>2 DEF RestTime
  <2>4. /\ sharedTime[m] \in Nat /\ spent[a][m] \in Nat
        /\ sharedCount[m] \in Nat /\ called[a][m] \in Nat
    BY <1>2 DEF Places, Types
  <2>5. Held(time, a, m) \in Nat
    <3>1. time \in [Threads -> Versions]
      BY DEF Places, Types
    <3> QED BY <3>1, <1>2, HeldTyped
  <2>6. sharedTime'[m] + RestTime(a, m)' - spent'[a][m]
          = sharedTime[m] + RestTime(a, m) - spent[a][m]
    <3>1. CASE m = id
      BY <3>1, <2>3, <2>4, <2>5, <1>1, <1>3, <1>4
    <3>2. CASE m # id
      BY <3>2, <2>1, <1>1, <1>2, <1>4
    <3> QED BY <3>1, <3>2
  <2>7. sharedCount'[m] + RestCount(a, m)' - called'[a][m]
          = sharedCount[m] + RestCount(a, m) - called[a][m]
    BY <2>2, <1>1
  <2>8. Types /\ Types' /\ Accounted(m)
    BY DEF Places, Clean
  <2> QED BY <2>1, <2>2, <2>6, <2>7, <2>8, <1>1, <1>2, AccountedKept
<1>9. Restarted(m)'
  <2> SUFFICES ASSUME NEW g \in Flushers, flusher[g].reset
               PROVE  /\ \A b \in Threads : Done(g, b, m) =>
                           called[b][m] = Held(count, b, m) /\ spent[b][m] = Held(time, b, m)
                      /\ flusher[g].at = "clear" /\ m < flusher[g].id =>
                           sharedCount[m] = 0 /\ sharedTime'[m] = 0
    BY <1>1, <1>2 DEF Restarted
  <2>1. flusher[g].at = "clear" => m # id
    <3>1. m = id => g = f
      BY <1>2, MoverAlone
    <3> QED BY <3>1, <1>1
  <2> QED BY <2>1, <1>4 DEF Clean, Restarted
<1> QED BY <1>5, <1>6, <1>7, <1>8, <1>9 DEF Clean

LEMMA AddCountClean ==
  ASSUME Places, Places', RacedSeen, RacedSeen', NEW m \in Ids, m \notin raced, m \notin raced',
         Clean(m), NEW f \in Flushers, AddCount(f)
  PROVE  Clean(m)'
<1>0. PICK a \in Threads : a = flusher[f].thread
  <2>1. flusher[f].at \in Elements
    BY DEF AddCount, Elements
  <2> QED BY <2>1, AtElement DEF Elements
<1> DEFINE id == flusher[f].id
           n  == count[a][flusher[f].countRef][id]
<1>1. /\ count' = count /\ time' = time /\ hook' = hook /\ sharedTime' = sharedTime
      /\ called' = called /\ spent' = spent
      /\ flusher[f].at = "add_count" /\ MoveTo(f, "zero_time")
      /\ sharedCount' = [sharedCount EXCEPT ![id] = @ + n]
  BY <1>0 DEF AddCount, buffers, tallies
<1>2. /\ flusher'[f].at = "zero_time"
      /\ \A g \in Flushers : g # f => flusher'[g] = flusher[g]
      /\ \A g \in Flushers :
           /\ flusher'[g].reset = flusher[g].reset
           /\ flusher'[g].id = flusher[g].id
           /\ flusher'[g].timeRef = flusher[g].timeRef
           /\ flusher'[g].countRef = flusher[g].countRef
           /\ flusher'[g].at = "clear" <=> flusher[g].at = "clear"
           /\ flusher'[g].at = "take_count" <=> flusher[g].at = "take_count"
      /\ \A g \in Flushers, b \in Threads :
           /\ HoldsArrays(g, b)' <=> HoldsArrays(g, b)
           /\ Moves(flusher'[g], b, m) <=> Moves(flusher[g], b, m)
           /\ Done(g, b, m)' <=> Done(g, b, m)
      /\ Moves(flusher[f], a, id)
  BY <1>0, <1>1, ElementMoved
<1>3. n = Held(count, a, id) /\ n \in Nat /\ id \in Ids
  <2>1. flusher[f].at \in Elements
    BY <1>1 DEF Elements
  <2> QED BY <2>1, <1>0, HeldRead, AtElement DEF Elements
<1> HIDE DEF n
<1>4. sharedCount'[m] = IF m = id THEN sharedCount[m] + n ELSE sharedCount[m]
  <2>1. sharedCount \in [Ids -> Nat]
    BY DEF Places, Types
  <2> QED BY <2>1, <1>1, <1>3, Added
<1>5. Current(m)'
  BY <1>1, <1>2 DEF Clean, Current
<1>6. ReadStands(m)' /\ Untouched(m)'
  BY <1>1 DEF Clean, ReadStands, Untouched
<1>7. TimeZeroed(m)'
  <2> SUFFICES ASSUME NEW g \in Flushers, NEW b \in Threads, MovingSlot(g, b, m)',
                      flusher'[g].at = "zero_count"
               PROVE  Held(time, b, m) = 0
    BY <1>1 DEF TimeZeroed
  <2>1. flusher'[g] = flusher[g] /\ MovingSlot(g, b, m)
    BY <1>2 DEF MovingSlot
  <2> QED BY <2>1 DEF Clean, TimeZeroed
<1>8. Accounted(m)'
  <2> SUFFICES ASSUME \A g \in Flushers : ~flusher[g].reset PROVE Accounted(m)'
    BY <1>2 DEF Accounted
  <2>1. ASSUME NEW b \in Threads, b # a \/ m # id
        PROVE  RestCount(b, m)' = RestCount(b, m)
    <3>1. ~Moves(flusher[f], b, m)
      BY <2>1, <1>0 DEF Moves
    <3>2. CountMoved(flusher', b, m) <=> CountMoved(flusher, b, m)
      BY <3>1, <1>2, RestStep
    <3> QED BY <3>2, <1>1 DEF RestCount
  <2>2. ASSUME NEW b \in Threads PROVE RestTime(b, m)' = RestTime(b, m)
    <3>1. TimeMoved(flusher', b, m) <=> TimeMoved(flusher, b, m)
      BY <1>1, <1>2, RestStep DEF Moves
    <3> QED BY <3>1, <1>1 DEF RestTime
  <2>3. m = id => RestCount(a, m) = Held(count, a, m) /\ RestCount(a, m)' = 0
    <3> SUFFICES ASSUME m = id PROVE RestCount(a, m) = Held(count, a, m) /\ RestCount(a, m)' = 0
      OBVIOUS
    <3>1. Moves(flusher[f], a, m) /\ Moves(flusher'[f], a, m)
      BY <1>2
    <3>2. CountMoved(flusher', a, m) /\ ~CountMoved(flusher, a, m)
      BY <3>1, <1>1, <1>2, RestStep
    <3> QED BY <3>2 DEF RestCount
  <2>4. /\ sharedCount[m] \in Nat /\ called[a][m] \in Nat
        /\ sharedTime[m] \in Nat /\ spent[a][m] \in Nat
    BY <1>2 DEF Places, Types
  <2>5. Held(count, a, m) \in Nat
    <3>1. count \in [Threads -> Versions]
      BY DEF Places, Types
    <3> QED BY <3>1, <1>2, HeldTyped
  <2>6. sharedCount'[m] + RestCount(a, m)' - called'[a][m]
          = sharedCount[m] + RestCount(a, m) - called[a][m]
    <3>1. CASE m = id
      BY <3>1, <2>3, <2>4, <2>5, <1>1, <1>3, <1>4
    <3>2. CASE m # id
      BY <3>2, <2>1, <1>1, <1>2, <1>4
    <3> QED BY <3>1, <3>2
  <2>7. sharedTime'[m] + RestTime(a, m)' - spent'[a][m]
          = sharedTime[m] + RestTime(a, m) - spent[a][m]
    BY <2>2, <1>1
  <2>8. Types /\ Types' /\ Accounted(m)
    BY DEF Places, Clean
  <2> QED BY <2>1, <2>2, <2>6, <2>7, <2>8, <1>1, <1>2, AccountedKept
<1>9. Restarted(m)'
  <2> SUFFICES ASSUME NEW g \in Flushers, flusher[g].reset
               PROVE  /\ \A b \in Threads : Done(g, b, m) =>
                           called[b][m] = Held(count, b, m) /\ spent[b][m] = Held(time, b, m)
                      /\ flusher[g].at = "clear" /\ m < flusher[g].id =>
                           sharedCount'[m] = 0 /\ sharedTime[m] = 0
    BY <1>1, <1>2 DEF Restarted
  <2>1. flusher[g].at = "clear" => m # id
    <3>1. m = id => g = f
      BY <1>2, MoverAlone
    <3> QED BY <3>1, <1>1
  <2> QED BY <2>1, <1>4 DEF Clean, Restarted
<1> QED BY <1>5, <1>6, <1>7, <1>8, <1>9 DEF Clean

LEMMA ZeroTimeClean ==
  ASSUME Places, Places', RacedSeen, RacedSeen', NEW m \in Ids, m \notin raced, m \notin raced',
         Clean(m), NEW f \in Flushers, ZeroTime(f), Watch
  PROVE  Clean(m)'
<1>0. PICK a \in Threads : a = flusher[f].thread
  <2>1. flusher[f].at \in Elements
    BY DEF ZeroTime, Elements
  <2> QED BY <2>1, AtElement DEF Elements
<1> DEFINE id == flusher[f].id
<1>1. /\ count' = count /\ hook' = hook /\ sharedCount' = sharedCount
      /\ sharedTime' = sharedTime /\ called' = called /\ spent' = spent
      /\ flusher[f].at = "zero_time" /\ MoveTo(f, "zero_count")
  BY <1>0 DEF ZeroTime, shared, tallies
<1>2. /\ flusher'[f].at = "zero_count"
      /\ \A g \in Flushers : g # f => flusher'[g] = flusher[g]
      /\ \A g \in Flushers :
           /\ flusher'[g].reset = flusher[g].reset
           /\ flusher'[g].id = flusher[g].id
           /\ flusher'[g].timeRef = flusher[g].timeRef
           /\ flusher'[g].countRef = flusher[g].countRef
           /\ flusher'[g].at = "clear" <=> flusher[g].at = "clear"
           /\ flusher'[g].at = "take_count" <=> flusher[g].at = "take_count"
      /\ \A g \in Flushers, b \in Threads :
           /\ HoldsArrays(g, b)' <=> HoldsArrays(g, b)
           /\ Moves(flusher'[g], b, m) <=> Moves(flusher[g], b, m)
           /\ Done(g, b, m)' <=> Done(g, b, m)
      /\ Moves(flusher[f], a, id) /\ HoldsArrays(f, a)
  BY <1>0, <1>1, ElementMoved
<1>3. /\ \A b \in Threads : Len(time'[b]) = Len(time[b])
      /\ \A b \in Threads : Held(time', b, m) = IF b = a /\ m = id THEN 0 ELSE Held(time, b, m)
  <2>1. /\ \A b \in Threads : b # a => time'[b] = time[b]
        /\ \A k : Held(time', a, k) =
                    IF flusher[f].timeRef = Len(time[a]) /\ k = id THEN 0 ELSE Held(time, a, k)
        /\ \A b \in Threads : Len(time'[b]) = Len(time[b])
    BY <1>0, ZeroTimePlaces
  <2>2. flusher[f].timeRef = Len(time[a])
    BY <1>2 DEF Clean, Current
  <2>3. \A b \in Threads : b # a => Held(time', b, m) = Held(time, b, m)
    BY <2>1 DEF Held
  <2> QED BY <2>1, <2>2, <2>3
<1>4. Current(m)'
  BY <1>1, <1>2, <1>3 DEF Clean, Current
<1>5. ReadStands(m)'
  <2>1. \A b \in Threads : b = a /\ m = id => ~ (hook[b].at = "timing" /\ hook[b].id = m)
    BY <1>2, MoverAlone
  <2> QED BY <2>1, <1>1, <1>3 DEF Clean, ReadStands
<1>6. TimeZeroed(m)'
  <2> SUFFICES ASSUME NEW g \in Flushers, NEW b \in Threads, MovingSlot(g, b, m)',
                      flusher'[g].at = "zero_count", ~ (b = a /\ m = id)
               PROVE  Held(time, b, m) = 0
    BY <1>3 DEF TimeZeroed
  <2>1. Moves(flusher[g], b, m)
    BY <1>2 DEF MovingSlot, Moves
  <2>2. g # f
    BY <2>1, <1>0 DEF Moves
  <2>3. flusher'[g] = flusher[g] /\ MovingSlot(g, b, m)
    BY <1>2, <2>2 DEF MovingSlot
  <2> QED BY <2>3 DEF Clean, TimeZeroed
<1>7. Untouched(m)'
  BY <1>1, <1>3 DEF Clean, Untouched
<1>8. Accounted(m)'
  <2>1. ASSUME NEW b \in Threads
        PROVE  RestCount(b, m)' = RestCount(b, m) /\ RestTime(b, m)' = RestTime(b, m)
    <3>1. /\ CountMoved(flusher', b, m) <=> CountMoved(flusher, b, m)
          /\ TimeMoved(flusher', b, m) <=> TimeMoved(flusher, b, m)
      BY <1>1, <1>2, RestStep
    <3>2. b = a /\ m = id => TimeMoved(flusher, b, m)
      BY <1>1, <1>2 DEF TimeMoved
    <3>3. RestCount(b, m)' = RestCount(b, m)
      BY <3>1, <1>1 DEF RestCount
    <3>4. RestTime(b, m)' = RestTime(b, m)
      BY <3>1, <3>2, <1>3 DEF RestTime
    <3> QED BY <3>3, <3>4
  <2> QED BY <2>1, <1>1, <1>2, AccountedSame DEF Clean
<1>9. Restarted(m)'
  <2> SUFFICES ASSUME NEW g \in Flushers, flusher[g].reset
               PROVE  /\ \A b \in Threads : Done(g, b, m) =>
                           called[b][m] = Held(count, b, m) /\ spent[b][m] = Held(time', b, m)
                      /\ flusher[g].at = "clear" /\ m < flusher[g].id =>
                           sharedCount[m] = 0 /\ sharedTime[m] = 0
    BY <1>1, <1>2 DEF Restarted
  <2>1. \A b \in Threads : Done(g, b, m) => ~ (b = a /\ m = id)
    <3>1. m = id => g = f
      BY <1>2, MoverAlone
    <3>2. ~ (m < m)
      BY IdsNat
    <3> QED BY <3>1, <3>2, <1>2 DEF Done
  <2> QED BY <2>1, <1>3 DEF Clean, Restarted
<1> QED BY <1>4, <1>5, <1>6, <1>7, <1>8, <1>9 DEF Clean

(* Leaving an element for the next one, or the buffer: a reset is then done *)
(* with the element left and with those the arrays are too short for.       *)
LEMMA NextIdDone ==
  ASSUME Places, RacedSeen, NEW m \in Ids, m \notin raced, Clean(m), NEW f \in Flushers,
         flusher[f].at \in {"check", "zero_count"}, NextId(f), NEW a, a = flusher[f].thread
  PROVE  /\ a \in Threads /\ flusher[f].id \in Ids /\ HoldsArrays(f, a)
         /\ flusher[f].id \in DOMAIN Newest(count[a])
         /\ \A g \in Flushers : g # f => flusher'[g] = flusher[g]
         /\ flusher'[f].at \in {"check", "next"} /\ flusher'[f].reset = flusher[f].reset
         /\ \A g \in Flushers : /\ flusher'[g].timeRef = flusher[g].timeRef
                                /\ flusher'[g].countRef = flusher[g].countRef
                                /\ flusher'[g].reset = flusher[g].reset
         /\ \A g \in Flushers : flusher[g].at = "take_count" => flusher'[g].at = "take_count"
         /\ \A g \in Flushers, b \in Threads : HoldsArrays(g, b)' => HoldsArrays(g, b)
         /\ \A g \in Flushers, b \in Threads :
              Moves(flusher'[g], b, m) => g # f /\ Moves(flusher[g], b, m)
         /\ \A g \in Flushers, b \in Threads : g # f => (Done(g, b, m)' <=> Done(g, b, m))
         /\ \A b \in Threads : Done(f, b, m)' =>
              Done(f, b, m) \/ (b = a /\ (m = flusher[f].id \/ m \notin DOMAIN Newest(count[a])))
<1> DEFINE id == flusher[f].id
<1>1. /\ a \in Threads /\ id \in Ids /\ id \in Nat /\ m \in Nat
      /\ id \in DOMAIN Newest(count[a]) /\ time[a] \in Versions /\ count[a] \in Versions
  BY AtElement, IdsNat
<1>2. HoldsArrays(f, a)
  BY DEF HoldsArrays
<1>3. /\ \A g \in Flushers : g # f => flusher'[g] = flusher[g]
      /\ flusher'[f].at \in {"check", "next"}
      /\ flusher'[f].reset = flusher[f].reset /\ flusher'[f].todo = flusher[f].todo
      /\ flusher'[f].thread = a
      /\ flusher'[f].timeRef = flusher[f].timeRef /\ flusher'[f].countRef = flusher[f].countRef
      /\ flusher'[f].at = "check" => flusher'[f].id = id + 1
      /\ flusher'[f].at = "next" => \A k \in Ids : k > id =>
           k \notin DOMAIN time[a][flusher[f].timeRef]
             \/ k \notin DOMAIN count[a][flusher[f].countRef]
  BY NextIdStep
<1>4. /\ \A g \in Flushers : /\ flusher'[g].timeRef = flusher[g].timeRef
                             /\ flusher'[g].countRef = flusher[g].countRef
                             /\ flusher'[g].reset = flusher[g].reset
      /\ \A g \in Flushers : flusher[g].at = "take_count" => flusher'[g].at = "take_count"
  BY <1>3
<1>5. \A g \in Flushers, b \in Threads : HoldsArrays(g, b)' => HoldsArrays(g, b)
  BY <1>3 DEF HoldsArrays
<1>6. \A g \in Flushers, b \in Threads :
        Moves(flusher'[g], b, m) => g # f /\ Moves(flusher[g], b, m)
  BY <1>3 DEF Moves
<1>7. \A g \in Flushers, b \in Threads : g # f => (Done(g, b, m)' <=> Done(g, b, m))
  BY <1>3 DEF Done, HoldsArrays
<1>8. ASSUME NEW b \in Threads, Done(f, b, m)'
      PROVE  Done(f, b, m) \/ (b = a /\ (m = id \/ m \notin DOMAIN Newest(count[a])))
  <2>1. b \notin flusher[f].todo
    BY <1>3, <1>8 DEF Done
  <2>2. CASE b # a
    BY <2>1, <2>2 DEF Done, HoldsArrays
  <2>3. CASE b = a /\ m < id
    BY <2>1, <2>3 DEF Done
  <2>4. CASE b = a /\ m > id
    <3>1. flusher'[f].at = "next"
      <4>1. flusher'[f].at = "check" => HoldsArrays(f, b)'
        BY <1>3, <2>4 DEF HoldsArrays
      <4>2. flusher'[f].at = "check" => m < id + 1
        BY <4>1, <1>3, <1>8 DEF Done
      <4> QED BY <4>2, <2>4, <1>1, <1>3
    <3>2. flusher[f].timeRef = Len(time[a]) /\ flusher[f].countRef = Len(count[a])
      BY <1>1, <1>2 DEF Clean, Current
    <3>3. DOMAIN Newest(time[a]) = DOMAIN Newest(count[a])
      <4>1. hook[a].at # "grow_count"
        BY <1>1, <1>2, GrowerAlone
      <4> QED BY <4>1, <1>1 DEF Places, ArraysOK
    <3>4. m \notin DOMAIN time[a][flusher[f].timeRef] \/ m \notin DOMAIN count[a][flusher[f].countRef]
      BY <1>3, <2>4, <3>1
    <3> QED BY <2>4, <3>2, <3>3, <3>4 DEF Newest
  <2> QED BY <2>2, <2>3, <2>4, <1>1
<1> QED BY <1>1, <1>2, <1>3, <1>4, <1>5, <1>6, <1>7, <1>8

(* A reset sets the tallies of the element it leaves, nobody else's. *)
LEMMA RetallyStep ==
  ASSUME Types, NEW f \in Flushers, NEW a \in Threads, a = flusher[f].thread,
         NEW n \in Nat, Retally(f, 0, n), NEW b \in Threads, NEW m \in Ids
  PROVE  IF flusher[f].reset /\ b = a /\ m = flusher[f].id
         THEN called'[b][m] = 0 /\ spent'[b][m] = n
         ELSE called'[b][m] = called[b][m] /\ spent'[b][m] = spent[b][m]
<1>1. CASE flusher[f].reset
  <2>1. /\ called' = [called EXCEPT ![a][flusher[f].id] = 0]
        /\ spent' = [spent EXCEPT ![a][flusher[f].id] = n]
    BY <1>1 DEF Retally
  <2> QED BY <2>1, <1>1 DEF Types
<1>2. CASE ~flusher[f].reset
  BY <1>2 DEF Retally, tallies
<1> QED BY <1>1, <1>2

LEMMA SkipClean ==
  ASSUME Places, Places', OneReset, RacedSeen, RacedSeen', NEW m \in Ids,
         m \notin raced, m \notin raced', Clean(m), NEW f \in Flushers, Skip(f)
  PROVE  Clean(m)'
<1> DEFINE id == flusher[f].id
<1>0. PICK a : a = flusher[f].thread
  OBVIOUS
<1>1. /\ count' = count /\ time' = time /\ hook' = hook
      /\ sharedCount' = sharedCount /\ sharedTime' = sharedTime
      /\ flusher[f].at = "check" /\ NextId(f) /\ Retally(f, 0, Newest(time[a])[id])
      /\ count[a][flusher[f].countRef][id] = 0
  BY <1>0 DEF Skip, CountIsZero, buffers, shared
<1>2. /\ a \in Threads /\ id \in Ids /\ HoldsArrays(f, a)
      /\ id \in DOMAIN Newest(count[a])
      /\ \A g \in Flushers : g # f => flusher'[g] = flusher[g]
      /\ flusher'[f].at \in {"check", "next"} /\ flusher'[f].reset = flusher[f].reset
      /\ \A g \in Flushers : /\ flusher'[g].timeRef = flusher[g].timeRef
                             /\ flusher'[g].countRef = flusher[g].countRef
                             /\ flusher'[g].reset = flusher[g].reset
      /\ \A g \in Flushers : flusher[g].at = "take_count" => flusher'[g].at = "take_count"
      /\ \A g \in Flushers, b \in Threads : HoldsArrays(g, b)' => HoldsArrays(g, b)
      /\ \A g \in Flushers, b \in Threads :
           Moves(flusher'[g], b, m) => g # f /\ Moves(flusher[g], b, m)
      /\ \A g \in Flushers, b \in Threads : g # f => (Done(g, b, m)' <=> Done(g, b, m))
      /\ \A b \in Threads : Done(f, b, m)' =>
           Done(f, b, m) \/ (b = a /\ (m = id \/ m \notin DOMAIN Newest(count[a])))
  BY <1>0, <1>1, NextIdDone
<1>3. /\ Held(count, a, id) = 0 /\ Newest(time[a])[id] = Held(time, a, id)
      /\ Newest(time[a])[id] \in Nat
  <2>1. id \in DOMAIN Newest(time[a]) /\ Newest(time[a])[id] \in Nat
    BY <1>0, <1>1, AtElement
  <2>2. count[a][flusher[f].countRef][id] = Held(count, a, id)
    BY <1>0, <1>1, HeldRead DEF Elements
  <2> QED BY <2>1, <2>2, <1>1 DEF Held
<1>4. \A b \in Threads :
        IF flusher[f].reset /\ b = a /\ m = id
        THEN called'[b][m] = 0 /\ spent'[b][m] = Held(time, a, id)
        ELSE called'[b][m] = called[b][m] /\ spent'[b][m] = spent[b][m]
  <2>1. Types
    BY DEF Places
  <2> QED BY <2>1, <1>0, <1>1, <1>2, <1>3, RetallyStep
<1>5. Current(m)'
  BY <1>1, <1>2 DEF Clean, Current
<1>6. ReadStands(m)'
  BY <1>1 DEF Clean, ReadStands
<1>7. TimeZeroed(m)'
  BY <1>1, <1>2 DEF Clean, TimeZeroed, MovingSlot, Moves
<1>8. Untouched(m)'
  BY <1>1, <1>2, <1>4 DEF Clean, Untouched
<1>9. Accounted(m)'
  <2> SUFFICES ASSUME \A g \in Flushers : ~flusher[g].reset PROVE Accounted(m)'
    BY <1>2 DEF Accounted
  <2>1. ASSUME NEW b \in Threads
        PROVE  RestCount(b, m)' = RestCount(b, m) /\ RestTime(b, m)' = RestTime(b, m)
    <3>1. ~Moves(flusher[f], b, m) /\ ~Moves(flusher'[f], b, m)
      BY <1>1, <1>2 DEF Moves
    <3>2. /\ CountMoved(flusher', b, m) <=> CountMoved(flusher, b, m)
          /\ TimeMoved(flusher', b, m) <=> TimeMoved(flusher, b, m)
      BY <3>1, <1>2, MovedSame
    <3> QED BY <3>2, <1>1 DEF RestCount, RestTime
  <2> QED BY <2>1, <1>1, <1>4, AccountedSame DEF Clean
<1>10. Restarted(m)'
  <2> SUFFICES ASSUME NEW g \in Flushers, flusher[g].reset
               PROVE  /\ \A b \in Threads : Done(g, b, m)' =>
                           called'[b][m] = Held(count, b, m) /\ spent'[b][m] = Held(time, b, m)
                      /\ flusher'[g].at = "clear" /\ m < flusher'[g].id =>
                           sharedCount[m] = 0 /\ sharedTime[m] = 0
    BY <1>1, <1>2 DEF Restarted
  <2>1. CASE g = f
    <3>1. ASSUME NEW b \in Threads, Done(f, b, m)'
          PROVE  called'[b][m] = Held(count, b, m) /\ spent'[b][m] = Held(time, b, m)
      <4>1. CASE b = a /\ m = id
        BY <4>1, <2>1, <1>3, <1>4
      <4>2. CASE ~ (b = a /\ m = id) /\ Done(f, b, m)
        BY <4>2, <2>1, <1>4 DEF Clean, Restarted
      <4>3. CASE b = a /\ m # id /\ m \notin DOMAIN Newest(count[a])
        <5>1. called[a][m] = 0 /\ spent[a][m] = 0 /\ Held(time, a, m) = 0
          BY <4>3, <1>2 DEF Clean, Untouched
        <5>2. Held(count, a, m) = 0
          BY <4>3 DEF Held
        <5> QED BY <5>1, <5>2, <4>3, <1>4
      <4> QED BY <4>1, <4>2, <4>3, <3>1, <1>2
    <3> QED BY <3>1, <2>1, <1>2
  <2>2. CASE g # f
    <3>1. ~flusher[f].reset
      BY <2>2 DEF OneReset
    <3>2. \A b \in Threads : called'[b][m] = called[b][m] /\ spent'[b][m] = spent[b][m]
      BY <3>1, <1>4
    <3>3. flusher'[g] = flusher[g]
      BY <2>2, <1>2
    <3> QED BY <2>2, <3>2, <3>3, <1>2 DEF Clean, Restarted
  <2> QED BY <2>1, <2>2
<1> QED BY <1>5, <1>6, <1>7, <1>8, <1>9, <1>10 DEF Clean

LEMMA ZeroCountClean ==
  ASSUME Places, Places', OneReset, RacedSeen, RacedSeen', NEW m \in Ids,
         m \notin raced, m \notin raced', Clean(m), NEW f \in Flushers, ZeroCount(f), Watch
  PROVE  Clean(m)'
<1> DEFINE id == flusher[f].id
<1>0. PICK a : a = flusher[f].thread
  OBVIOUS
<1>1. /\ time' = time /\ hook' = hook
      /\ sharedCount' = sharedCount /\ sharedTime' = sharedTime
      /\ flusher[f].at = "zero_count" /\ NextId(f) /\ Retally(f, 0, 0)
  BY <1>0 DEF ZeroCount, shared
<1>2. /\ a \in Threads /\ id \in Ids /\ HoldsArrays(f, a)
      /\ id \in DOMAIN Newest(count[a])
      /\ \A g \in Flushers : g # f => flusher'[g] = flusher[g]
      /\ flusher'[f].at \in {"check", "next"} /\ flusher'[f].reset = flusher[f].reset
      /\ \A g \in Flushers : /\ flusher'[g].timeRef = flusher[g].timeRef
                             /\ flusher'[g].countRef = flusher[g].countRef
                             /\ flusher'[g].reset = flusher[g].reset
      /\ \A g \in Flushers : flusher[g].at = "take_count" => flusher'[g].at = "take_count"
      /\ \A g \in Flushers, b \in Threads : HoldsArrays(g, b)' => HoldsArrays(g, b)
      /\ \A g \in Flushers, b \in Threads :
           Moves(flusher'[g], b, m) => g # f /\ Moves(flusher[g], b, m)
      /\ \A g \in Flushers, b \in Threads : g # f => (Done(g, b, m)' <=> Done(g, b, m))
      /\ \A b \in Threads : Done(f, b, m)' =>
           Done(f, b, m) \/ (b = a /\ (m = id \/ m \notin DOMAIN Newest(count[a])))
  BY <1>0, <1>1, NextIdDone
<1>3. Moves(flusher[f], a, id)
  BY <1>0, <1>1 DEF Moves
<1>4. /\ \A b \in Threads : Len(count'[b]) = Len(count[b])
      /\ \A b \in Threads : DOMAIN Newest(count'[b]) = DOMAIN Newest(count[b])
      /\ \A b \in Threads : Held(count', b, m) = IF b = a /\ m = id THEN 0 ELSE Held(count, b, m)
  <2>1. /\ \A b \in Threads : b # a => count'[b] = count[b]
        /\ \A k : Held(count', a, k) =
                    IF flusher[f].countRef = Len(count[a]) /\ k = id THEN 0 ELSE Held(count, a, k)
        /\ \A b \in Threads : Len(count'[b]) = Len(count[b])
        /\ \A b \in Threads : DOMAIN Newest(count'[b]) = DOMAIN Newest(count[b])
    BY <1>0, ZeroCountPlaces
  <2>2. flusher[f].countRef = Len(count[a])
    BY <1>1, <1>2 DEF Clean, Current
  <2>3. \A b \in Threads : b # a => Held(count', b, m) = Held(count, b, m)
    BY <2>1 DEF Held
  <2> QED BY <2>1, <2>2, <2>3
<1>5. m = id => Held(time, a, m) = 0
  BY <1>1, <1>2, <1>3 DEF Clean, TimeZeroed, MovingSlot, Moves
<1>6. \A b \in Threads :
        IF flusher[f].reset /\ b = a /\ m = id
        THEN called'[b][m] = 0 /\ spent'[b][m] = 0
        ELSE called'[b][m] = called[b][m] /\ spent'[b][m] = spent[b][m]
  <2>1. Types /\ 0 \in Nat
    BY DEF Places
  <2> QED BY <2>1, <1>0, <1>1, <1>2, RetallyStep
<1>7. Current(m)'
  BY <1>1, <1>2, <1>4 DEF Clean, Current
<1>8. ReadStands(m)'
  <2>1. \A b \in Threads : b = a /\ m = id => ~ (hook[b].at = "counting" /\ hook[b].id = m)
    BY <1>2, <1>3, MoverAlone
  <2> QED BY <2>1, <1>1, <1>4 DEF Clean, ReadStands
<1>9. TimeZeroed(m)'
  BY <1>1, <1>2 DEF Clean, TimeZeroed, MovingSlot, Moves
<1>10. Untouched(m)'
  BY <1>1, <1>2, <1>4, <1>6 DEF Clean, Untouched
<1>11. Accounted(m)'
  <2> SUFFICES ASSUME \A g \in Flushers : ~flusher[g].reset PROVE Accounted(m)'
    BY <1>2 DEF Accounted
  <2>1. ASSUME NEW b \in Threads
        PROVE  RestCount(b, m)' = RestCount(b, m) /\ RestTime(b, m)' = RestTime(b, m)
    <3>1. CASE b = a /\ m = id
      <4>1. CountMoved(flusher, b, m) /\ TimeMoved(flusher, b, m)
        BY <3>1, <1>1, <1>3 DEF CountMoved, TimeMoved
      <4>2. ~CountMoved(flusher', b, m) /\ ~TimeMoved(flusher', b, m)
        BY <3>1, <1>2, <1>3, MoverAlone DEF CountMoved, TimeMoved
      <4>3. Held(count', b, m) = 0 /\ Held(time', b, m) = 0
        BY <3>1, <1>1, <1>4, <1>5
      <4> QED BY <4>1, <4>2, <4>3 DEF RestCount, RestTime
    <3>2. CASE ~ (b = a /\ m = id)
      <4>1. ~Moves(flusher[f], b, m) /\ ~Moves(flusher'[f], b, m)
        BY <3>2, <1>0, <1>2 DEF Moves
      <4>2. /\ CountMoved(flusher', b, m) <=> CountMoved(flusher, b, m)
            /\ TimeMoved(flusher', b, m) <=> TimeMoved(flusher, b, m)
        BY <4>1, <1>2, MovedSame
      <4>3. Held(count', b, m) = Held(count, b, m)
        BY <3>2, <1>4
      <4> QED BY <4>2, <4>3, <1>1 DEF RestCount, RestTime
    <3> QED BY <3>1, <3>2
  <2> QED BY <2>1, <1>1, <1>6, AccountedSame DEF Clean
<1>12. Restarted(m)'
  <2> SUFFICES ASSUME NEW g \in Flushers, flusher[g].reset
               PROVE  /\ \A b \in Threads : Done(g, b, m)' =>
                           called'[b][m] = Held(count', b, m) /\ spent'[b][m] = Held(time, b, m)
                      /\ flusher'[g].at = "clear" /\ m < flusher'[g].id =>
                           sharedCount[m] = 0 /\ sharedTime[m] = 0
    BY <1>1, <1>2 DEF Restarted
  <2>1. CASE g = f
    <3>1. ASSUME NEW b \in Threads, Done(f, b, m)'
          PROVE  called'[b][m] = Held(count', b, m) /\ spent'[b][m] = Held(time, b, m)
      <4>1. CASE b = a /\ m = id
        BY <4>1, <2>1, <1>4, <1>5, <1>6
      <4>2. CASE ~ (b = a /\ m = id) /\ Done(f, b, m)
        BY <4>2, <2>1, <1>4, <1>6 DEF Clean, Restarted
      <4>3. CASE b = a /\ m # id /\ m \notin DOMAIN Newest(count[a])
        <5>1. called[a][m] = 0 /\ spent[a][m] = 0 /\ Held(time, a, m) = 0
          BY <4>3, <1>2 DEF Clean, Untouched
        <5>2. Held(count, a, m) = 0
          BY <4>3 DEF Held
        <5> QED BY <5>1, <5>2, <4>3, <1>4, <1>6
      <4> QED BY <4>1, <4>2, <4>3, <3>1, <1>2
    <3> QED BY <3>1, <2>1, <1>2
  <2>2. CASE g # f
    <3>1. ~flusher[f].reset
      BY <2>2 DEF OneReset
    <3>2. m # id
      BY <2>2, <1>2, <1>3, MoverAlone
    <3>3. \A b \in Threads : called'[b][m] = called[b][m] /\ spent'[b][m] = spent[b][m]
                             /\ Held(count', b, m) = Held(count, b, m)
      BY <3>1, <3>2, <1>4, <1>6
    <3>4. flusher'[g] = flusher[g]
      BY <2>2, <1>2
    <3> QED BY <2>2, <3>3, <3>4, <1>2 DEF Clean, Restarted
  <2> QED BY <2>1, <2>2
<1> QED BY <1>7, <1>8, <1>9, <1>10, <1>11, <1>12 DEF Clean

(* A reset clears the shared statistics of one id after another.  With the  *)
(* last the account is taken up again: nothing is shared, and what is       *)
(* buffered is what was called since the reset passed.                      *)
LEMMA ClearClean ==
  ASSUME Places, Places', OneReset, RacedSeen, RacedSeen', NEW m \in Ids,
         m \notin raced, m \notin raced', Clean(m), NEW f \in Flushers, Clear(f), Watch
  PROVE  Clean(m)'
<1> DEFINE k == flusher[f].id
<1>1. /\ count' = count /\ time' = time /\ hook' = hook /\ called' = called /\ spent' = spent
      /\ flusher[f].at = "clear"
  BY DEF Clear, buffers, tallies
<1>2. /\ flusher[f].reset /\ flusher[f].todo = {} /\ k \in Ids
      /\ \A g \in Flushers : g # f => flusher'[g] = flusher[g]
      /\ \/ /\ k + 1 < MethodCount
            /\ flusher'[f].at = "clear" /\ flusher'[f].reset
            /\ flusher'[f].todo = {} /\ flusher'[f].id = k + 1
         \/ /\ ~ (k + 1 < MethodCount)
            /\ flusher'[f].at = "idle" /\ ~flusher'[f].reset
      /\ sharedCount' = [sharedCount EXCEPT ![k] = 0]
      /\ sharedTime' = [sharedTime EXCEPT ![k] = 0]
  BY ClearPlaces
<1>3. \A b \in Threads : ~HoldsArrays(f, b) /\ ~HoldsArrays(f, b)'
  BY <1>1, <1>2 DEF HoldsArrays
<1>4. m \in Nat /\ k \in Nat /\ m < MethodCount /\ MethodCount \in Nat
  BY <1>2, FlushAssumption, IdsNat DEF Ids
<1>5. \A b \in Threads : called[b][m] = Held(count, b, m) /\ spent[b][m] = Held(time, b, m)
  BY <1>2, <1>3 DEF Clean, Restarted, Done
<1>6. m <= k => sharedCount'[m] = 0 /\ sharedTime'[m] = 0
  <2>1. CASE m = k
    BY <2>1, <1>2 DEF Places, Types
  <2>2. CASE m < k
    <3>1. sharedCount[m] = 0 /\ sharedTime[m] = 0
      BY <2>2, <1>1, <1>2 DEF Clean, Restarted
    <3>2. m # k
      BY <2>2, <1>4
    <3> QED BY <3>1, <3>2, <1>2 DEF Places, Types
  <2> QED BY <2>1, <2>2, <1>4
<1>7. \A g \in Flushers, b \in Threads : ~Moves(flusher'[g], b, m)
  <2>1. \A g \in Flushers, b \in Threads : ~Moves(flusher[g], b, m)
    BY <1>1, <1>2, MoverAlone DEF Moves
  <2> QED BY <2>1, <1>2 DEF Moves
<1>8. Current(m)'
  BY <1>1, <1>2, <1>3 DEF Clean, Current, HoldsArrays
<1>9. ReadStands(m)' /\ Untouched(m)'
  BY <1>1 DEF Clean, ReadStands, Untouched
<1>10. TimeZeroed(m)'
  BY <1>7 DEF TimeZeroed, MovingSlot, Moves
<1>11. Accounted(m)'
  <2> SUFFICES ASSUME \A g \in Flushers : ~flusher'[g].reset
               PROVE  /\ sharedCount'[m] + Total(RestCounts(m)', Threads) = Total(Calls(m)', Threads)
                      /\ sharedTime'[m] + Total(RestTimes(m)', Threads) = Total(Durations(m)', Threads)
    BY DEF Accounted
  <2>1. sharedCount'[m] = 0 /\ sharedTime'[m] = 0
    BY <1>2, <1>4, <1>6
  <2>2. \A b \in Threads : RestCount(b, m)' = called'[b][m] /\ RestTime(b, m)' = spent'[b][m]
    <3>1. \A b \in Threads : ~CountMoved(flusher', b, m) /\ ~TimeMoved(flusher', b, m)
      BY <1>7 DEF CountMoved, TimeMoved
    <3> QED BY <3>1, <1>1, <1>5 DEF RestCount, RestTime
  <2>3. RestCounts(m)' = Calls(m)' /\ RestTimes(m)' = Durations(m)'
    BY <2>2 DEF RestCounts, RestTimes, Calls, Durations
  <2>4. Calls(m)' \in [Threads -> Int] /\ Durations(m)' \in [Threads -> Int] /\ IsFiniteSet(Threads)
    BY ColumnsTypedNext, FlushAssumption DEF Places
  <2>5. Total(Calls(m)', Threads) \in Int /\ Total(Durations(m)', Threads) \in Int
    BY <2>4, SumType DEF Total
  <2> QED BY <2>1, <2>3, <2>5
<1>12. Restarted(m)'
  <2> SUFFICES ASSUME NEW g \in Flushers, flusher'[g].reset
               PROVE  /\ \A b \in Threads : Done(g, b, m)' =>
                           called[b][m] = Held(count, b, m) /\ spent[b][m] = Held(time, b, m)
                      /\ flusher'[g].at = "clear" /\ m < flusher'[g].id =>
                           sharedCount'[m] = 0 /\ sharedTime'[m] = 0
    BY <1>1 DEF Restarted
  <2>1. g = f
    BY <1>2 DEF OneReset
  <2>2. m < flusher'[g].id => m <= k
    BY <2>1, <1>2, <1>4
  <2> QED BY <2>2, <1>5, <1>6
<1> QED BY <1>8, <1>9, <1>10, <1>11, <1>12 DEF Clean

----------------------------------------------------------------------------
(* The account is kept.                                                    *)

LEMMA ResetKept ==
  ASSUME Places, OneReset, [Next]_vars
  PROVE  OneReset'
<1>1. CASE flusher' = flusher
  BY <1>1 DEF OneReset
<1>2. ASSUME NEW f \in Flushers, FlushNext(f), Watch PROVE OneReset'
  <2>1. ASSUME NEW reset \in BOOLEAN, BeginFlush(f, reset) PROVE OneReset'
    <3>1. /\ \A g \in Flushers : g # f => flusher'[g] = flusher[g]
          /\ flusher'[f].reset = reset
      BY <2>1, <1>2, BeginFlushPlaces
    <3>2. reset => \A g \in Flushers : ~flusher[g].reset
      BY <2>1 DEF BeginFlush
    <3> QED BY <3>1, <3>2 DEF OneReset
  <2>2. ASSUME \A g \in Flushers : flusher'[g].reset => flusher[g].reset PROVE OneReset'
    BY <2>2 DEF OneReset
  <2>3. ASSUME TakeTimeRef(f) PROVE OneReset'
    <3>1. PICK a \in flusher[f].todo :
            flusher' = [flusher EXCEPT ![f].at = "take_count", ![f].thread = a,
                                       ![f].todo = @ \ {a}, ![f].timeRef = Len(time[a])]
      BY <2>3 DEF TakeTimeRef
    <3>2. /\ \A g \in Flushers : g # f => flusher'[g] = flusher[g]
          /\ flusher'[f].reset = flusher[f].reset
      BY <3>1, <2>3, <1>2, TakeTimeRefPlaces DEF TakeTimeRef
    <3> QED BY <3>2, <2>2
  <2>4. ASSUME TakeCountRef(f) PROVE OneReset'
    BY <2>4, <1>2, <2>2, TakeCountRefPlaces
  <2>5. ASSUME Skip(f) \/ ZeroCount(f) PROVE OneReset'
    <3>1. flusher[f].at \in {"check", "zero_count"} /\ NextId(f)
      BY <2>5 DEF Skip, ZeroCount
    <3> QED BY <3>1, <2>2, NextIdStep
  <2>6. ASSUME DoNotSkip(f) \/ AddTime(f) \/ AddCount(f) \/ ZeroTime(f) PROVE OneReset'
    <3>1. flusher[f].at \in Elements /\ \E to \in Elements : MoveTo(f, to)
      BY <2>6 DEF DoNotSkip, AddTime, AddCount, ZeroTime, Elements
    <3> QED BY <3>1, <2>2, MovedTo
  <2>7. ASSUME Finish(f) PROVE OneReset'
    BY <2>7, <1>2, <2>2, FinishPlaces
  <2>8. ASSUME Clear(f) PROVE OneReset'
    BY <2>8, <1>2, <2>2, ClearPlaces
  <2> QED BY <1>2, <2>1, <2>3, <2>4, <2>5, <2>6, <2>7, <2>8 DEF FlushNext
<1>3. ASSUME NEW a \in Threads, HookNext(a) PROVE flusher' = flusher
  BY <1>3 DEF HookNext, HookOn, Enter, GrowTime, GrowCount, ReadThen, ReadCount, ReadTime,
     WriteCount, WriteTime, HookStep
<1> QED BY <1>1, <1>2, <1>3 DEF Next, vars

LEMMA SeenKept ==
  ASSUME RacedSeen, [Next]_vars
  PROVE  RacedSeen' /\ raced \subseteq raced'
<1>1. ASSUME Watch PROVE RacedSeen' /\ raced \subseteq raced'
  BY <1>1 DEF Watch, RacedSeen
<1>2. ASSUME UNCHANGED vars PROVE RacedSeen' /\ raced \subseteq raced'
  BY <1>2 DEF vars, RacedSeen, Meet, MovingSlot, HoldsArrays
<1> QED BY <1>1, <1>2 DEF Next

LEMMA CleanKept ==
  ASSUME IInv, [Next]_vars, Places', RacedSeen', NEW m \in Ids, m \notin raced, m \notin raced'
  PROVE  Clean(m)'
<1>1. Places /\ OneReset /\ RacedSeen /\ Clean(m)
  BY DEF IInv
<1>2. ASSUME UNCHANGED vars PROVE Clean(m)'
  <2>1. /\ count' = count /\ time' = time /\ hook' = hook /\ flusher' = flusher
        /\ sharedCount' = sharedCount /\ sharedTime' = sharedTime
        /\ called' = called /\ spent' = spent
    BY <1>2 DEF vars, buffers, shared, tallies
  <2>2. TimeZeroed(m)' /\ Accounted(m)' /\ Restarted(m)'
    BY <2>1, <1>1, HeldSame
  <2>3. Current(m)' /\ ReadStands(m)' /\ Untouched(m)'
    BY <2>1, <1>1 DEF Clean, Current, HoldsArrays, ReadStands, Untouched
  <2> QED BY <2>2, <2>3 DEF Clean
<1>3. ASSUME NEW a \in Threads, HookNext(a), Watch PROVE Clean(m)'
  <2>1. ASSUME (\E k \in Ids : Enter(a, k)) \/ ReadCount(a) \/ ReadTime(a) PROVE Clean(m)'
    BY <2>1, <1>1, <1>3, EnterReadClean
  <2>2. ASSUME GrowTime(a) \/ GrowCount(a) PROVE Clean(m)'
    BY <2>2, <1>1, <1>3, GrowClean
  <2>3. ASSUME WriteCount(a) PROVE Clean(m)'
    BY <2>3, <1>1, <1>3, WriteCountClean
  <2>4. ASSUME WriteTime(a) PROVE Clean(m)'
    BY <2>4, <1>1, <1>3, WriteTimeClean
  <2> QED BY <1>3, <2>1, <2>2, <2>3, <2>4 DEF HookNext, HookOn
<1>4. ASSUME NEW f \in Flushers, FlushNext(f), Watch PROVE Clean(m)'
  <2>1. ASSUME NEW reset \in BOOLEAN, BeginFlush(f, reset) PROVE Clean(m)'
    BY <2>1, <1>1, <1>4, BeginFlushClean
  <2>2. ASSUME TakeTimeRef(f) PROVE Clean(m)'
    BY <2>2, <1>1, <1>4, TakeTimeRefClean
  <2>3. ASSUME TakeCountRef(f) PROVE Clean(m)'
    BY <2>3, <1>1, <1>4, TakeCountRefClean
  <2>4. ASSUME Skip(f) PROVE Clean(m)'
    BY <2>4, <1>1, SkipClean
  <2>5. ASSUME DoNotSkip(f) PROVE Clean(m)'
    BY <2>5, <1>1, DoNotSkipClean
  <2>6. ASSUME AddTime(f) PROVE Clean(m)'
    BY <2>6, <1>1, AddTimeClean
  <2>7. ASSUME AddCount(f) PROVE Clean(m)'
    BY <2>7, <1>1, AddCountClean
  <2>8. ASSUME ZeroTime(f) PROVE Clean(m)'
    BY <2>8, <1>1, <1>4, ZeroTimeClean
  <2>9. ASSUME ZeroCount(f) PROVE Clean(m)'
    BY <2>9, <1>1, <1>4, ZeroCountClean
  <2>10. ASSUME Finish(f) PROVE Clean(m)'
    BY <2>10, <1>1, <1>4, FinishClean
  <2>11. ASSUME Clear(f) PROVE Clean(m)'
    BY <2>11, <1>1, <1>4, ClearClean
  <2> QED BY <1>4, <2>1, <2>2, <2>3, <2>4, <2>5, <2>6, <2>7, <2>8, <2>9, <2>10, <2>11
          DEF FlushNext
<1> QED BY <1>2, <1>3, <1>4 DEF Next

LEMMA InitIInv ==
  ASSUME Init
  PROVE  IInv
<1>1. Places
  BY InitPlaces
<1>2. /\ hook = [a \in Threads |-> IdleHook] /\ flusher = [f \in Flushers |-> IdleFlusher]
      /\ sharedCount = None /\ sharedTime = None
      /\ called = [a \in Threads |-> None] /\ spent = [a \in Threads |-> None]
      /\ count = [a \in Threads |-> <<[i \in 0 .. Capacity - 1 |-> 0]>>] /\ time = count
  BY DEF Init
<1>3. \A f \in Flushers : flusher[f].at = "idle" /\ ~flusher[f].reset
  BY <1>2 DEF IdleFlusher
<1>4. \A a \in Threads : hook[a].at = "idle"
  BY <1>2 DEF IdleHook
<1>5. \A f \in Flushers, a \in Threads, m \in Ids : ~MovingSlot(f, a, m) /\ ~HoldsArrays(f, a)
  BY <1>3 DEF MovingSlot, HoldsArrays
<1>6. OneReset /\ RacedSeen
  BY <1>3, <1>4, <1>5 DEF OneReset, RacedSeen, Meet
<1>7. ASSUME NEW m \in Ids PROVE Clean(m)
  <2>1. \A a \in Threads : called[a][m] = 0 /\ spent[a][m] = 0
    BY <1>2 DEF None
  <2>2. sharedCount[m] = 0 /\ sharedTime[m] = 0
    BY <1>2 DEF None
  <2>3. ASSUME NEW a \in Threads PROVE Held(count, a, m) = 0 /\ Held(time, a, m) = 0
    <3>1. PICK zeroes : zeroes = [i \in 0 .. Capacity - 1 |-> 0]
      OBVIOUS
    <3>2. count[a] = <<zeroes>> /\ time[a] = <<zeroes>>
      BY <3>1, <1>2
    <3>3. Newest(<<zeroes>>) = zeroes
      BY DEF Newest
    <3> QED BY <3>1, <3>2, <3>3 DEF Held
  <2>4. Current(m) /\ ReadStands(m) /\ TimeZeroed(m)
    BY <1>4, <1>5 DEF Current, ReadStands, TimeZeroed
  <2>5. Untouched(m)
    BY <2>1, <2>3 DEF Untouched
  <2>6. Restarted(m)
    BY <1>3 DEF Restarted
  <2>7. Accounted(m)
    <3>1. \A a \in Threads : RestCount(a, m) = called[a][m] /\ RestTime(a, m) = spent[a][m]
      BY <2>1, <2>3 DEF RestCount, RestTime
    <3>2. RestCounts(m) = Calls(m) /\ RestTimes(m) = Durations(m)
      BY <3>1 DEF RestCounts, RestTimes, Calls, Durations
    <3>3. Calls(m) \in [Threads -> Int] /\ Durations(m) \in [Threads -> Int] /\ IsFiniteSet(Threads)
      BY <1>1, ColumnsTyped, FlushAssumption DEF Places
    <3>4. Total(Calls(m), Threads) \in Int /\ Total(Durations(m), Threads) \in Int
      BY <3>3, SumType DEF Total
    <3> QED BY <2>2, <3>2, <3>4 DEF Accounted
  <2> QED BY <2>4, <2>5, <2>6, <2>7 DEF Clean
<1> QED BY <1>1, <1>6, <1>7 DEF IInv

LEMMA IInvKept ==
  ASSUME IInv, [Next]_vars
  PROVE  IInv'
<1>1. Places'
  BY PlacesKept DEF IInv
<1>2. OneReset'
  BY ResetKept DEF IInv
<1>3. RacedSeen' /\ raced \subseteq raced'
  BY SeenKept DEF IInv
<1>4. \A m \in Ids \ raced' : Clean(m)'
  BY <1>1, <1>3, CleanKept
<1> QED BY <1>1, <1>2, <1>3, <1>4 DEF IInv

LEMMA IInvExact ==
  ASSUME IInv
  PROVE  ExactUnlessRaced
<1> SUFFICES ASSUME NEW m \in Ids, m \notin raced, Settled(m)
             PROVE  /\ sharedCount[m] + Buffered(count, m) = SumOver(called, m)
                    /\ sharedTime[m] + Buffered(time, m) = SumOver(spent, m)
  BY DEF ExactUnlessRaced
<1>1. \A f \in Flushers : ~flusher[f].reset
  BY DEF Settled
<1>2. /\ sharedCount[m] + Total(RestCounts(m), Threads) = Total(Calls(m), Threads)
      /\ sharedTime[m] + Total(RestTimes(m), Threads) = Total(Durations(m), Threads)
  BY <1>1 DEF IInv, Clean, Accounted
<1>3. \A a \in Threads : ~CountMoved(flusher, a, m) /\ ~TimeMoved(flusher, a, m)
  BY DEF Settled, CountMoved, TimeMoved, MovingSlot, Moves
<1>4. /\ RestCounts(m) = [a \in Threads |-> Held(count, a, m)]
      /\ RestTimes(m) = [a \in Threads |-> Held(time, a, m)]
  BY <1>3 DEF RestCounts, RestTimes, RestCount, RestTime
<1>5. /\ Buffered(count, m) = Total(RestCounts(m), Threads)
      /\ Buffered(time, m) = Total(RestTimes(m), Threads)
  BY <1>4, BufferedTotal
<1>6. SumOver(called, m) = Total(Calls(m), Threads) /\ SumOver(spent, m) = Total(Durations(m), Threads)
  BY SumOverTotal DEF Calls, Durations
<1> QED BY <1>2, <1>5, <1>6

(* For any number of threads, agent threads, ids and calls, and any initial *)
(* length of the arrays: a flush loses or doubles a call or a duration of   *)
(* an id only when a hook or another flush of that id met it (840-888).     *)
THEOREM CountersExact == Spec => []ExactUnlessRaced
<1>1. Init => IInv
  BY InitIInv
<1>2. IInv /\ [Next]_vars => IInv'
  BY IInvKept
<1>3. IInv => ExactUnlessRaced
  BY IInvExact
<1> QED BY <1>1, <1>2, <1>3, PTL DEF Spec
=============================================================================
