------------------------ MODULE AllocationDataProofs ------------------------
(***************************************************************************)
(* Proofs about AllocationData and the NativeAgent in it, for any number   *)
(* of threads, connections and calls.  Every actor has a list of steps, so *)
(* the invariants say what stands in the lists.  ListsInv: a step that     *)
(* takes the lock stands before the unlock that ends it (Disciplined), and *)
(* only the holder's list begins inside a lock (Outside).  ProbesInv: what *)
(* the native probes hold, the rest of the holder's list clears.  StaleInv *)
(* does the same for old events, TableInv is about the native table as a   *)
(* tree, LiveInv about the table of the hooks, RepliesInv about replies    *)
(* made of it, TreesInv about snapshots made of the native one.            *)
(***************************************************************************)
EXTENDS AllocationData, DataFacts

----------------------------------------------------------------------------
(* Lists of steps.                                                         *)

(* What is left of a list, with other steps in front. *)
LEMMA Taken ==
  ASSUME NEW s, IsSeq(s), s # <<>>, NEW steps, IsSeq(steps)
  PROVE  LET t == steps \o Tail(s) IN
           /\ IsSeq(t) /\ Len(s) \in Nat \ {0} /\ Len(steps) \in Nat
           /\ Len(t) = Len(steps) + Len(s) - 1
           /\ \A i \in 1..Len(steps) : t[i] = steps[i]
           /\ \A k \in 2..Len(s) : t[k + (Len(steps) - 1)] = s[k]
           /\ Head(s) = s[1]
<1>1. s \in Seq(ToSet(s))
  BY DEF IsSeq
<1>2. /\ Head(s) = s[1] /\ Tail(s) \in Seq(ToSet(s))
      /\ Len(Tail(s)) = Len(s) - 1 /\ \A i \in 1..(Len(s) - 1) : Tail(s)[i] = s[i + 1]
      /\ Len(s) \in Nat \ {0}
  BY <1>1, HeadTailProperties, EmptySeq, LenProperties
<1>3. IsSeq(Tail(s))
  BY <1>2, IsSeqOf
<1>4. /\ IsSeq(steps \o Tail(s))
      /\ Len(steps) \in Nat /\ Len(steps \o Tail(s)) = Len(steps) + (Len(s) - 1)
      /\ \A i \in 1..Len(steps) : (steps \o Tail(s))[i] = steps[i]
      /\ \A i \in 1..(Len(s) - 1) : (steps \o Tail(s))[Len(steps) + i] = s[i + 1]
  <2>1. PICK r : r = Tail(s)
    OBVIOUS
  <2>2. IsSeq(r) /\ Len(r) = Len(s) - 1 /\ \A i \in 1..Len(r) : r[i] = s[i + 1]
    BY <1>2, <1>3, <2>1
  <2>3. /\ IsSeq(steps \o r) /\ Len(steps) \in Nat /\ Len(steps \o r) = Len(steps) + Len(r)
        /\ \A i \in 1..Len(steps) : (steps \o r)[i] = steps[i]
        /\ \A i \in 1..Len(r) : (steps \o r)[Len(steps) + i] = r[i]
    <3>1. IsSeq(steps) /\ IsSeq(r)
      BY <2>2
    <3>2. IsSeq(steps \o r)
      BY <3>1, Behind
    <3>3. Len(steps) \in Nat /\ Len(steps \o r) = Len(steps) + Len(r)
      BY <3>1, Behind
    <3>4. \A i \in 1..Len(steps) : (steps \o r)[i] = steps[i]
      BY <3>1, Behind
    <3>5. \A i \in 1..Len(r) : (steps \o r)[Len(steps) + i] = r[i]
      BY <3>1, Behind
    <3>. QED
      BY <3>2, <3>3, <3>4, <3>5
  <2>. QED
    BY <2>1, <2>2, <2>3
<1>5. \A k \in 2..Len(s) : /\ k - 1 \in 1..(Len(s) - 1) /\ (k - 1) + 1 = k
                           /\ Len(steps) + (k - 1) = k + (Len(steps) - 1)
  BY <1>2, <1>4
<1>6. \A k \in 2..Len(s) : (steps \o Tail(s))[k + (Len(steps) - 1)] = s[k]
  BY <1>4, <1>5
<1>. QED
  BY <1>2, <1>4, <1>6

----------------------------------------------------------------------------
(* What every list of a connection keeps to.                               *)

\* From i on, s has the step st, with none of the kind barred on the way.
Before(s, i, st, barred) ==
  \E j \in i..Len(s) : s[j] = st /\ \A k \in i..j : s[k][1] # barred

LockIn(s, i, j) == \E k \in i..j : s[k][1] = "lock"

\* Kinds of steps that are taken with the lock only.
Guarded == {"unlock", "record", "clear", "flag", "sweep", "enter", "exit", "add", "zero",
            "forget", "average", "divide"}

\* Arguments of the steps.
StepOK(st) ==
  /\ st[1] \in {"lock", "record"} => st[2] \in BOOLEAN
  /\ st[1] \in {"enter", "exit", "average", "divide", "add", "zero"} => st[2] \in Probes
  /\ st[1] \in {"add", "zero"} => st[3] \in Fields
  /\ st[1] = "add" => st[4] \in Nat
  /\ st[1] = "divide" => st[3] \in Nat \ {0}
  /\ st[1] = "sweep" => st[2] = Sites

\* A sweep that has begun has fewer sites to go.
Begun(st) == st[1] = "sweep" /\ st[2] \subseteq Sites

Typed(s)   == \A i \in 1..Len(s) : StepOK(s[i])
Running(s) == \A i \in 1..Len(s) : StepOK(s[i]) \/ (i = 1 /\ Begun(s[i]))
Freed(s)  == \A i \in 1..Len(s) : s[i][1] \in Guarded => Before(s, i, <<"unlock">>, "lock")
Locked(s) == \A i \in 1..Len(s) : \A j \in (i + 1)..Len(s) :
               s[i][1] = "unlock" /\ s[j][1] = "unlock" => LockIn(s, i, j)
Cleared(s) == \A i \in 1..Len(s) :
                s[i][1] = "lock" /\ s[i][2] = TRUE => Before(s, i, <<"clear">>, "unlock")
Paired(s) == \A i \in 1..Len(s) :
               s[i][1] = "enter" => i + 1 \in 1..Len(s) /\ s[i + 1][1] = "exit"
Zeroed(s) == \A i \in 1..Len(s) : s[i][1] \in {"exit", "add"} =>
               \A p \in Probes, f \in Fields : Before(s, i, <<"zero", p, f>>, "unlock")

Disciplined(s) ==
  IsSeq(s) /\ Running(s) /\ Freed(s) /\ Locked(s) /\ Cleared(s) /\ Paired(s) /\ Zeroed(s)

\* s starts without the lock.
Outside(s) == \A j \in 1..Len(s) : s[j][1] = "unlock" => LockIn(s, 1, j)

ListsInv ==
  /\ todo = [a \in Actors |-> todo[a]]
  /\ \A a \in Actors : IsSeq(todo[a])
  /\ holder \in Connections \cup {NoOne}
  /\ \A c \in Connections : Disciplined(todo[c]) /\ (c # holder => Outside(todo[c]))

----------------------------------------------------------------------------
(* The native probes.                                                      *)

ProbesInv ==
  /\ stats = [p \in Probes |-> stats[p]]
  /\ \A p \in Probes : stats[p] \in [Fields -> Nat]
  /\ cpu \in [Connections -> Nat]
  /\ overhead \in [Probes -> Nat]
  /\ stack = [c \in Connections |-> stack[c]]
  /\ \A c \in Connections : stack[c] # <<>> =>
       /\ c = holder /\ recording /\ todo[c] # <<>> /\ todo[c][1][1] = "exit"
       /\ \E p \in Probes, start \in 0..cpu[c] : stack[c] = <<<<p, start>>>>
  /\ \A p \in Probes, f \in Fields : stats[p][f] # 0 =>
       holder # NoOne /\ Before(todo[holder], 1, <<"zero", p, f>>, "unlock")

----------------------------------------------------------------------------
(* Events of the recording before.                                         *)

Late == {t \in Threads : todo[t] # <<>> /\ todo[t][1][1] = "merge" /\ todo[t][1][4] < session}

StaleInv ==
  \/ stale \in Nat /\ stale + Cardinality(Late) <= Cardinality(Threads)
  \/ holder # NoOne /\ Before(todo[holder], 1, <<"clear">>, "unlock")

LEMMA BeforeMoved ==
  ASSUME NEW s, Len(s) \in Nat, NEW t, NEW i \in 1..Len(s), NEW d \in Int,
         \A k \in i..Len(s) : k + d \in 1..Len(t) /\ t[k + d] = s[k], Len(t) \in Nat,
         NEW st, NEW barred, Before(s, i, st, barred)
  PROVE  Before(t, i + d, st, barred)
<1>1. PICK j \in i..Len(s) : s[j] = st /\ \A k \in i..j : s[k][1] # barred
  BY DEF Before
<1>2. j + d \in (i + d)..Len(t) /\ t[j + d] = st
  BY <1>1
<1>3. ASSUME NEW k \in (i + d)..(j + d) PROVE t[k][1] # barred
  <2>1. k - d \in i..j /\ k - d \in i..Len(s) /\ (k - d) + d = k
    BY <1>1
  <2>2. t[k] = s[k - d]
    BY <2>1
  <2>. QED
    BY <1>1, <2>1, <2>2
<1>. QED
  BY <1>2, <1>3 DEF Before

LEMMA BeforeSooner ==
  ASSUME NEW t, Len(t) \in Nat, NEW i \in Nat, NEW n \in Nat, i <= n, NEW st, NEW barred,
         \A k \in i..n : k < n => t[k][1] # barred,
         Before(t, n, st, barred)
  PROVE  Before(t, i, st, barred)
<1>1. PICK j \in n..Len(t) : t[j] = st /\ \A k \in n..j : t[k][1] # barred
  BY DEF Before
<1>2. j \in i..Len(t)
  BY <1>1
<1>3. ASSUME NEW k \in i..j PROVE t[k][1] # barred
  <2>1. k \in n..j \/ (k \in i..n /\ k < n)
    BY <1>1
  <2>. QED
    BY <1>1, <2>1
<1>. QED
  BY <1>1, <1>2, <1>3 DEF Before

LEMMA BeforeLater ==
  ASSUME NEW s, Len(s) \in Nat, NEW i \in 1..Len(s), NEW st, NEW barred, s[i] # st, Before(s, i, st, barred)
  PROVE  i + 1 \in 1..Len(s) /\ Before(s, i + 1, st, barred)
<1>1. PICK j \in i..Len(s) : s[j] = st /\ \A k \in i..j : s[k][1] # barred
  BY DEF Before
<1>2. j # i
  BY <1>1
<1>3. i + 1 \in 1..Len(s) /\ j \in (i + 1)..Len(s) /\ \A k \in (i + 1)..j : k \in i..j
  BY <1>1, <1>2
<1>. QED
  BY <1>1, <1>3 DEF Before

(* What comes later in a list still does when its first step is taken and  *)
(* others are put in front.                                                *)
LEMMA BeforeTaken ==
  ASSUME NEW s, IsSeq(s), s # <<>>, NEW steps, IsSeq(steps), NEW t, t = steps \o Tail(s),
         NEW st, NEW barred
  PROVE  /\ \A k \in 2..Len(s) :
              Before(s, k, st, barred) => Before(t, k + (Len(steps) - 1), st, barred)
         /\ /\ Before(s, 1, st, barred) /\ s[1] # st
            /\ \A i \in 1..Len(steps) : steps[i][1] # barred
            => \A i \in 1..(Len(steps) + 1) : Before(t, i, st, barred)
<1> DEFINE m == Len(steps)
<1>1. /\ IsSeq(t) /\ Len(s) \in Nat \ {0} /\ m \in Nat
      /\ Len(t) = m + Len(s) - 1
      /\ \A i \in 1..m : t[i] = steps[i]
      /\ \A k \in 2..Len(s) : t[k + (m - 1)] = s[k]
  BY Taken
<1>. HIDE DEF m
<1>2. ASSUME NEW k \in 2..Len(s), Before(s, k, st, barred)
      PROVE  Before(t, k + (m - 1), st, barred)
  <2>1. Len(t) \in Nat /\ m - 1 \in Int /\ k \in 1..Len(s)
    BY <1>1
  <2>2. \A l \in k..Len(s) : l + (m - 1) \in 1..Len(t) /\ t[l + (m - 1)] = s[l]
    BY <1>1
  <2>. QED
    BY <1>1, <1>2, <2>1, <2>2, BeforeMoved
<1>3. ASSUME Before(s, 1, st, barred), s[1] # st, \A i \in 1..m : steps[i][1] # barred,
             NEW i \in 1..(m + 1)
      PROVE  Before(t, i, st, barred)
  <2>1. 2 \in 2..Len(s) /\ Before(s, 2, st, barred)
    <3>1. 1 \in 1..Len(s)
      BY <1>1
    <3>2. 1 + 1 \in 1..Len(s) /\ Before(s, 1 + 1, st, barred)
      BY <1>1, <1>3, <3>1, BeforeLater
    <3>. QED
      BY <1>1, <3>2
  <2>2. Before(t, m + 1, st, barred)
    <3>1. Before(t, 2 + (m - 1), st, barred)
      BY <1>2, <2>1
    <3>2. 2 + (m - 1) = m + 1
      BY <1>1
    <3>. QED
      BY <3>1, <3>2
  <2>3. i \in Nat /\ m + 1 \in Nat /\ i <= m + 1 /\ Len(t) \in Nat
    BY <1>1
  <2>4. \A k \in i..(m + 1) : k < m + 1 => t[k][1] # barred
    <3>1. \A k \in i..(m + 1) : k < m + 1 => k \in 1..m
      BY <1>1
    <3>. QED
      BY <1>1, <1>3, <3>1
  <2>5. PICK n : n = m + 1
    OBVIOUS
  <2>6. n \in Nat /\ i <= n /\ Before(t, n, st, barred) /\ \A k \in i..n : k < n => t[k][1] # barred
    BY <2>2, <2>3, <2>4, <2>5
  <2>. QED
    BY <2>3, <2>6, BeforeSooner
<1>. QED
  BY <1>2, <1>3 DEF m

\* What a connection's first step may put in its place.
Fits(s, steps) ==
  /\ IsSeq(steps)
  /\ \A i \in 1..Len(steps) :
       /\ StepOK(steps[i]) \/ (i = 1 /\ s[1][1] = "sweep" /\ Begun(steps[i]))
       /\ steps[i][1] \notin {"lock", "unlock", "enter", "exit"}
       /\ steps[i][1] \in Guarded => s[1][1] \in Guarded \ {"unlock"}
       /\ steps[i][1] = "add" => s[1][1] = "exit"
       /\ steps[i][1] # "ask"
       /\ steps[i][1] \in {"look", "rows"} => i = 1 /\ s[1][1] \in {"look", "rows"}

LEMMA TakenDisciplined ==
  ASSUME NEW s, s # <<>>, Disciplined(s), NEW steps, Fits(s, steps), NEW t, t = steps \o Tail(s)
  PROVE  /\ Disciplined(t)
         /\ s[1][1] # "lock" /\ Outside(s) => Outside(t)
         /\ s[1][1] = "unlock" => Outside(t)
<1> DEFINE m == Len(steps)
           n == Len(s)
<1>. /\ IsSeq(steps)
     /\ \A i \in 1..Len(steps) :
          /\ StepOK(steps[i]) \/ (i = 1 /\ Begun(steps[i]))
          /\ steps[i][1] \notin {"lock", "unlock", "enter", "exit"}
          /\ steps[i][1] \in Guarded => s[1][1] \in Guarded \ {"unlock"}
          /\ steps[i][1] = "add" => s[1][1] = "exit"
  BY DEF Fits
<1>1. /\ IsSeq(s) /\ IsSeq(t) /\ n \in Nat \ {0} /\ m \in Nat
      /\ Len(t) = m + n - 1
      /\ \A i \in 1..m : t[i] = steps[i]
      /\ \A k \in 2..n : t[k + (m - 1)] = s[k]
  BY Taken DEF Disciplined
<1>2. ASSUME NEW st, NEW barred, NEW k \in 2..n, Before(s, k, st, barred)
      PROVE  Before(t, k + (m - 1), st, barred)
  BY <1>1, <1>2, BeforeTaken
<1>3. ASSUME NEW st, NEW barred, Before(s, 1, st, barred), s[1] # st,
             \A i \in 1..m : steps[i][1] # barred, NEW i \in 1..m
      PROVE  Before(t, i, st, barred)
  <2>1. i \in 1..(m + 1)
    BY <1>1
  <2>. QED
    BY <1>1, <1>3, <2>1, BeforeTaken
<1>. HIDE DEF m, n
<1>4. ASSUME NEW i \in 1..Len(t)
      PROVE  \/ i \in 1..m /\ t[i] = steps[i]
             \/ \E k \in 2..n : i = k + (m - 1) /\ t[i] = s[k]
  <2>1. i \in 1..m \/ (i - (m - 1) \in 2..n /\ i = (i - (m - 1)) + (m - 1))
    BY <1>1
  <2>. QED
    BY <1>1, <2>1
<1>5. Running(t)
  <2>. SUFFICES ASSUME NEW i \in 1..Len(t) PROVE StepOK(t[i]) \/ (i = 1 /\ Begun(t[i]))
    BY DEF Running
  <2>1. \A k \in 2..n : StepOK(s[k])
    <3>1. \A k \in 2..n : k \in 1..n /\ k # 1
      BY <1>1
    <3>. QED
      BY <3>1 DEF Disciplined, Running, n
  <2>. QED
    BY <1>4, <2>1 DEF m
<1>6. Freed(t)
  <2>. SUFFICES ASSUME NEW i \in 1..Len(t), t[i][1] \in Guarded
                PROVE  Before(t, i, <<"unlock">>, "lock")
    BY DEF Freed
  <2>0. \A k \in 1..n : s[k][1] \in Guarded => Before(s, k, <<"unlock">>, "lock")
    BY DEF Disciplined, Freed, n
  <2>1. CASE i \in 1..m /\ t[i] = steps[i]
    <3>1. s[1][1] \in Guarded \ {"unlock"}
      BY <2>1 DEF m
    <3>2. s[1] # <<"unlock">>
      BY <3>1
    <3>3. 1 \in 1..n
      BY <1>1
    <3>4. Before(s, 1, <<"unlock">>, "lock")
      BY <2>0, <3>1, <3>3
    <3>5. \A k \in 1..m : steps[k][1] # "lock"
      BY DEF m
    <3>. QED
      BY <1>3, <2>1, <3>2, <3>4, <3>5
  <2>2. CASE \E k \in 2..n : i = k + (m - 1) /\ t[i] = s[k]
    <3>1. PICK k \in 2..n : i = k + (m - 1) /\ t[i] = s[k]
      BY <2>2
    <3>2. k \in 1..n
      BY <1>1
    <3>. QED
      BY <1>2, <2>0, <3>1, <3>2
  <2>. QED
    BY <1>4, <2>1, <2>2
<1>7. Locked(t)
  <2>. SUFFICES ASSUME NEW i \in 1..Len(t), NEW j \in (i + 1)..Len(t),
                       t[i][1] = "unlock", t[j][1] = "unlock"
                PROVE  LockIn(t, i, j)
    BY DEF Locked
  <2>1. \A k \in 1..m : steps[k][1] # "unlock"
    BY DEF m
  <2>2. PICK a \in 2..n : i = a + (m - 1) /\ t[i] = s[a]
    BY <1>4, <2>1
  <2>3. PICK b \in 2..n : j = b + (m - 1) /\ t[j] = s[b]
    <3>1. j \in 1..Len(t)
      BY <1>1
    <3>. QED
      BY <1>4, <2>1, <3>1
  <2>4. a \in 1..n /\ b \in (a + 1)..n
    BY <1>1, <2>2, <2>3
  <2>5. LockIn(s, a, b)
    BY <2>2, <2>3, <2>4 DEF Disciplined, Locked, n
  <2>6. PICK k \in a..b : s[k][1] = "lock"
    BY <2>5 DEF LockIn
  <2>7. k \in 2..n /\ k + (m - 1) \in i..j
    BY <1>1, <2>2, <2>3
  <2>. QED
    BY <1>1, <2>6, <2>7 DEF LockIn
<1>8. Cleared(t)
  <2>. SUFFICES ASSUME NEW i \in 1..Len(t), t[i][1] = "lock", t[i][2] = TRUE
                PROVE  Before(t, i, <<"clear">>, "unlock")
    BY DEF Cleared
  <2>1. \A k \in 1..m : steps[k][1] # "lock"
    BY DEF m
  <2>2. PICK a \in 2..n : i = a + (m - 1) /\ t[i] = s[a]
    BY <1>4, <2>1
  <2>3. a \in 1..n
    BY <1>1
  <2>4. Before(s, a, <<"clear">>, "unlock")
    BY <2>2, <2>3 DEF Disciplined, Cleared, n
  <2>. QED
    BY <1>2, <2>2, <2>4
<1>9. Paired(t)
  <2>. SUFFICES ASSUME NEW i \in 1..Len(t), t[i][1] = "enter"
                PROVE  i + 1 \in 1..Len(t) /\ t[i + 1][1] = "exit"
    BY DEF Paired
  <2>1. \A k \in 1..m : steps[k][1] # "enter"
    BY DEF m
  <2>2. PICK a \in 2..n : i = a + (m - 1) /\ t[i] = s[a]
    BY <1>4, <2>1
  <2>3. a \in 1..n
    BY <1>1
  <2>4. a + 1 \in 1..n /\ s[a + 1][1] = "exit"
    BY <2>2, <2>3 DEF Disciplined, Paired, n
  <2>5. a + 1 \in 2..n /\ (a + 1) + (m - 1) = i + 1 /\ i + 1 \in 1..Len(t)
    BY <1>1, <2>2, <2>4
  <2>. QED
    BY <1>1, <2>4, <2>5
<1>10. Zeroed(t)
  <2>. SUFFICES ASSUME NEW i \in 1..Len(t), t[i][1] \in {"exit", "add"},
                       NEW p \in Probes, NEW f \in Fields
                PROVE  Before(t, i, <<"zero", p, f>>, "unlock")
    BY DEF Zeroed
  <2>0. \A k \in 1..n : s[k][1] \in {"exit", "add"} => Before(s, k, <<"zero", p, f>>, "unlock")
    BY DEF Disciplined, Zeroed, n
  <2>1. CASE i \in 1..m /\ t[i] = steps[i]
    <3>1. s[1][1] = "exit"
      BY <2>1 DEF m
    <3>2. s[1] # <<"zero", p, f>>
      BY <3>1
    <3>3. 1 \in 1..n
      BY <1>1
    <3>4. Before(s, 1, <<"zero", p, f>>, "unlock")
      BY <2>0, <3>1, <3>3
    <3>5. \A k \in 1..m : steps[k][1] # "unlock"
      BY DEF m
    <3>. QED
      BY <1>3, <2>1, <3>2, <3>4, <3>5
  <2>2. CASE \E k \in 2..n : i = k + (m - 1) /\ t[i] = s[k]
    <3>1. PICK k \in 2..n : i = k + (m - 1) /\ t[i] = s[k]
      BY <2>2
    <3>2. k \in 1..n
      BY <1>1
    <3>. QED
      BY <1>2, <2>0, <3>1, <3>2
  <2>. QED
    BY <1>4, <2>1, <2>2
<1>11. ASSUME \/ s[1][1] # "lock" /\ Outside(s)
              \/ s[1][1] = "unlock"
       PROVE  Outside(t)
  <2>. SUFFICES ASSUME NEW j \in 1..Len(t), t[j][1] = "unlock"
                PROVE  LockIn(t, 1, j)
    BY DEF Outside
  <2>1. \A k \in 1..m : steps[k][1] # "unlock"
    BY DEF m
  <2>2. PICK b \in 2..n : j = b + (m - 1) /\ t[j] = s[b]
    BY <1>4, <2>1
  <2>3. LockIn(s, 1, b)
    <3>1. 1 \in 1..n /\ b \in 1..n /\ b \in (1 + 1)..n
      BY <1>1
    <3>. QED
      BY <1>11, <2>2, <3>1 DEF Disciplined, Locked, Outside, n
  <2>4. PICK k \in 1..b : s[k][1] = "lock"
    BY <2>3 DEF LockIn
  <2>5. k # 1
    BY <1>11, <2>4
  <2>6. k \in 2..n /\ k + (m - 1) \in 1..j
    BY <1>1, <2>2, <2>4, <2>5
  <2>. QED
    BY <1>1, <2>4, <2>6 DEF LockIn
<1>. QED
  BY <1>1, <1>5, <1>6, <1>7, <1>8, <1>9, <1>10, <1>11 DEF Disciplined

----------------------------------------------------------------------------
(* The calls keep to it.                                                   *)

Good(s) == Typed(s) /\ Disciplined(s) /\ Outside(s)

\* What stands between taking the lock and releasing it.
Inner(s) == IsSeq(s) /\ Typed(s) /\ Paired(s) /\ \A i \in 1..Len(s) : s[i][1] \notin {"lock", "unlock", "ask", "look", "rows"}

\* All statistics are zeroed.
Resets(s) == \A p \in Probes, f \in Fields : \E j \in 1..Len(s) : s[j] = <<"zero", p, f>>

LEMMA BeforeBehind ==
  ASSUME NEW x, IsSeq(x), NEW y, IsSeq(y), NEW z, z = x \o y, NEW st, NEW barred
  PROVE  /\ \A i \in 1..Len(x) : Before(x, i, st, barred) => Before(z, i, st, barred)
         /\ \A i \in 1..Len(y) : Before(y, i, st, barred) => Before(z, Len(x) + i, st, barred)
<1>1. /\ Len(x) \in Nat /\ Len(y) \in Nat /\ Len(z) = Len(x) + Len(y)
      /\ \A i \in 1..Len(x) : z[i] = x[i]
      /\ \A i \in 1..Len(y) : z[Len(x) + i] = y[i]
  BY Behind
<1>2. ASSUME NEW i \in 1..Len(x), Before(x, i, st, barred) PROVE Before(z, i, st, barred)
  <2>1. \A k \in i..Len(x) : k + 0 \in 1..Len(z) /\ z[k + 0] = x[k]
    BY <1>1
  <2>2. 0 \in Int /\ Len(z) \in Nat /\ i + 0 = i
    BY <1>1
  <2>3. Before(z, i + 0, st, barred)
    BY <1>1, <1>2, <2>1, <2>2, BeforeMoved
  <2>. QED
    BY <2>2, <2>3
<1>3. ASSUME NEW i \in 1..Len(y), Before(y, i, st, barred)
      PROVE  Before(z, Len(x) + i, st, barred)
  <2>1. PICK d \in Int : d = Len(x)
    BY <1>1
  <2>2. \A k \in i..Len(y) : k + d \in 1..Len(z) /\ z[k + d] = y[k]
    <3>1. \A k \in i..Len(y) : k \in 1..Len(y) /\ k + d = Len(x) + k /\ Len(x) + k \in 1..Len(z)
      BY <1>1, <2>1
    <3>. QED
      BY <1>1, <3>1
  <2>3. Len(z) \in Nat /\ i + d = Len(x) + i
    BY <1>1, <2>1
  <2>4. Before(z, i + d, st, barred)
    BY <1>1, <1>3, <2>2, <2>3, BeforeMoved
  <2>. QED
    BY <2>3, <2>4
<1>. QED
  BY <1>2, <1>3

LEMMA PlaceBehind ==
  ASSUME NEW x, IsSeq(x), NEW y, IsSeq(y), NEW z, z = x \o y, NEW i \in 1..Len(z)
  PROVE  \/ i \in 1..Len(x) /\ z[i] = x[i]
         \/ \E k \in 1..Len(y) : i = Len(x) + k /\ z[i] = y[k]
<1>1. /\ Len(x) \in Nat /\ Len(y) \in Nat /\ Len(z) = Len(x) + Len(y)
      /\ \A k \in 1..Len(x) : z[k] = x[k]
      /\ \A k \in 1..Len(y) : z[Len(x) + k] = y[k]
  BY Behind
<1>2. i \in 1..Len(x) \/ (i - Len(x) \in 1..Len(y) /\ i = Len(x) + (i - Len(x)))
  BY <1>1
<1>. QED
  BY <1>1, <1>2

(* What two lists both keep to, they keep to behind one another. *)
LEMMA PartsBehind ==
  ASSUME NEW x, IsSeq(x), NEW y, IsSeq(y), NEW z, z = x \o y
  PROVE  /\ IsSeq(z)
         /\ Typed(x) /\ Typed(y) => Typed(z)
         /\ Paired(x) /\ Paired(y) => Paired(z)
         /\ Zeroed(x) /\ Zeroed(y) => Zeroed(z)
         /\ Cleared(x) /\ Cleared(y) => Cleared(z)
         /\ Freed(x) /\ Freed(y) => Freed(z)
         /\ \A no : /\ \A i \in 1..Len(x) : x[i][1] \notin no
                    /\ \A i \in 1..Len(y) : y[i][1] \notin no
                    => \A i \in 1..Len(z) : z[i][1] \notin no
<1>1. /\ IsSeq(z) /\ Len(x) \in Nat /\ Len(y) \in Nat /\ Len(z) = Len(x) + Len(y)
      /\ \A i \in 1..Len(x) : z[i] = x[i]
      /\ \A i \in 1..Len(y) : z[Len(x) + i] = y[i]
  BY Behind
<1>2. ASSUME NEW i \in 1..Len(z)
      PROVE  \/ i \in 1..Len(x) /\ z[i] = x[i]
             \/ \E k \in 1..Len(y) : i = Len(x) + k /\ z[i] = y[k]
  BY PlaceBehind
<1>3. ASSUME NEW st, NEW barred
      PROVE  /\ \A i \in 1..Len(x) : Before(x, i, st, barred) => Before(z, i, st, barred)
             /\ \A i \in 1..Len(y) : Before(y, i, st, barred) => Before(z, Len(x) + i, st, barred)
  BY BeforeBehind
<1>4. ASSUME Typed(x), Typed(y) PROVE Typed(z)
  BY <1>2, <1>4 DEF Typed
<1>5. ASSUME Paired(x), Paired(y) PROVE Paired(z)
  <2>. SUFFICES ASSUME NEW i \in 1..Len(z), z[i][1] = "enter"
                PROVE  i + 1 \in 1..Len(z) /\ z[i + 1][1] = "exit"
    BY DEF Paired
  <2>1. CASE i \in 1..Len(x) /\ z[i] = x[i]
    <3>1. i + 1 \in 1..Len(x) /\ x[i + 1][1] = "exit"
      BY <1>5, <2>1 DEF Paired
    <3>. QED
      BY <1>1, <3>1
  <2>2. CASE \E k \in 1..Len(y) : i = Len(x) + k /\ z[i] = y[k]
    <3>1. PICK k \in 1..Len(y) : i = Len(x) + k /\ z[i] = y[k]
      BY <2>2
    <3>2. k + 1 \in 1..Len(y) /\ y[k + 1][1] = "exit"
      BY <1>5, <3>1 DEF Paired
    <3>3. Len(x) + (k + 1) = i + 1 /\ i + 1 \in 1..Len(z)
      BY <1>1, <3>1, <3>2
    <3>. QED
      BY <1>1, <3>2, <3>3
  <2>. QED
    BY <1>2, <2>1, <2>2
<1>6. ASSUME Zeroed(x), Zeroed(y) PROVE Zeroed(z)
  <2>. SUFFICES ASSUME NEW i \in 1..Len(z), z[i][1] \in {"exit", "add"},
                       NEW p \in Probes, NEW f \in Fields
                PROVE  Before(z, i, <<"zero", p, f>>, "unlock")
    BY DEF Zeroed
  <2>. QED
    BY <1>2, <1>3, <1>6 DEF Zeroed
<1>7. ASSUME Cleared(x), Cleared(y) PROVE Cleared(z)
  <2>. SUFFICES ASSUME NEW i \in 1..Len(z), z[i][1] = "lock", z[i][2] = TRUE
                PROVE  Before(z, i, <<"clear">>, "unlock")
    BY DEF Cleared
  <2>1. CASE i \in 1..Len(x) /\ z[i] = x[i]
    <3>1. Before(x, i, <<"clear">>, "unlock")
      BY <1>7, <2>1 DEF Cleared
    <3>. QED
      BY <1>3, <2>1, <3>1
  <2>2. CASE \E k \in 1..Len(y) : i = Len(x) + k /\ z[i] = y[k]
    <3>1. PICK k \in 1..Len(y) : i = Len(x) + k /\ z[i] = y[k]
      BY <2>2
    <3>2. Before(y, k, <<"clear">>, "unlock")
      BY <1>7, <3>1 DEF Cleared
    <3>. QED
      BY <1>3, <3>1, <3>2
  <2>. QED
    BY <1>2, <2>1, <2>2
<1>8. ASSUME Freed(x), Freed(y) PROVE Freed(z)
  <2>. SUFFICES ASSUME NEW i \in 1..Len(z), z[i][1] \in Guarded
                PROVE  Before(z, i, <<"unlock">>, "lock")
    BY DEF Freed
  <2>. QED
    BY <1>2, <1>3, <1>8 DEF Freed
<1>9. ASSUME NEW no, \A i \in 1..Len(x) : x[i][1] \notin no, \A i \in 1..Len(y) : y[i][1] \notin no
      PROVE  \A i \in 1..Len(z) : z[i][1] \notin no
  BY <1>2, <1>9
<1>. QED
  BY <1>1, <1>4, <1>5, <1>6, <1>7, <1>8, <1>9

LEMMA GoodBehind ==
  ASSUME NEW x, Good(x), NEW y, Good(y)
  PROVE  Good(x \o y)
<1>. PICK z : z = x \o y
  OBVIOUS
<1>1. IsSeq(x) /\ IsSeq(y)
  BY DEF Good, Disciplined
<1>2. /\ IsSeq(z) /\ Len(x) \in Nat /\ Len(y) \in Nat /\ Len(z) = Len(x) + Len(y)
      /\ \A i \in 1..Len(x) : z[i] = x[i]
      /\ \A i \in 1..Len(y) : z[Len(x) + i] = y[i]
  BY <1>1, Behind
<1>3. ASSUME NEW i \in 1..Len(z)
      PROVE  \/ i \in 1..Len(x) /\ z[i] = x[i]
             \/ \E k \in 1..Len(y) : i = Len(x) + k /\ z[i] = y[k]
  BY <1>1, PlaceBehind
<1>4. IsSeq(z) /\ Typed(z) /\ Paired(z) /\ Zeroed(z) /\ Cleared(z) /\ Freed(z)
  BY <1>1, PartsBehind DEF Good, Disciplined
<1>4a. Running(z)
  BY <1>4 DEF Typed, Running
<1>5. ASSUME NEW i \in 1..Len(x), NEW j \in 1..Len(x), LockIn(x, i, j)
      PROVE  LockIn(z, i, j)
  BY <1>2, <1>5 DEF LockIn
<1>6. ASSUME NEW i \in 1..Len(y), NEW j \in 1..Len(y), LockIn(y, i, j), NEW l \in 1..(Len(x) + i)
      PROVE  LockIn(z, l, Len(x) + j)
  <2>1. PICK k \in i..j : y[k][1] = "lock"
    BY <1>6 DEF LockIn
  <2>2. k \in 1..Len(y) /\ Len(x) + k \in l..(Len(x) + j)
    BY <1>2, <2>1
  <2>. QED
    BY <1>2, <2>1, <2>2 DEF LockIn
<1>7. Outside(z)
  <2>. SUFFICES ASSUME NEW j \in 1..Len(z), z[j][1] = "unlock" PROVE LockIn(z, 1, j)
    BY DEF Outside
  <2>1. CASE j \in 1..Len(x) /\ z[j] = x[j]
    <3>1. LockIn(x, 1, j) /\ 1 \in 1..Len(x)
      BY <1>2, <2>1 DEF Good, Outside
    <3>. QED
      BY <1>5, <2>1, <3>1
  <2>2. CASE \E k \in 1..Len(y) : j = Len(x) + k /\ z[j] = y[k]
    <3>1. PICK k \in 1..Len(y) : j = Len(x) + k /\ z[j] = y[k]
      BY <2>2
    <3>2. LockIn(y, 1, k) /\ 1 \in 1..Len(y) /\ 1 \in 1..(Len(x) + 1)
      BY <1>2, <3>1 DEF Good, Outside
    <3>. QED
      BY <1>6, <3>1, <3>2
  <2>. QED
    BY <1>3, <2>1, <2>2
<1>8. Locked(z)
  <2>. SUFFICES ASSUME NEW i \in 1..Len(z), NEW j \in (i + 1)..Len(z),
                       z[i][1] = "unlock", z[j][1] = "unlock"
                PROVE  LockIn(z, i, j)
    BY DEF Locked
  <2>0. j \in 1..Len(z) /\ i < j
    BY <1>2
  <2>1. CASE j \in 1..Len(x) /\ z[j] = x[j]
    <3>1. i \in 1..Len(x) /\ z[i] = x[i] /\ j \in (i + 1)..Len(x)
      BY <1>2, <2>0, <2>1
    <3>2. LockIn(x, i, j)
      BY <2>1, <3>1 DEF Good, Disciplined, Locked
    <3>. QED
      BY <1>5, <2>1, <3>1, <3>2
  <2>2. CASE \E k \in 1..Len(y) : j = Len(x) + k /\ z[j] = y[k]
    <3>1. PICK b \in 1..Len(y) : j = Len(x) + b /\ z[j] = y[b]
      BY <2>2
    <3>2. CASE i \in 1..Len(x) /\ z[i] = x[i]
      <4>1. LockIn(y, 1, b) /\ 1 \in 1..Len(y) /\ i \in 1..(Len(x) + 1)
        BY <1>2, <3>1, <3>2 DEF Good, Outside
      <4>. QED
        BY <1>6, <3>1, <4>1
    <3>3. CASE \E k \in 1..Len(y) : i = Len(x) + k /\ z[i] = y[k]
      <4>1. PICK a \in 1..Len(y) : i = Len(x) + a /\ z[i] = y[a]
        BY <3>3
      <4>2. b \in (a + 1)..Len(y) /\ i \in 1..(Len(x) + a)
        BY <1>2, <2>0, <3>1, <4>1
      <4>3. LockIn(y, a, b)
        BY <3>1, <4>1, <4>2 DEF Good, Disciplined, Locked
      <4>. QED
        BY <1>6, <3>1, <4>2, <4>3
    <3>. QED
      BY <1>3, <3>2, <3>3
  <2>. QED
    BY <1>3, <2>0, <2>1, <2>2
<1>. QED
  BY <1>4, <1>4a, <1>7, <1>8 DEF Good, Disciplined

LEMMA OneStep ==
  ASSUME NEW st, StepOK(st), st[1] \notin {"lock", "unlock", "ask", "look", "rows", "enter"}
  PROVE  /\ Inner(<<st>>)
         /\ st[1] \notin {"exit", "add"} => Zeroed(<<st>>)
         /\ Len(<<st>>) = 1 /\ <<st>>[1] = st
<1>1. Len(<<st>>) = 1 /\ <<st>>[1] = st /\ <<st>> \in Seq({st})
  OBVIOUS
<1>2. IsSeq(<<st>>)
  BY <1>1, IsSeqOf
<1>3. \A i \in 1..Len(<<st>>) : <<st>>[i] = st
  BY <1>1
<1>. QED
  BY <1>1, <1>2, <1>3 DEF Inner, Typed, Paired, Zeroed

Has(s, st) == \E j \in 1..Len(s) : s[j] = st

LEMMA FoundBehind ==
  ASSUME NEW x, IsSeq(x), NEW y, IsSeq(y), NEW st
  PROVE  Has(x, st) \/ Has(y, st) => Has(x \o y, st)
<1>. PICK z : z = x \o y
  OBVIOUS
<1>1. /\ Len(x) \in Nat /\ Len(y) \in Nat /\ Len(z) = Len(x) + Len(y)
      /\ \A i \in 1..Len(x) : z[i] = x[i]
      /\ \A i \in 1..Len(y) : z[Len(x) + i] = y[i]
  BY Behind
<1>2. \A i \in 1..Len(x) : i \in 1..Len(z)
  BY <1>1
<1>3. \A i \in 1..Len(y) : Len(x) + i \in 1..Len(z)
  BY <1>1
<1>4. Has(x, st) \/ Has(y, st) => Has(z, st)
  BY <1>1, <1>2, <1>3 DEF Has
<1>. QED
  BY <1>4

LEMMA InnerBehind ==
  ASSUME NEW x, Inner(x), NEW y, Inner(y)
  PROVE  /\ Inner(x \o y)
         /\ Zeroed(x) /\ Zeroed(y) => Zeroed(x \o y)
         /\ Zeroed(y) /\ Resets(y) => Zeroed(x \o y) /\ Resets(x \o y)
<1>. PICK z : z = x \o y
  OBVIOUS
<1>1. /\ IsSeq(x) /\ Typed(x) /\ Paired(x) /\ \A i \in 1..Len(x) : x[i][1] \notin {"lock", "unlock", "ask", "look", "rows"}
      /\ IsSeq(y) /\ Typed(y) /\ Paired(y) /\ \A i \in 1..Len(y) : y[i][1] \notin {"lock", "unlock", "ask", "look", "rows"}
  BY DEF Inner
<1>2. /\ IsSeq(z) /\ Len(x) \in Nat /\ Len(y) \in Nat /\ Len(z) = Len(x) + Len(y)
      /\ \A i \in 1..Len(x) : z[i] = x[i]
      /\ \A i \in 1..Len(y) : z[Len(x) + i] = y[i]
  BY <1>1, Behind
<1>3. /\ Typed(z) /\ Paired(z) /\ Zeroed(x) /\ Zeroed(y) => Zeroed(z)
      /\ \A i \in 1..Len(z) : z[i][1] \notin {"lock", "unlock", "ask", "look", "rows"}
  BY <1>1, PartsBehind
<1>4. Typed(z) /\ Paired(z)
  BY <1>1, PartsBehind
<1>6. \A i \in 1..Len(y) : Len(x) + i \in 1..Len(z)
  BY <1>2
<1>7. ASSUME NEW st, \E j \in 1..Len(y) : y[j] = st
      PROVE  \E j \in 1..Len(z) : z[j] = st
  BY <1>2, <1>6, <1>7
<1>8. ASSUME Zeroed(y), Resets(y) PROVE Zeroed(z) /\ Resets(z)
  <2>1. Resets(z)
    BY <1>7, <1>8 DEF Resets
  <2>2. ASSUME NEW i \in 1..Len(z), z[i][1] \in {"exit", "add"}, NEW p \in Probes, NEW f \in Fields
        PROVE  Before(z, i, <<"zero", p, f>>, "unlock")
    <3>1. CASE i \in 1..Len(x) /\ z[i] = x[i]
      <4>1. PICK j \in 1..Len(y) : y[j] = <<"zero", p, f>>
        BY <1>8 DEF Resets
      <4>2. Len(x) + j \in i..Len(z) /\ z[Len(x) + j] = <<"zero", p, f>>
        BY <1>2, <3>1, <4>1
      <4>3. \A k \in i..(Len(x) + j) : k \in 1..Len(z)
        BY <1>2, <4>2
      <4>4. \A k \in i..(Len(x) + j) : z[k][1] # "unlock"
        BY <1>3, <4>3
      <4>. QED
        BY <4>2, <4>4 DEF Before
    <3>2. CASE \E k \in 1..Len(y) : i = Len(x) + k /\ z[i] = y[k]
      <4>1. PICK k \in 1..Len(y) : i = Len(x) + k /\ z[i] = y[k]
        BY <3>2
      <4>2. Before(y, k, <<"zero", p, f>>, "unlock")
        BY <1>8, <2>2, <4>1 DEF Zeroed
      <4>. QED
        BY <1>1, <4>1, <4>2, BeforeBehind
    <3>. QED
      BY <1>1, <3>1, <3>2, PlaceBehind
  <2>. QED
    BY <2>1, <2>2 DEF Zeroed
<1>. QED
  BY <1>2, <1>3, <1>4, <1>8 DEF Inner

LEMMA OneAlphabet ==
  ASSUME NEW n \in Nat, NEW seqs, \A i \in 1..n : IsSeq(seqs[i])
  PROVE  \E S : \A i \in 1..n : seqs[i] \in Seq(S)
<1>1. PICK S : S = UNION {ToSet(seqs[i]) : i \in 1..n}
  OBVIOUS
<1>2. ASSUME NEW i \in 1..n PROVE seqs[i] \in Seq(S)
  <2>1. PICK s : s = seqs[i]
    OBVIOUS
  <2>2. s \in Seq(ToSet(s)) /\ ToSet(s) \subseteq S
    BY <1>1, <2>1 DEF IsSeq
  <2>3. Len(s) \in Nat /\ DOMAIN s = 1..Len(s) /\ \A k \in 1..Len(s) : s[k] \in S
    BY <2>2, LenProperties, ElementOfSeq
  <2>4. s = [k \in 1..Len(s) |-> s[k]]
    BY <2>2, <2>3
  <2>5. s \in Seq(S)
    BY <2>3, <2>4
  <2>. QED
    BY <2>1, <2>5
<1>. QED
  BY <1>2

(* Lists that stand inside a lock, put behind one another. *)
LEMMA InnerFlatten ==
  ASSUME NEW n \in Nat, NEW seqs, seqs = [i \in 1..n |-> seqs[i]], \A i \in 1..n : Inner(seqs[i]),
         NEW no, \A i \in 1..n : \A k \in 1..Len(seqs[i]) : seqs[i][k][1] \notin no
  PROVE  /\ Inner(FlattenSeq(seqs))
         /\ \A k \in 1..Len(FlattenSeq(seqs)) : FlattenSeq(seqs)[k][1] \notin no
         /\ \A i \in 1..n : \A k \in 1..Len(seqs[i]) :
              \E j \in 1..Len(FlattenSeq(seqs)) : FlattenSeq(seqs)[j] = seqs[i][k]
<1>1. seqs \in Seq({seqs[i] : i \in 1..n}) /\ Len(seqs) = n
  OBVIOUS
<1>2. CASE n = 0
  <2>1. FlattenSeq(seqs) = seqs /\ IsSeq(seqs)
    BY <1>1, <1>2, IsSeqOf DEF FlattenSeq
  <2>. QED
    BY <1>1, <1>2, <2>1 DEF Inner, Typed, Paired
<1>3. CASE n # 0
  <2>1. PICK S : \A i \in 1..n : seqs[i] \in Seq(S)
    BY OneAlphabet DEF Inner
  <2> DEFINE has(x, i) == \A l \in 1..i : \A k \in 1..Len(seqs[l]) :
                            \E j \in 1..Len(x) : x[j] = seqs[l][k]
             fits(x, i) == Inner(x) /\ (\A k \in 1..Len(x) : x[k][1] \notin no) /\ has(x, i)
  <2>2. PICK G : G = [i \in 1..n |-> {x \in Seq(S) : fits(x, i)}]
    OBVIOUS
  <2>3. seqs[1] \in G[1]
    <3>1. 1 \in 1..n /\ has(seqs[1], 1)
      BY <1>3
    <3>. QED
      BY <2>1, <2>2, <3>1
  <2>4. ASSUME NEW i \in 1..(n - 1), NEW x \in G[i] PROVE x \o seqs[i + 1] \in G[i + 1]
    <3>1. i \in 1..n /\ i + 1 \in 1..n
      BY <1>3
    <3>2. PICK y : y = seqs[i + 1]
      OBVIOUS
    <3>3. x \in Seq(S) /\ fits(x, i) /\ y \in Seq(S) /\ Inner(y)
      BY <2>1, <2>2, <3>1, <3>2
    <3>4. x \o y \in Seq(S) /\ Inner(x \o y)
      BY <3>3, InnerBehind
    <3>5. \A k \in 1..Len(x \o y) : (x \o y)[k][1] \notin no
      <4>1. \A k \in 1..Len(y) : y[k][1] \notin no
        BY <3>1, <3>2
      <4>. QED
        BY <3>3, <4>1, PartsBehind DEF Inner
    <3>6. has(x \o y, i + 1)
      <4>. SUFFICES ASSUME NEW l \in 1..(i + 1), NEW k \in 1..Len(seqs[l])
                    PROVE  \E j \in 1..Len(x \o y) : (x \o y)[j] = seqs[l][k]
        OBVIOUS
      <4>1. l \in 1..i \/ l = i + 1
        OBVIOUS
      <4>2. (\E j \in 1..Len(x) : x[j] = seqs[l][k]) \/ (\E j \in 1..Len(y) : y[j] = seqs[l][k])
        BY <3>2, <3>3, <4>1
      <4>3. PICK st : st = seqs[l][k]
        OBVIOUS
      <4>4. Has(x, st) \/ Has(y, st)
        BY <4>2, <4>3 DEF Has
      <4>5. IsSeq(x) /\ IsSeq(y)
        BY <3>3 DEF Inner
      <4>6. Has(x \o y, st)
        BY <4>4, <4>5, FoundBehind
      <4>. QED
        BY <4>3, <4>6 DEF Has
    <3>7. fits(x \o y, i + 1)
      BY <3>4, <3>5, <3>6
    <3>. HIDE DEF fits
    <3>8. x \o y \in G[i + 1]
      BY <2>2, <3>1, <3>4, <3>7
    <3>. QED
      BY <3>2, <3>8
  <2>5. FlattenSeq(seqs) \in G[n]
    <3>1. seqs # <<>>
      BY <1>1, <1>3
    <3>. QED
      BY <1>1, <2>3, <2>4, <3>1, FlattenIn
  <2>6. fits(FlattenSeq(seqs), n)
    <3>1. n \in 1..n
      BY <1>3
    <3>. QED
      BY <2>2, <2>5, <3>1
  <2>. QED
    BY <2>6
<1>. QED
  BY <1>2, <1>3

LEMMA AllInner ==
  ASSUME NEW n \in Nat, NEW seqs, seqs = [i \in 1..n |-> seqs[i]], \A i \in 1..n : Inner(seqs[i])
  PROVE  Inner(FlattenSeq(seqs))
<1>1. PICK no : no = {}
  OBVIOUS
<1>2. \A i \in 1..n : \A k \in 1..Len(seqs[i]) : seqs[i][k][1] \notin no
  BY <1>1
<1>. QED
  BY <1>2, InnerFlatten, ZenonT(30)

LEMMA EachProbe ==
  /\ Cardinality(Probes) \in Nat
  /\ \A i \in 1..Cardinality(Probes) : i - 1 \in Probes
  /\ \A p \in Probes : p + 1 \in 1..Cardinality(Probes) /\ (p + 1) - 1 = p
<1>1. Cardinality(Probes) \in Nat /\ Probes = 0..(Cardinality(Probes) - 1)
  BY NativeAssumption, FS_CardinalityType
<1>2. PICK n \in Nat : n = Cardinality(Probes) /\ Probes = 0..(n - 1)
  BY <1>1
<1>3. \A i \in 1..n : i - 1 \in 0..(n - 1)
  OBVIOUS
<1>4. \A p \in 0..(n - 1) : p + 1 \in 1..n /\ (p + 1) - 1 = p
  OBVIOUS
<1>. QED
  BY <1>2, <1>3, <1>4

LEMMA ResetJdbcParts ==
  /\ Inner(ResetJdbc) /\ Zeroed(ResetJdbc) /\ Resets(ResetJdbc)
<1> DEFINE zeros(p) == <<<<"zero", p, "self">>, <<"zero", p, "total">>, <<"zero", p, "invocations">>>>
<1>1. ASSUME NEW p \in Probes
      PROVE  /\ Inner(zeros(p)) /\ Len(zeros(p)) = 3
             /\ \A k \in 1..3 : zeros(p)[k][1] \notin {"exit", "add"}
             /\ \A f \in Fields : \E k \in 1..3 : zeros(p)[k] = <<"zero", p, f>>
  <2>1. PICK z : z = zeros(p)
    OBVIOUS
  <2>2. /\ Len(z) = 3 /\ z[1] = <<"zero", p, "self">> /\ z[2] = <<"zero", p, "total">>
        /\ z[3] = <<"zero", p, "invocations">>
        /\ z \in Seq({<<"zero", p, f>> : f \in Fields})
    BY <2>1 DEF Fields
  <2>3. \A k \in 1..3 : z[k] \in {<<"zero", p, f>> : f \in Fields}
    BY <2>2 DEF Fields
  <2>4. \A f \in Fields : StepOK(<<"zero", p, f>>) /\ <<"zero", p, f>>[1] = "zero"
    BY DEF StepOK
  <2>5. \A k \in 1..3 : StepOK(z[k]) /\ z[k][1] = "zero"
    BY <2>3, <2>4
  <2>6. IsSeq(z)
    BY <2>2, IsSeqOf
  <2>7. Inner(z) /\ \A k \in 1..3 : z[k][1] \notin {"exit", "add"}
    BY <2>2, <2>5, <2>6 DEF Inner, Typed, Paired
  <2>8. \A f \in Fields : \E k \in 1..3 : z[k] = <<"zero", p, f>>
    BY <2>2 DEF Fields
  <2>. QED
    BY <2>1, <2>2, <2>7, <2>8
<1>. HIDE DEF zeros
<1>2. PICK n \in Nat : n = Cardinality(Probes)
  BY EachProbe
<1>3. PICK seqs : seqs = [i \in 1..n |-> zeros(i - 1)]
  OBVIOUS
<1>4. ResetJdbc = FlattenSeq(seqs)
  <2>1. Each([p \in Probes |-> zeros(p)]) = seqs
    BY <1>2, <1>3, EachProbe DEF Each
  <2>. QED
    BY <2>1 DEF ResetJdbc, zeros
<1>5. PICK r : r = ResetJdbc
  OBVIOUS
<1>6. \A i \in 1..n : i - 1 \in Probes
  BY <1>2, EachProbe
<1>7. /\ seqs = [i \in 1..n |-> seqs[i]] /\ \A i \in 1..n : Inner(seqs[i]) /\ Len(seqs[i]) = 3
      /\ \A i \in 1..n : \A k \in 1..3 : seqs[i][k][1] \notin {"exit", "add"}
  BY <1>1, <1>3, <1>6
<1>8. /\ Inner(r) /\ \A k \in 1..Len(r) : r[k][1] \notin {"exit", "add"}
      /\ \A i \in 1..n : \A k \in 1..3 : \E j \in 1..Len(r) : r[j] = seqs[i][k]
  <2>1. \A i \in 1..n : \A k \in 1..Len(seqs[i]) : seqs[i][k][1] \notin {"exit", "add"}
    BY <1>7
  <2>2. PICK no : no = {"exit", "add"}
    OBVIOUS
  <2>3. seqs = [i \in 1..n |-> seqs[i]] /\ \A i \in 1..n : Inner(seqs[i])
    BY <1>7
  <2>4. \A i \in 1..n : \A k \in 1..Len(seqs[i]) : seqs[i][k][1] \notin no
    BY <2>1, <2>2
  <2>5. /\ Inner(FlattenSeq(seqs))
        /\ \A k \in 1..Len(FlattenSeq(seqs)) : FlattenSeq(seqs)[k][1] \notin no
        /\ \A i \in 1..n : \A k \in 1..Len(seqs[i]) :
              \E j \in 1..Len(FlattenSeq(seqs)) : FlattenSeq(seqs)[j] = seqs[i][k]
    <3>1. Inner(FlattenSeq(seqs))
      BY <2>3, <2>4, InnerFlatten
    <3>2. \A k \in 1..Len(FlattenSeq(seqs)) : FlattenSeq(seqs)[k][1] \notin no
      BY <2>3, <2>4, InnerFlatten
    <3>3. \A i \in 1..n : \A k \in 1..Len(seqs[i]) :
            \E j \in 1..Len(FlattenSeq(seqs)) : FlattenSeq(seqs)[j] = seqs[i][k]
      BY <2>3, <2>4, InnerFlatten, ZenonT(120)
    <3>. QED
      BY <3>1, <3>2, <3>3
  <2>6. r = FlattenSeq(seqs)
    BY <1>4, <1>5
  <2>7. /\ Inner(r) /\ \A k \in 1..Len(r) : r[k][1] \notin {"exit", "add"}
        /\ \A i \in 1..n : \A k \in 1..Len(seqs[i]) : \E j \in 1..Len(r) : r[j] = seqs[i][k]
    BY <2>2, <2>5, <2>6
  <2>. QED
    BY <1>7, <2>7
<1>9. Zeroed(r)
  BY <1>8 DEF Zeroed
<1>10. ASSUME NEW p \in Probes, NEW f \in Fields PROVE \E j \in 1..Len(r) : r[j] = <<"zero", p, f>>
  <2>1. p + 1 \in 1..n /\ (p + 1) - 1 = p
    BY <1>2, EachProbe
  <2>2. seqs[p + 1] = zeros(p)
    BY <1>3, <2>1
  <2>3. PICK k \in 1..3 : zeros(p)[k] = <<"zero", p, f>>
    BY <1>1
  <2>4. PICK j \in 1..Len(r) : r[j] = seqs[p + 1][k]
    BY <1>8, <2>1
  <2>. QED
    BY <2>2, <2>3, <2>4
<1>. QED
  BY <1>5, <1>8, <1>9, <1>10 DEF Resets

(* A calibration: whatever it counts is zeroed at its end. *)
LEMMA CalibrateParts ==
  ASSUME NEW native \in BOOLEAN
  PROVE  Inner(Calibrate(native)) /\ Zeroed(Calibrate(native))
<1> DEFINE forget == <<<<"forget">>>>
           call(p) == <<<<"enter", p>>, <<"exit", p>>>>
           calls(p) == FlattenSeq([i \in 1..Iterations |-> call(p)])
           one(p) == calls(p) \o <<<<"average", p>>>> \o ResetJdbc
           ones == [i \in 1..Cardinality(Probes) |-> one(i - 1)]
<1>1. Inner(forget) /\ Zeroed(forget)
  <2>1. StepOK(<<"forget">>) /\ <<"forget">>[1] \notin {"lock", "unlock", "ask", "look", "rows", "enter", "exit", "add"}
    BY DEF StepOK
  <2>. QED
    BY <2>1, OneStep
<1>2. ASSUME NEW p \in Probes PROVE Inner(calls(p))
  <2>1. PICK z : z = call(p)
    OBVIOUS
  <2>2. /\ Len(z) = 2 /\ z[1] = <<"enter", p>> /\ z[2] = <<"exit", p>>
        /\ z \in Seq({<<"enter", p>>, <<"exit", p>>})
    BY <2>1
  <2>3. IsSeq(z)
    BY <2>2, IsSeqOf
  <2>4. \A k \in 1..2 : StepOK(z[k]) /\ z[k][1] \notin {"lock", "unlock", "ask", "look", "rows"}
    BY <2>2 DEF StepOK
  <2>5. \A k \in 1..2 : z[k][1] = "enter" => k = 1
    BY <2>2
  <2>6. Inner(z)
    BY <2>2, <2>3, <2>4, <2>5 DEF Inner, Typed, Paired
  <2>7. PICK seqs : seqs = [i \in 1..Iterations |-> z]
    OBVIOUS
  <2>8. /\ Iterations \in Nat /\ seqs = [i \in 1..Iterations |-> seqs[i]]
        /\ \A i \in 1..Iterations : Inner(seqs[i])
    BY <2>6, <2>7, NativeAssumption
  <2>9. Inner(FlattenSeq(seqs))
    BY <2>8, AllInner
  <2>. QED
    BY <2>1, <2>7, <2>9
<1>3. ASSUME NEW p \in Probes PROVE Inner(one(p))
  <2>1. StepOK(<<"average", p>>) /\ <<"average", p>>[1] \notin {"lock", "unlock", "ask", "look", "rows", "enter"}
    BY DEF StepOK
  <2>2. Inner(<<<<"average", p>>>>)
    BY <2>1, OneStep
  <2>3. Inner(calls(p) \o <<<<"average", p>>>>)
    BY <1>2, <2>2, InnerBehind
  <2>. QED
    BY <2>3, ResetJdbcParts, InnerBehind
<1>. HIDE DEF one
<1>4. Inner(FlattenSeq(ones))
  <2>1. PICK n \in Nat : n = Cardinality(Probes)
    BY EachProbe
  <2>2. PICK seqs : seqs = ones
    OBVIOUS
  <2>3. \A i \in 1..n : i - 1 \in Probes
    BY <2>1, EachProbe
  <2>4. seqs = [i \in 1..n |-> seqs[i]] /\ \A i \in 1..n : Inner(seqs[i])
    BY <1>3, <2>1, <2>2, <2>3
  <2>5. Inner(FlattenSeq(seqs))
    BY <2>4, AllInner
  <2>. QED
    BY <2>2, <2>5
<1>5. Each([p \in Probes |-> one(p)]) = ones
  BY EachProbe DEF Each
<1>6. CASE native
  <2>1. Calibrate(native) = forget \o (ResetJdbc \o FlattenSeq(ones) \o ResetJdbc)
    BY <1>5, <1>6 DEF Calibrate, one
  <2>2. Inner(ResetJdbc \o FlattenSeq(ones))
    BY <1>4, ResetJdbcParts, InnerBehind
  <2>3. /\ Inner(ResetJdbc \o FlattenSeq(ones) \o ResetJdbc)
        /\ Zeroed(ResetJdbc \o FlattenSeq(ones) \o ResetJdbc)
    BY <2>2, ResetJdbcParts, InnerBehind
  <2>4. /\ Inner(forget \o (ResetJdbc \o FlattenSeq(ones) \o ResetJdbc))
        /\ Zeroed(forget \o (ResetJdbc \o FlattenSeq(ones) \o ResetJdbc))
    BY <1>1, <2>3, InnerBehind
  <2>. QED
    BY <2>1, <2>4
<1>7. CASE ~native
  <2>1. Calibrate(native) = forget \o <<>>
    BY <1>7 DEF Calibrate
  <2>2. forget \o <<>> = forget
    OBVIOUS
  <2>. QED
    BY <1>1, <2>1, <2>2
<1>. QED
  BY <1>6, <1>7

----------------------------------------------------------------------------
(* The commands are such lists.                                            *)

LEMMA Plain ==
  ASSUME NEW S, \A st \in S : StepOK(st) /\ st[1] \notin {"lock", "unlock", "ask", "look", "rows", "enter", "exit", "add"},
         NEW s \in Seq(S)
  PROVE  Inner(s) /\ Zeroed(s)
<1>1. IsSeq(s) /\ \A i \in 1..Len(s) : s[i] \in S
  BY IsSeqOf, ElementOfSeq
<1>. QED
  BY <1>1 DEF Inner, Typed, Paired, Zeroed

LEMMA PlainGood ==
  ASSUME NEW S, \A st \in S : StepOK(st) /\ st[1] \notin Guarded \cup {"lock"}, NEW s \in Seq(S)
  PROVE  Good(s)
<1>1. IsSeq(s) /\ \A i \in 1..Len(s) : s[i] \in S
  BY IsSeqOf, ElementOfSeq
<1>2. \A i \in 1..Len(s) : StepOK(s[i]) /\ s[i][1] \notin Guarded \cup {"lock"}
  BY <1>1
<1>3. Len(s) \in Nat
  BY <1>1, IsSeqOf
<1>4. \A i \in 1..Len(s) : s[i][1] \notin {"lock", "unlock", "enter", "exit", "add"}
  BY <1>2 DEF Guarded
<1>5. Typed(s) /\ Running(s) /\ Freed(s)
  BY <1>2 DEF Typed, Running, Freed
<1>6. Locked(s) /\ Cleared(s) /\ Paired(s) /\ Zeroed(s) /\ Outside(s)
  BY <1>3, <1>4 DEF Locked, Cleared, Paired, Zeroed, Outside
<1>. QED
  BY <1>1, <1>5, <1>6 DEF Good, Disciplined

LEMMA Joined ==
  /\ \A a, b : <<a>> \o <<b>> = <<a, b>>
  /\ \A a, b, c : <<a, b>> \o <<c>> = <<a, b, c>>
  /\ \A a, b, c : <<a>> \o <<b, c>> = <<a, b, c>>
  /\ \A a, b, c, d : <<a, b, c>> \o <<d>> = <<a, b, c, d>>
<1>1. ASSUME NEW a, NEW b
      PROVE  <<a>> \o <<b>> = <<a, b>>
  <2>1. PICK s : s = <<a>> \o <<b>>
    OBVIOUS
  <2>2. PICK r : r = <<a, b>>
    OBVIOUS
  <2>3. Len(s) = 2 /\ s \in Seq({a, b}) /\ s[1] = a /\ s[2] = b
    BY <2>1
  <2>4. Len(r) = 2 /\ r \in Seq({a, b}) /\ r[1] = a /\ r[2] = b
    BY <2>2
  <2>5. \A i \in 1..2 : i = 1 \/ i = 2
    OBVIOUS
  <2>6. \A i \in 1..2 : s[i] = r[i]
    BY <2>3, <2>4, <2>5
  <2>7. s = r
    BY <2>3, <2>4, <2>6, SeqEqual
  <2>. QED
    BY <2>1, <2>2, <2>7
<1>2. ASSUME NEW a, NEW b, NEW c
      PROVE  <<a, b>> \o <<c>> = <<a, b, c>>
  <2>1. PICK s : s = <<a, b>> \o <<c>>
    OBVIOUS
  <2>2. PICK r : r = <<a, b, c>>
    OBVIOUS
  <2>3. Len(s) = 3 /\ s \in Seq({a, b, c}) /\ s[1] = a /\ s[2] = b /\ s[3] = c
    BY <2>1
  <2>4. Len(r) = 3 /\ r \in Seq({a, b, c}) /\ r[1] = a /\ r[2] = b /\ r[3] = c
    BY <2>2
  <2>5. \A i \in 1..3 : i = 1 \/ i = 2 \/ i = 3
    OBVIOUS
  <2>6. \A i \in 1..3 : s[i] = r[i]
    BY <2>3, <2>4, <2>5
  <2>7. s = r
    BY <2>3, <2>4, <2>6, SeqEqual
  <2>. QED
    BY <2>1, <2>2, <2>7
<1>3. ASSUME NEW a, NEW b, NEW c
      PROVE  <<a>> \o <<b, c>> = <<a, b, c>>
  <2>1. PICK s : s = <<a>> \o <<b, c>>
    OBVIOUS
  <2>2. PICK r : r = <<a, b, c>>
    OBVIOUS
  <2>3. Len(s) = 3 /\ s \in Seq({a, b, c}) /\ s[1] = a /\ s[2] = b /\ s[3] = c
    BY <2>1
  <2>4. Len(r) = 3 /\ r \in Seq({a, b, c}) /\ r[1] = a /\ r[2] = b /\ r[3] = c
    BY <2>2
  <2>5. \A i \in 1..3 : i = 1 \/ i = 2 \/ i = 3
    OBVIOUS
  <2>6. \A i \in 1..3 : s[i] = r[i]
    BY <2>3, <2>4, <2>5
  <2>7. s = r
    BY <2>3, <2>4, <2>6, SeqEqual
  <2>. QED
    BY <2>1, <2>2, <2>7
<1>4. ASSUME NEW a, NEW b, NEW c, NEW d
      PROVE  <<a, b, c>> \o <<d>> = <<a, b, c, d>>
  <2>1. PICK s : s = <<a, b, c>> \o <<d>>
    OBVIOUS
  <2>2. PICK r : r = <<a, b, c, d>>
    OBVIOUS
  <2>3. Len(s) = 4 /\ s \in Seq({a, b, c, d}) /\ s[1] = a /\ s[2] = b /\ s[3] = c /\ s[4] = d
    BY <2>1
  <2>4. Len(r) = 4 /\ r \in Seq({a, b, c, d}) /\ r[1] = a /\ r[2] = b /\ r[3] = c /\ r[4] = d
    BY <2>2
  <2>5. \A i \in 1..4 : i = 1 \/ i = 2 \/ i = 3 \/ i = 4
    OBVIOUS
  <2>6. \A i \in 1..4 : s[i] = r[i]
    BY <2>3, <2>4, <2>5
  <2>7. s = r
    BY <2>3, <2>4, <2>6, SeqEqual
  <2>. QED
    BY <2>1, <2>2, <2>7
<1>. QED
  BY <1>1, <1>2, <1>3, <1>4

(* Steps between taking the lock and releasing it. *)
LEMMA BetweenLocks ==
  ASSUME NEW b \in BOOLEAN, NEW x, Inner(x), Zeroed(x), b => Has(x, <<"clear">>)
  PROVE  Good(<<<<"lock", b>>>> \o x \o <<<<"unlock">>>>)
<1>. PICK l : l = <<<<"lock", b>>>>
  OBVIOUS
<1>. PICK u : u = <<<<"unlock">>>>
  OBVIOUS
<1>. PICK y : y = l \o x
  OBVIOUS
<1>. PICK z : z = y \o u
  OBVIOUS
<1>1. /\ IsSeq(l) /\ Len(l) = 1 /\ l[1] = <<"lock", b>>
      /\ IsSeq(u) /\ Len(u) = 1 /\ u[1] = <<"unlock">>
  <2>1. l \in Seq({<<"lock", b>>}) /\ u \in Seq({<<"unlock">>})
    OBVIOUS
  <2>2. IsSeq(l) /\ IsSeq(u)
    BY <2>1, IsSeqOf
  <2>. QED
    BY <2>2
<1>2. IsSeq(x) /\ Typed(x) /\ Paired(x) /\ \A i \in 1..Len(x) : x[i][1] \notin {"lock", "unlock"}
  BY DEF Inner
<1>3. /\ IsSeq(y) /\ Len(x) \in Nat /\ Len(y) = 1 + Len(x)
      /\ y[1] = <<"lock", b>> /\ \A i \in 1..Len(x) : y[1 + i] = x[i]
  <2>1. IsSeq(y)
    BY <1>1, <1>2, Behind
  <2>2. Len(x) \in Nat /\ Len(y) = Len(l) + Len(x)
    BY <1>1, <1>2, Behind
  <2>3. \A i \in 1..Len(l) : y[i] = l[i]
    BY <1>1, <1>2, Behind
  <2>4. \A i \in 1..Len(x) : y[Len(l) + i] = x[i]
    BY <1>1, <1>2, Behind
  <2>. QED
    BY <1>1, <2>1, <2>2, <2>3, <2>4
<1>. PICK n \in Nat : n = Len(x)
  BY <1>3
<1>4. /\ IsSeq(z) /\ Len(z) = n + 2
      /\ z[1] = <<"lock", b>> /\ z[n + 2] = <<"unlock">> /\ \A i \in 1..n : z[1 + i] = x[i]
  <2>1. IsSeq(z)
    BY <1>1, <1>3, Behind
  <2>2. Len(y) \in Nat /\ Len(z) = Len(y) + Len(u)
    BY <1>1, <1>3, Behind
  <2>3. \A i \in 1..Len(y) : z[i] = y[i]
    BY <1>1, <1>3, Behind
  <2>4. \A i \in 1..Len(u) : z[Len(y) + i] = u[i]
    BY <1>1, <1>3, Behind
  <2>5. Len(y) = n + 1 /\ Len(z) = n + 2
    BY <1>1, <1>3, <2>2
  <2>6. z[(n + 1) + 1] = <<"unlock">>
    <3>1. z[Len(y) + 1] = u[1]
      BY <1>1, <2>4
    <3>. QED
      BY <1>1, <2>5, <3>1
  <2>7. z[1] = <<"lock", b>>
    BY <1>3, <2>3, <2>5
  <2>8. \A i \in 1..n : z[1 + i] = x[i]
    <3>1. \A i \in 1..n : 1 + i \in 1..Len(y)
      BY <2>5
    <3>. QED
      BY <1>3, <2>3, <3>1
  <2>9. (n + 1) + 1 = n + 2
    OBVIOUS
  <2>. QED
    BY <2>1, <2>5, <2>6, <2>7, <2>8, <2>9
<1>5. ASSUME NEW i \in 1..Len(z)
      PROVE  \/ i = 1 /\ z[i] = <<"lock", b>>
             \/ i = n + 2 /\ z[i] = <<"unlock">>
             \/ \E k \in 1..n : i = 1 + k /\ z[i] = x[k]
  <2>1. i = 1 \/ i = n + 2 \/ (i - 1 \in 1..n /\ i = 1 + (i - 1))
    BY <1>4
  <2>. QED
    BY <1>4, <2>1
<1>6. \A k \in 1..n : /\ StepOK(x[k]) /\ x[k][1] # "lock" /\ x[k][1] # "unlock"
                      /\ x[k][1] = "enter" => k + 1 \in 1..n /\ x[k + 1][1] = "exit"
  BY <1>2 DEF Typed, Paired
<1>7. Typed(z)
  <2>1. PICK on, off : on = <<"lock", b>> /\ off = <<"unlock">>
    OBVIOUS
  <2>2. StepOK(on) /\ StepOK(off)
    BY <2>1 DEF StepOK
  <2>3. ASSUME NEW i \in 1..Len(z) PROVE z[i] = on \/ z[i] = off \/ \E k \in 1..n : z[i] = x[k]
    BY <1>5, <2>1
  <2>. QED
    BY <1>6, <2>2, <2>3 DEF Typed
<1>8. ASSUME NEW i \in 1..Len(z), z[i][1] = "unlock" PROVE i = n + 2
  BY <1>5, <1>6, <1>8
<1>9. ASSUME NEW i \in 1..Len(z), z[i][1] = "lock" PROVE i = 1
  BY <1>5, <1>6, <1>9
<1>10. Freed(z)
  <2>. SUFFICES ASSUME NEW i \in 1..Len(z), z[i][1] \in Guarded
                PROVE  Before(z, i, <<"unlock">>, "lock")
    BY DEF Freed
  <2>1. i # 1
    BY <1>4 DEF Guarded
  <2>2. n + 2 \in i..Len(z)
    BY <1>4
  <2>3. \A k \in i..(n + 2) : k \in 1..Len(z) /\ k # 1
    BY <1>4, <2>1
  <2>4. \A k \in i..(n + 2) : z[k][1] # "lock"
    BY <1>9, <2>3
  <2>. QED
    BY <1>4, <2>2, <2>4 DEF Before
<1>11. Locked(z)
  <2>. SUFFICES ASSUME NEW i \in 1..Len(z), NEW j \in (i + 1)..Len(z),
                       z[i][1] = "unlock", z[j][1] = "unlock"
                PROVE  FALSE
    BY DEF Locked
  <2>1. j \in 1..Len(z) /\ i < j
    BY <1>4
  <2>2. i = n + 2 /\ j = n + 2
    BY <1>8, <2>1
  <2>. QED
    BY <2>1, <2>2
<1>12. Cleared(z)
  <2>. SUFFICES ASSUME NEW i \in 1..Len(z), z[i][1] = "lock", z[i][2] = TRUE
                PROVE  Before(z, i, <<"clear">>, "unlock")
    BY DEF Cleared
  <2>1. i = 1 /\ b = TRUE
    BY <1>4, <1>9
  <2>2. PICK j \in 1..n : x[j] = <<"clear">>
    BY <2>1 DEF Has
  <2>3. 1 + j \in i..Len(z) /\ z[1 + j] = <<"clear">>
    BY <1>4, <2>1, <2>2
  <2>4. \A k \in i..(1 + j) : k \in 1..Len(z) /\ k # n + 2
    BY <1>4, <2>1
  <2>5. \A k \in i..(1 + j) : z[k][1] # "unlock"
    BY <1>8, <2>4
  <2>. QED
    BY <2>3, <2>5 DEF Before
<1>13. Paired(z)
  <2>. SUFFICES ASSUME NEW i \in 1..Len(z), z[i][1] = "enter"
                PROVE  i + 1 \in 1..Len(z) /\ z[i + 1][1] = "exit"
    BY DEF Paired
  <2>1. PICK k \in 1..n : i = 1 + k /\ z[i] = x[k]
    BY <1>5
  <2>2. k + 1 \in 1..n /\ x[k + 1][1] = "exit"
    BY <1>6, <2>1
  <2>3. 1 + (k + 1) = i + 1 /\ i + 1 \in 1..Len(z)
    BY <1>4, <2>1, <2>2
  <2>. QED
    BY <1>4, <2>2, <2>3
<1>14. Zeroed(z)
  <2>. SUFFICES ASSUME NEW i \in 1..Len(z), z[i][1] \in {"exit", "add"},
                       NEW p \in Probes, NEW f \in Fields
                PROVE  Before(z, i, <<"zero", p, f>>, "unlock")
    BY DEF Zeroed
  <2>1. PICK k \in 1..n : i = 1 + k /\ z[i] = x[k]
    BY <1>5
  <2>2. Before(x, k, <<"zero", p, f>>, "unlock")
    BY <2>1 DEF Zeroed
  <2>3. \A m \in k..Len(x) : m + 1 \in 1..Len(z) /\ z[m + 1] = x[m]
    <3>1. \A m \in k..n : m \in 1..n /\ 1 + m = m + 1 /\ m + 1 \in 1..Len(z)
      BY <1>4
    <3>. QED
      BY <1>4, <3>1
  <2>4. Len(z) \in Nat /\ 1 \in Int /\ k + 1 = i /\ k \in 1..Len(x) /\ Len(x) \in Nat
    BY <1>4, <2>1
  <2>5. Before(z, k + 1, <<"zero", p, f>>, "unlock")
    BY <2>2, <2>3, <2>4, BeforeMoved
  <2>. QED
    BY <2>4, <2>5
<1>15. Outside(z)
  <2>. SUFFICES ASSUME NEW j \in 1..Len(z), z[j][1] = "unlock" PROVE LockIn(z, 1, j)
    BY DEF Outside
  <2>1. 1 \in 1..j /\ z[1][1] = "lock"
    BY <1>4
  <2>. QED
    BY <2>1 DEF LockIn
<1>. QED
  BY <1>4, <1>7, <1>10, <1>11, <1>12, <1>13, <1>14, <1>15 DEF Good, Disciplined, Typed, Running

\* What a command does under the lock.
Calm(x) == Inner(x) /\ Zeroed(x)

LEMMA CalmBehind ==
  ASSUME NEW x, Calm(x), NEW y, Calm(y)
  PROVE  /\ Calm(x \o y)
         /\ \A st : Has(x, st) \/ Has(y, st) => Has(x \o y, st)
<1>1. IsSeq(x) /\ IsSeq(y)
  BY DEF Calm, Inner
<1>2. \A st : Has(x, st) \/ Has(y, st) => Has(x \o y, st)
  BY <1>1, FoundBehind
<1>3. Calm(x \o y)
  BY InnerBehind DEF Calm
<1>. QED
  BY <1>2, <1>3

LEMMA SnapshotParts == Good(Snapshot) /\ Calm(Snapshot)
<1> DEFINE S == {<<"freeze">>, <<"copy">>, <<"thaw">>}
<1>1. Snapshot \in Seq(S)
  BY DEF Snapshot
<1>2. \A st \in S : StepOK(st) /\ st[1] \in {"freeze", "copy", "thaw"}
  BY DEF StepOK
<1>3. \A st \in S : /\ st[1] \notin {"lock", "unlock", "ask", "look", "rows", "enter", "exit", "add"}
                    /\ st[1] \notin Guarded \cup {"lock"}
  BY <1>2 DEF Guarded
<1>. HIDE DEF S
<1>4. Good(Snapshot)
  BY <1>1, <1>2, <1>3, PlainGood
<1>5. Inner(Snapshot) /\ Zeroed(Snapshot)
  BY <1>1, <1>2, <1>3, Plain
<1>. QED
  BY <1>4, <1>5 DEF Calm

LEMMA StartStepsParts ==
  ASSUME NEW native \in BOOLEAN
  PROVE  Calm(StartSteps(native)) /\ Has(StartSteps(native), <<"clear">>)
<1>. PICK rec : rec = <<<<"record", TRUE>>, <<"clear">>>>
  OBVIOUS
<1>. PICK clear : clear = <<<<"clear">>>>
  OBVIOUS
<1>1. Calm(rec) /\ Calm(clear) /\ Has(clear, <<"clear">>)
  <2> DEFINE S == {<<"record", TRUE>>, <<"clear">>}
  <2>1. rec \in Seq(S) /\ clear \in Seq(S)
    OBVIOUS
  <2>2. \A st \in S : StepOK(st) /\ st[1] \in {"record", "clear"}
    <3>1. PICK a, b : a = <<"record", TRUE>> /\ b = <<"clear">>
      OBVIOUS
    <3>2. StepOK(a) /\ StepOK(b) /\ a[1] \in {"record", "clear"} /\ b[1] \in {"record", "clear"}
      BY <3>1 DEF StepOK
    <3>. QED
      BY <3>1, <3>2, Zenon
  <2>3. \A st \in S : st[1] \notin {"lock", "unlock", "ask", "look", "rows", "enter", "exit", "add"}
    BY <2>2
  <2>4. Len(clear) = 1 /\ clear[1] = <<"clear">>
    OBVIOUS
  <2>. HIDE DEF S
  <2>5. (Inner(rec) /\ Zeroed(rec)) /\ (Inner(clear) /\ Zeroed(clear))
    BY <2>1, <2>2, <2>3, Plain
  <2>. QED
    BY <2>4, <2>5 DEF Calm, Has
<1>2. Calm(ResetJdbc) /\ Calm(Snapshot) /\ Calm(Calibrate(native))
  BY ResetJdbcParts, SnapshotParts, CalibrateParts DEF Calm
<1>3. Calm(StartNative)
  BY <1>1, <1>2, CalmBehind DEF StartNative
<1>4. Calm(ResetJdbc \o StartNative)
  BY <1>2, <1>3, CalmBehind
<1>5. Calm(ResetJdbc \o StartNative \o Snapshot)
  BY <1>2, <1>4, CalmBehind
<1>6. Calm(ResetJdbc \o StartNative \o Snapshot \o clear) /\ Has(ResetJdbc \o StartNative \o Snapshot \o clear, <<"clear">>)
  BY <1>1, <1>5, CalmBehind
<1>7. /\ Calm((ResetJdbc \o StartNative \o Snapshot \o clear) \o Calibrate(native))
      /\ Has((ResetJdbc \o StartNative \o Snapshot \o clear) \o Calibrate(native), <<"clear">>)
  BY <1>2, <1>6, CalmBehind
<1>. QED
  BY <1>7 DEF StartSteps

(* The resets of the Java table are as many sweeps. *)
LEMMA JavaResets ==
  ASSUME NEW S, <<"sweep", Sites>> \in S
  PROVE  ResetJava(1) \in Seq(S) /\ \A mode \in ProbeModes : CalibrateJava(mode) \in Seq(S)
<1>1. ASSUME NEW n \in Nat PROVE ResetJava(n) \in Seq(S)
  BY <1>1 DEF ResetJava
<1>2. Cardinality(Probes) \in Nat
  BY EachProbe
<1>. QED
  BY <1>1, <1>2 DEF CalibrateJava

(* Every command is a list that holds the lock where it has to. *)
LEMMA CommandsGood ==
  ASSUME NEW call \in Commands
  PROVE  Good(call)
<1>1. CASE call \in {StartCommand(TRUE), StartCommand(FALSE)}
  <2>1. PICK native \in BOOLEAN : call = StartCommand(native)
    BY <1>1
  <2>2. Inner(StartSteps(native)) /\ Zeroed(StartSteps(native)) /\ Has(StartSteps(native), <<"clear">>)
    BY StartStepsParts DEF Calm
  <2>. QED
    BY <2>1, <2>2, BetweenLocks DEF StartCommand
<1>2. CASE \E mode \in ProbeModes : call = StartData(mode)
  <2>1. PICK mode \in ProbeModes : call = StartData(mode)
    BY <1>2
  <2> DEFINE l == <<<<"lock", TRUE>>>>
             f == <<<<"flag", TRUE>>>>
             w == ResetJava(1)
             y == CalibrateJava(mode)
             u == <<<<"unlock">>>>
             x == StartSteps(mode = "native")
  <2>2. Calm(f) /\ Calm(w) /\ Calm(y)
    <3>1. \A st \in {<<"flag", TRUE>>, <<"sweep", Sites>>} :
            StepOK(st) /\ st[1] \notin {"lock", "unlock", "ask", "look", "rows", "enter", "exit", "add"}
      <4>1. PICK a, b : a = <<"flag", TRUE>> /\ b = <<"sweep", Sites>>
        OBVIOUS
      <4>2. /\ StepOK(a) /\ a[1] \notin {"lock", "unlock", "ask", "look", "rows", "enter", "exit", "add"}
            /\ StepOK(b) /\ b[1] \notin {"lock", "unlock", "ask", "look", "rows", "enter", "exit", "add"}
        BY <4>1 DEF StepOK
      <4>. QED
        BY <4>1, <4>2, Zenon
    <3>2. f \in Seq({<<"flag", TRUE>>, <<"sweep", Sites>>})
      OBVIOUS
    <3>3. w \in Seq({<<"flag", TRUE>>, <<"sweep", Sites>>}) /\ y \in Seq({<<"flag", TRUE>>, <<"sweep", Sites>>})
      <4>1. <<"sweep", Sites>> \in {<<"flag", TRUE>>, <<"sweep", Sites>>}
        OBVIOUS
      <4>. QED
        BY <4>1, JavaResets
    <3>. QED
      BY <3>1, <3>2, <3>3, Plain DEF Calm
  <2>. HIDE DEF w, y
  <2>3. Calm(x) /\ Has(x, <<"clear">>)
    <3>1. (mode = "native") \in BOOLEAN
      OBVIOUS
    <3>. QED
      BY <3>1, StartStepsParts
  <2>. HIDE DEF x
  <2>4. Calm((f \o w) \o x \o y) /\ Has((f \o w) \o x \o y, <<"clear">>)
    BY <2>2, <2>3, CalmBehind
  <2>5. IsSeq(l) /\ IsSeq(f) /\ IsSeq(w) /\ IsSeq(x) /\ IsSeq(y) /\ IsSeq(u)
    <3>1. IsSeq(f) /\ IsSeq(w) /\ IsSeq(x) /\ IsSeq(y)
      BY <2>2, <2>3 DEF Calm, Inner
    <3>2. l \in Seq({<<"lock", TRUE>>}) /\ u \in Seq({<<"unlock">>})
      OBVIOUS
    <3>3. IsSeq(l) /\ IsSeq(u)
      BY <3>2, IsSeqOf
    <3>. QED
      BY <3>1, <3>3
  <2>6. call = (<<<<"lock", TRUE>>, <<"flag", TRUE>>>> \o w) \o x \o y \o u
    <3>1. StartData(mode) = (<<<<"lock", TRUE>>, <<"flag", TRUE>>>> \o w) \o x \o y \o u
      BY DEF StartData, w, x, y
    <3>. HIDE DEF l, f, w, u
    <3>. QED
      BY <2>1, <3>1, Zenon
  <2>7. <<<<"lock", TRUE>>, <<"flag", TRUE>>>> = l \o f
    BY Joined, Zenon
  <2>8. call = ((l \o f) \o w) \o x \o y \o u
    BY <2>6, <2>7
  <2>9. call = l \o ((f \o w) \o x \o y) \o u
    BY <2>5, <2>8 DEF IsSeq
  <2>. QED
    BY <2>4, <2>9, BetweenLocks DEF Calm
<1>3. CASE call \in {StopCommand, StopData}
  <2> DEFINE l == <<<<"lock", FALSE>>>>
             r == <<<<"record", FALSE>>>>
             f == <<<<"record", FALSE>>, <<"flag", FALSE>>>>
             u == <<<<"unlock">>>>
  <2>1. Calm(r) /\ Calm(f)
    <3>1. \A st \in {<<"flag", FALSE>>, <<"record", FALSE>>} :
            StepOK(st) /\ st[1] \notin {"lock", "unlock", "ask", "look", "rows", "enter", "exit", "add"}
      <4>1. PICK a, b : a = <<"flag", FALSE>> /\ b = <<"record", FALSE>>
        OBVIOUS
      <4>2. /\ StepOK(a) /\ a[1] \notin {"lock", "unlock", "ask", "look", "rows", "enter", "exit", "add"}
            /\ StepOK(b) /\ b[1] \notin {"lock", "unlock", "ask", "look", "rows", "enter", "exit", "add"}
        BY <4>1 DEF StepOK
      <4>. QED
        BY <4>1, <4>2, Zenon
    <3>2. r \in Seq({<<"flag", FALSE>>, <<"record", FALSE>>}) /\ f \in Seq({<<"flag", FALSE>>, <<"record", FALSE>>})
      OBVIOUS
    <3>. QED
      BY <3>1, <3>2, Plain DEF Calm
  <2>2. Good(l \o r \o u) /\ Good(l \o f \o u)
    <3>1. ASSUME NEW x, Calm(x) PROVE Good(l \o x \o u)
      <4>1. PICK b \in BOOLEAN : b = FALSE
        OBVIOUS
      <4>2. Good(<<<<"lock", b>>>> \o x \o <<<<"unlock">>>>)
        BY <3>1, <4>1, BetweenLocks DEF Calm
      <4>. QED
        BY <4>1, <4>2
    <3>. HIDE DEF l, r, f, u
    <3>. QED
      BY <2>1, <3>1
  <2>3. StopCommand = l \o r \o u /\ StopData = l \o f \o u
    <3>1. PICK w, x, y, z : /\ w = <<"lock", FALSE>> /\ x = <<"record", FALSE>>
                            /\ y = <<"flag", FALSE>> /\ z = <<"unlock">>
      OBVIOUS
    <3>2. l = <<w>> /\ r = <<x>> /\ f = <<x, y>> /\ u = <<z>>
      BY <3>1
    <3>3. StopCommand = <<w, x, z>> /\ StopData = <<w, x, y, z>>
      BY <3>1, Zenon DEF StopCommand, StopData
    <3>. HIDE DEF l, r, f, u
    <3>4. <<w>> \o <<x>> = <<w, x>> /\ <<w>> \o <<x, y>> = <<w, x, y>>
      BY Joined, Zenon
    <3>5. l \o r = <<w, x>> /\ l \o f = <<w, x, y>>
      BY <3>2, <3>4
    <3>6. <<w, x>> \o <<z>> = <<w, x, z>>
      BY Joined, SMTT(30)
    <3>6a. <<w, x, y>> \o <<z>> = <<w, x, y, z>>
      BY Joined, SMTT(30)
    <3>7. (l \o r) \o u = <<w, x, z>>
      BY <3>2, <3>5, <3>6, Zenon
    <3>8. (l \o f) \o u = <<w, x, y, z>>
      BY <3>2, <3>5, <3>6a, Zenon
    <3>. QED
      BY <3>3, <3>7, <3>8, Zenon
  <2>. QED
    BY <1>3, <2>2, <2>3
<1>4. CASE call = MemoryCommand
  <2> DEFINE S == {<<"ask">>, <<"look", Sites, {}>>}
  <2>1. MemoryCommand \in Seq(S)
    BY DEF MemoryCommand
  <2>2. \A st \in S : StepOK(st) /\ st[1] \in {"ask", "look"}
    BY DEF StepOK
  <2>3. \A st \in S : st[1] \notin Guarded \cup {"lock"}
    BY <2>2 DEF Guarded
  <2>. HIDE DEF S
  <2>. QED
    BY <1>4, <2>1, <2>2, <2>3, PlainGood
<1>5. CASE call = Snapshot
  BY <1>5, SnapshotParts
<1>. QED
  <2>1. \/ \E native \in BOOLEAN : call = StartCommand(native)
        \/ \E mode \in ProbeModes : call = StartData(mode)
        \/ call \in {StopCommand, StopData} \/ call = Snapshot \/ call = MemoryCommand
    BY Zenon DEF Commands
  <2>2. ASSUME NEW native \in BOOLEAN
        PROVE  StartCommand(native) \in {StartCommand(TRUE), StartCommand(FALSE)}
    <3>1. native = TRUE \/ native = FALSE
      OBVIOUS
    <3>. QED
      BY <3>1, Zenon
  <2>. QED
    BY <1>1, <1>2, <1>3, <1>4, <1>5, <2>1, <2>2, Zenon

(* Any sequence of commands is. *)
LEMMA PlansGood ==
  ASSUME NEW calls, IsSeq(calls), ToSet(calls) \subseteq Commands
  PROVE  Good(FlattenSeq(calls))
<1>. PICK n \in Nat : n = Len(calls)
  BY IsSeqOf DEF IsSeq
<1>1. DOMAIN calls = 1..n /\ calls = [i \in 1..n |-> calls[i]] /\ \A i \in 1..n : Good(calls[i])
  <2>1. DOMAIN calls = 1..Len(calls)
    BY IsSeqOf DEF IsSeq
  <2>2. calls \in Seq(ToSet(calls))
    BY DEF IsSeq
  <2>3. \A i \in 1..n : calls[i] \in Commands
    BY <2>1 DEF ToSet
  <2>4. calls = [i \in 1..n |-> calls[i]]
    BY <2>1, <2>2
  <2>. QED
    BY <2>1, <2>3, <2>4, CommandsGood
<1>2. CASE n = 0
  <2>1. calls = <<>>
    BY <1>1, <1>2
  <2>2. FlattenSeq(calls) = <<>>
    BY <2>1 DEF FlattenSeq
  <2>3. <<>> \in Seq({})
    OBVIOUS
  <2>. QED
    BY <2>2, <2>3, PlainGood
<1>3. CASE n # 0
  <2>0. n \in Nat /\ \A i \in 1..n : IsSeq(calls[i])
    BY <1>1 DEF Good, Disciplined
  <2>1. \E S : \A i \in 1..n : calls[i] \in Seq(S)
    BY <2>0, OneAlphabet
  <2>1a. PICK S : \A i \in 1..n : calls[i] \in Seq(S)
    BY <2>1
  <2>2. PICK G : G = [i \in 1..n |-> {x \in Seq(S) : Good(x)}]
    OBVIOUS
  <2>3. calls[1] \in G[1]
    <3>1. 1 \in 1..n
      BY <1>3
    <3>2. calls[1] \in Seq(S) /\ Good(calls[1])
      BY <1>1, <2>1a, <3>1
    <3>. QED
      BY <2>2, <3>1, <3>2
  <2>4. ASSUME NEW i \in 1..(n - 1), NEW x \in G[i] PROVE x \o calls[i + 1] \in G[i + 1]
    <3>1. i \in 1..n /\ i + 1 \in 1..n
      BY <1>3
    <3>2. PICK y : y = calls[i + 1]
      OBVIOUS
    <3>3. x \in Seq(S) /\ Good(x) /\ y \in Seq(S) /\ Good(y)
      BY <1>1, <2>1a, <2>2, <3>1, <3>2
    <3>4. x \o y \in Seq(S) /\ Good(x \o y)
      BY <3>3, GoodBehind
    <3>. QED
      BY <2>2, <3>1, <3>2, <3>4
  <2>5. FlattenSeq(calls) \in G[n]
    <3>1. calls # <<>>
      BY <1>1, <1>3
    <3>2. calls \in Seq(Seq(S))
      BY <1>1, <2>1a
    <3>3. Len(calls) = n
      OBVIOUS
    <3>4. PICK T : T = Seq(S)
      OBVIOUS
    <3>. QED
      BY <2>3, <2>4, <3>1, <3>2, <3>3, <3>4, FlattenIn
  <2>6. n \in 1..n
    BY <1>3
  <2>. QED
    BY <2>2, <2>5, <2>6
<1>. QED
  BY <1>2, <1>3

----------------------------------------------------------------------------
(* Steps taken from the lists.                                             *)

\* What the first step does with the lock.
LockMoves(c) ==
  \/ todo[c][1][1] \notin {"lock", "unlock"} /\ holder' = holder
  \/ todo[c][1][1] = "lock" /\ holder = NoOne /\ holder' = c
  \/ todo[c][1][1] = "unlock" /\ holder' = NoOne

LEMMA TakesIs ==
  ASSUME NEW a, IsSeq(todo[a]), NEW kind, Takes(a, kind)
  PROVE  /\ todo[a] # <<>> /\ todo[a][1][1] = kind
         /\ Head(todo[a]) = todo[a][1] /\ Len(todo[a]) \in Nat \ {0}
         /\ \A i : Arg(a, i) = todo[a][1][i + 1]
<1>1. PICK s : s = todo[a]
  OBVIOUS
<1>2. s \in Seq(ToSet(s)) /\ s # <<>> /\ Head(s)[1] = kind
  BY <1>1 DEF IsSeq, Takes
<1>3. Head(s) = s[1] /\ Len(s) \in Nat \ {0}
  BY <1>2, HeadTailProperties, EmptySeq, LenProperties
<1>. QED
  BY <1>1, <1>2, <1>3 DEF Arg

LEMMA ThenIs ==
  ASSUME todo = [a \in Actors |-> todo[a]], NEW a \in Actors, NEW steps, Then(a, steps)
  PROVE  /\ todo' = [b \in Actors |-> todo'[b]]
         /\ todo'[a] = steps \o Tail(todo[a])
         /\ \A b \in Actors : b # a => todo'[b] = todo[b]
<1>1. DOMAIN todo = Actors
  OBVIOUS
<1>2. todo' = [b \in Actors |-> IF b = a THEN steps \o Tail(todo[a]) ELSE todo[b]]
  BY <1>1 DEF Then
<1>. QED
  BY <1>2

(* Only the holder of the lock stands before a step that takes the lock. *)
LEMMA HolderOnly ==
  ASSUME ListsInv, NEW c \in Connections, todo[c] # <<>>, todo[c][1][1] \in Guarded
  PROVE  c = holder
<1>. SUFFICES ASSUME c # holder PROVE FALSE
  OBVIOUS
<1>1. PICK s : s = todo[c]
  OBVIOUS
<1>2. /\ IsSeq(s) /\ s # <<>> /\ s[1][1] \in Guarded
      /\ \A i \in 1..Len(s) : s[i][1] \in Guarded => Before(s, i, <<"unlock">>, "lock")
      /\ \A j \in 1..Len(s) : s[j][1] = "unlock" => LockIn(s, 1, j)
  BY <1>1 DEF ListsInv, Disciplined, Freed, Outside
<1>3. Len(s) \in Nat \ {0}
  <2>1. s \in Seq(ToSet(s))
    BY <1>2 DEF IsSeq
  <2>. QED
    BY <1>2, <2>1, EmptySeq, LenProperties
<1>4. PICK j \in 1..Len(s) : s[j] = <<"unlock">> /\ \A k \in 1..j : s[k][1] # "lock"
  <2>1. 1 \in 1..Len(s)
    BY <1>3
  <2>2. Before(s, 1, <<"unlock">>, "lock")
    BY <1>2, <2>1
  <2>. QED
    BY <2>2 DEF Before
<1>5. PICK k \in 1..j : s[k][1] = "lock"
  BY <1>2, <1>4 DEF LockIn
<1>. QED
  BY <1>4, <1>5

LEMMA ListsMoved ==
  ASSUME ListsInv, NEW c \in Connections, todo[c] # <<>>, NEW steps, Fits(todo[c], steps),
         Then(c, steps), LockMoves(c)
  PROVE  ListsInv'
<1>1. /\ todo = [a \in Actors |-> todo[a]] /\ c \in Actors
      /\ \A a \in Actors : IsSeq(todo[a])
      /\ holder \in Connections \cup {NoOne}
      /\ \A d \in Connections : Disciplined(todo[d]) /\ (d # holder => Outside(todo[d]))
  BY DEF ListsInv, Actors
<1>2. /\ todo' = [b \in Actors |-> todo'[b]]
      /\ todo'[c] = steps \o Tail(todo[c])
      /\ \A b \in Actors : b # c => todo'[b] = todo[b]
  BY <1>1, ThenIs
<1>3. PICK s, t : s = todo[c] /\ t = todo'[c]
  OBVIOUS
<1>4. /\ Disciplined(t)
      /\ s[1][1] # "lock" /\ Outside(s) => Outside(t)
      /\ s[1][1] = "unlock" => Outside(t)
  <2>1. s # <<>> /\ Disciplined(s) /\ IsSeq(steps) /\ t = steps \o Tail(s)
    BY <1>1, <1>2, <1>3 DEF Fits
  <2>2. Fits(s, steps)
    BY <1>3
  <2>3. Disciplined(t)
    BY <2>1, <2>2, TakenDisciplined
  <2>4. s[1][1] # "lock" /\ Outside(s) => Outside(t)
    BY <2>1, <2>2, TakenDisciplined
  <2>5. s[1][1] = "unlock" => Outside(t)
    BY <2>1, <2>2, TakenDisciplined
  <2>. QED
    BY <2>3, <2>4, <2>5
<1>5. \A a \in Actors : IsSeq(todo'[a])
  <2>1. IsSeq(t)
    BY <1>4 DEF Disciplined
  <2>. QED
    BY <1>1, <1>2, <1>3, <2>1
<1>6. /\ holder' \in Connections \cup {NoOne}
      /\ \A d \in Connections : Disciplined(todo'[d])
  <2>1. \A d \in Connections : d \in Actors
    BY DEF Actors
  <2>. QED
    BY <1>1, <1>2, <1>3, <1>4, <2>1 DEF LockMoves
<1>7. ASSUME NEW d \in Connections, d # holder' PROVE Outside(todo'[d])
  <2>0. d \in Actors /\ NoOne # c /\ NoOne # d
    BY NativeAssumption DEF Actors
  <2>1. CASE s[1][1] \notin {"lock", "unlock"} /\ holder' = holder
    <3>1. Outside(todo[d])
      BY <1>1, <1>7, <2>1
    <3>2. CASE d = c
      BY <1>3, <1>4, <2>1, <3>1, <3>2
    <3>3. CASE d # c
      BY <1>2, <2>0, <3>1, <3>3
    <3>. QED
      BY <3>2, <3>3
  <2>2. CASE s[1][1] = "lock" /\ holder = NoOne /\ holder' = c
    BY <1>1, <1>2, <1>7, <2>0, <2>2
  <2>3. CASE s[1][1] = "unlock" /\ holder' = NoOne
    <3>1. "unlock" \in Guarded
      BY DEF Guarded
    <3>2. c = holder
      BY <1>3, <2>3, <3>1, HolderOnly
    <3>3. CASE d = c
      BY <1>3, <1>4, <2>3, <3>3
    <3>4. CASE d # c
      BY <1>1, <1>2, <2>0, <3>2, <3>4
    <3>. QED
      BY <3>3, <3>4
  <2>. QED
    BY <1>3, <2>1, <2>2, <2>3 DEF LockMoves
<1>. QED
  BY <1>2, <1>5, <1>6, <1>7 DEF ListsInv

(* Steps of a thread leave the connections' lists alone. *)
LEMMA ThreadMoved ==
  ASSUME ListsInv, NEW t \in Threads, todo[t] # <<>>, NEW steps, IsSeq(steps), Then(t, steps),
         holder' = holder
  PROVE  /\ ListsInv'
         /\ \A c \in Connections : todo'[c] = todo[c]
<1>1. /\ todo = [a \in Actors |-> todo[a]] /\ t \in Actors
      /\ \A a \in Actors : IsSeq(todo[a])
      /\ holder \in Connections \cup {NoOne}
      /\ \A d \in Connections : Disciplined(todo[d]) /\ (d # holder => Outside(todo[d]))
      /\ \A d \in Connections : d \in Actors /\ d # t
  BY NativeAssumption DEF ListsInv, Actors
<1>2. /\ todo' = [b \in Actors |-> todo'[b]]
      /\ todo'[t] = steps \o Tail(todo[t])
      /\ \A b \in Actors : b # t => todo'[b] = todo[b]
  BY <1>1, ThenIs
<1>3. IsSeq(todo'[t])
  <2>1. PICK s : s = todo[t]
    OBVIOUS
  <2>2. IsSeq(s) /\ s # <<>>
    BY <1>1, <2>1
  <2>3. IsSeq(steps \o Tail(s))
    BY <2>2, Taken
  <2>. QED
    BY <1>2, <2>1, <2>3
<1>4. \A a \in Actors : IsSeq(todo'[a])
  BY <1>1, <1>2, <1>3
<1>5. \A d \in Connections : todo'[d] = todo[d]
  BY <1>1, <1>2
<1>6. \A d \in Connections : Disciplined(todo'[d]) /\ (d # holder => Outside(todo'[d]))
  BY <1>1, <1>5
<1>. QED
  BY <1>1, <1>2, <1>4, <1>5, <1>6 DEF ListsInv

LEMMA NoSteps ==
  ASSUME NEW s
  PROVE  Fits(s, <<>>)
<1>1. <<>> \in Seq({}) /\ Len(<<>>) = 0
  OBVIOUS
<1>2. IsSeq(<<>>)
  BY <1>1, IsSeqOf
<1>. QED
  BY <1>1, <1>2 DEF Fits

LEMMA OneFits ==
  ASSUME NEW s, NEW st, StepOK(st) \/ (s[1][1] = "sweep" /\ Begun(st)),
         st[1] \notin {"lock", "unlock", "enter", "exit", "add"},
         st[1] \in Guarded => s[1][1] \in Guarded \ {"unlock"},
         st[1] # "ask", st[1] \in {"look", "rows"} => s[1][1] \in {"look", "rows"}
  PROVE  Fits(s, <<st>>)
<1>1. <<st>> \in Seq({st}) /\ Len(<<st>>) = 1 /\ <<st>>[1] = st
  OBVIOUS
<1>2. IsSeq(<<st>>)
  BY <1>1, IsSeqOf
<1>3. \A i \in 1..1 : i = 1
  OBVIOUS
<1>. QED
  BY <1>1, <1>2, <1>3 DEF Fits

Moves(c) ==
  \E steps : todo[c] # <<>> /\ Fits(todo[c], steps) /\ Then(c, steps) /\ LockMoves(c)

(* The lock stays with its holder while its steps to come are ahead of its *)
(* release, and so do those steps.                                         *)
LEMMA HolderKeeps ==
  ASSUME ListsInv, NEW c \in Connections, todo[c] # <<>>, NEW steps, Fits(todo[c], steps),
         Then(c, steps), LockMoves(c), NEW st,
         holder # NoOne, Before(todo[holder], 1, st, "unlock"),
         c = holder => todo[c][1] # st
  PROVE  holder' = holder /\ Before(todo'[holder], 1, st, "unlock")
<1>1. /\ todo = [a \in Actors |-> todo[a]] /\ c \in Actors /\ holder \in Connections
      /\ holder \in Actors /\ \A a \in Actors : IsSeq(todo[a])
  BY DEF ListsInv, Actors
<1>2. /\ todo'[c] = steps \o Tail(todo[c])
      /\ \A b \in Actors : b # c => todo'[b] = todo[b]
  BY <1>1, ThenIs
<1>3. PICK s, t : s = todo[holder] /\ t = todo'[holder]
  OBVIOUS
<1>4. PICK j \in 1..Len(s) : s[j] = st /\ \A k \in 1..j : s[k][1] # "unlock"
  BY <1>3 DEF Before
<1>5. 1 \in 1..j
  <2>1. Len(s) \in Nat
    BY <1>1, <1>3, IsSeqOf DEF IsSeq
  <2>. QED
    BY <1>4, <2>1
<1>6. s[1][1] # "unlock"
  BY <1>4, <1>5
<1>7. CASE c # holder
  <2>1. "unlock" \in Guarded
    BY DEF Guarded
  <2>2. todo[c][1][1] # "unlock"
    BY <1>7, <2>1, HolderOnly
  <2>3. holder' = holder
    BY <2>2 DEF LockMoves
  <2>4. t = s
    BY <1>1, <1>2, <1>3, <1>7
  <2>. QED
    BY <1>3, <2>3, <2>4
<1>8. CASE c = holder
  <2>1. holder' = holder
    BY <1>3, <1>6, <1>8 DEF LockMoves
  <2>2. IsSeq(s) /\ s # <<>> /\ IsSeq(steps) /\ t = steps \o Tail(s) /\ s[1] # st
    BY <1>1, <1>2, <1>3, <1>8 DEF Fits
  <2>3. \A i \in 1..Len(steps) : steps[i][1] # "unlock"
    BY DEF Fits
  <2>4. Before(s, 1, st, "unlock")
    BY <1>3
  <2>5. PICK barred : barred = "unlock"
    OBVIOUS
  <2>6. \A i \in 1..(Len(steps) + 1) : Before(t, i, st, barred)
    BY <2>2, <2>3, <2>4, <2>5, BeforeTaken
  <2>7. 1 \in 1..(Len(steps) + 1)
    <3>1. Len(steps) \in Nat
      BY <2>2, IsSeqOf DEF IsSeq
    <3>. QED
      BY <3>1
  <2>. QED
    BY <1>3, <2>1, <2>5, <2>6, <2>7
<1>. QED
  BY <1>7, <1>8

(* Whoever stands on a probe is the holder of the lock, and leaves it next. *)
LEMMA OnlyOnExit ==
  ASSUME ListsInv, ProbesInv, NEW c \in Connections, todo[c] # <<>>,
         todo[c][1][1] \in Guarded, todo[c][1][1] # "exit"
  PROVE  \A d \in Connections : stack[d] = <<>>
BY HolderOnly DEF ProbesInv

(* Steps that touch no probe. *)
LEMMA ProbesQuiet ==
  ASSUME ListsInv, ProbesInv, NEW c \in Connections, todo[c] # <<>>, NEW steps,
         Fits(todo[c], steps), Then(c, steps), LockMoves(c),
         todo[c][1][1] \notin {"zero", "exit"},
         recording' = recording \/ todo[c][1][1] = "record",
         UNCHANGED <<cpu, stack, stats>>, overhead' \in [Probes -> Nat]
  PROVE  ProbesInv'
<1>1. /\ todo = [a \in Actors |-> todo[a]] /\ c \in Actors
      /\ holder \in Connections \cup {NoOne}
      /\ \A d \in Connections : d \in Actors
  BY DEF ListsInv, Actors
<1>2. \A b \in Actors : b # c => todo'[b] = todo[b]
  BY <1>1, ThenIs
<1>3. ASSUME NEW d \in Connections, stack[d] # <<>>
      PROVE  /\ d = holder' /\ recording' /\ todo'[d] # <<>> /\ todo'[d][1][1] = "exit"
             /\ \E p \in Probes, start \in 0..cpu[d] : stack[d] = <<<<p, start>>>>
  <2>1. /\ d = holder /\ recording /\ todo[d] # <<>> /\ todo[d][1][1] = "exit"
        /\ \E p \in Probes, start \in 0..cpu[d] : stack[d] = <<<<p, start>>>>
    BY <1>3 DEF ProbesInv
  <2>2. d # c
    BY <2>1
  <2>3. todo[c][1][1] \notin Guarded
    BY <2>1, <2>2, HolderOnly
  <2>4. todo[c][1][1] # "unlock" /\ todo[c][1][1] # "record"
    BY <2>3 DEF Guarded
  <2>5. holder' = holder /\ recording'
    <3>1. holder # NoOne
      BY <2>1, NativeAssumption DEF Actors
    <3>. QED
      BY <2>1, <2>4, <3>1 DEF LockMoves
  <2>. QED
    BY <1>1, <1>2, <2>1, <2>2, <2>5
<1>4. ASSUME NEW p \in Probes, NEW f \in Fields, stats[p][f] # 0
      PROVE  holder' # NoOne /\ Before(todo'[holder'], 1, <<"zero", p, f>>, "unlock")
  <2>1. holder # NoOne /\ Before(todo[holder], 1, <<"zero", p, f>>, "unlock")
    BY <1>4 DEF ProbesInv
  <2>2. PICK st : st = <<"zero", p, f>>
    OBVIOUS
  <2>3. todo[c][1] # st
    BY <2>2
  <2>4. Before(todo[holder], 1, st, "unlock")
    BY <2>1, <2>2
  <2>5. holder' = holder /\ Before(todo'[holder], 1, st, "unlock")
    BY <2>1, <2>3, <2>4, HolderKeeps
  <2>. QED
    BY <2>1, <2>2, <2>5
<1>. QED
  BY <1>3, <1>4 DEF ProbesInv

LEMMA TakesOf ==
  ASSUME ListsInv, NEW c \in Connections, NEW kind, Takes(c, kind)
  PROVE  /\ todo[c] # <<>> /\ todo[c][1][1] = kind /\ IsSeq(todo[c])
         /\ StepOK(todo[c][1]) \/ (kind = "sweep" /\ Begun(todo[c][1]))
         /\ \A i : Arg(c, i) = todo[c][1][i + 1]
<1>1. c \in Actors /\ IsSeq(todo[c]) /\ Running(todo[c])
  BY DEF ListsInv, Actors, Disciplined
<1>2. /\ todo[c] # <<>> /\ todo[c][1][1] = kind /\ Len(todo[c]) \in Nat \ {0}
      /\ \A i : Arg(c, i) = todo[c][1][i + 1]
  BY <1>1, TakesIs
<1>3. 1 \in 1..Len(todo[c])
  BY <1>2
<1>. QED
  BY <1>1, <1>2, <1>3 DEF Running, Begun

\* Steps of a connection that touch no probe.
QuietStep(c) ==
  \/ Lock(c) \/ Unlock(c) \/ Record(c) \/ Clear(c) \/ Freeze(c) \/ Copy(c) \/ Thaw(c)
  \/ Forget(c) \/ Average(c) \/ Divide(c)

DataStep(c) ==
  (Flag(c) \/ Sweep(c) \/ Ask(c) \/ Look(c) \/ AppendRow(c) \/ Fallback(c)) /\ UNCHANGED nativeVars

(* The steps a step leaves behind, and what it does with the lock. *)
LEMMA QuietMoves ==
  ASSUME ListsInv, ProbesInv, NEW c \in Connections, QuietStep(c)
  PROVE  \E steps : /\ todo[c] # <<>> /\ Fits(todo[c], steps) /\ Then(c, steps) /\ LockMoves(c)
                    /\ todo[c][1][1] \notin {"zero", "exit"}
                    /\ recording' = recording \/ todo[c][1][1] = "record"
                    /\ UNCHANGED <<cpu, stack, stats>> /\ overhead' \in [Probes -> Nat]
<1>1. /\ overhead \in [Probes -> Nat]
      /\ \A p \in Probes : stats[p] \in [Fields -> Nat]
  BY DEF ProbesInv
<1>2. "self" \in Fields /\ "invocations" \in Fields
  BY DEF Fields
<1>3. Fits(todo[c], <<>>)
  BY NoSteps
<1>4. CASE Lock(c)
  <2>1. Takes(c, "lock") /\ Then(c, <<>>) /\ holder = NoOne /\ holder' = c
    BY <1>4 DEF Lock
  <2>2. recording' = recording /\ UNCHANGED <<cpu, stack, stats, overhead>>
    BY <1>4 DEF Lock, jdbc
  <2>3. todo[c] # <<>> /\ todo[c][1][1] = "lock"
    BY <2>1, TakesOf
  <2>. QED
    BY <1>1, <1>3, <2>1, <2>2, <2>3 DEF LockMoves
<1>5. CASE Unlock(c)
  <2>1. Takes(c, "unlock") /\ Then(c, <<>>) /\ holder' = NoOne
    BY <1>5 DEF Unlock
  <2>2. recording' = recording /\ UNCHANGED <<cpu, stack, stats, overhead>>
    BY <1>5 DEF Unlock, jdbc, memory
  <2>3. todo[c] # <<>> /\ todo[c][1][1] = "unlock"
    BY <2>1, TakesOf
  <2>. QED
    BY <1>1, <1>3, <2>1, <2>2, <2>3 DEF LockMoves
<1>6. CASE Record(c)
  <2>1. Takes(c, "record") /\ Then(c, <<>>) /\ holder' = holder
    BY <1>6 DEF Record
  <2>2. UNCHANGED <<cpu, stack, stats, overhead>>
    BY <1>6 DEF Record, jdbc
  <2>3. todo[c] # <<>> /\ todo[c][1][1] = "record"
    BY <2>1, TakesOf
  <2>. QED
    BY <1>1, <1>3, <2>1, <2>2, <2>3 DEF LockMoves
<1>7. CASE Clear(c) \/ Freeze(c) \/ Copy(c) \/ Thaw(c)
  <2>1. PICK kind \in {"clear", "freeze", "copy", "thaw"} : Takes(c, kind)
    BY <1>7 DEF Clear, Freeze, Copy, Thaw
  <2>2. Then(c, <<>>) /\ holder' = holder
    BY <1>7 DEF Clear, Freeze, Copy, Thaw
  <2>3. recording' = recording /\ UNCHANGED <<cpu, stack, stats, overhead>>
    BY <1>7 DEF Clear, Freeze, Copy, Thaw, jdbc
  <2>4. todo[c] # <<>> /\ todo[c][1][1] = kind
    BY <2>1, TakesOf
  <2>. QED
    BY <1>1, <1>3, <2>1, <2>2, <2>3, <2>4 DEF LockMoves
<1>8. CASE Forget(c)
  <2>1. Takes(c, "forget") /\ Then(c, <<>>) /\ holder' = holder /\ overhead' = [p \in Probes |-> 0]
    BY <1>8 DEF Forget
  <2>2. recording' = recording /\ UNCHANGED <<cpu, stack, stats>>
    BY <1>8 DEF Forget, memory
  <2>3. todo[c] # <<>> /\ todo[c][1][1] = "forget"
    BY <2>1, TakesOf
  <2>. QED
    BY <1>1, <1>3, <2>1, <2>2, <2>3 DEF LockMoves
<1>9. CASE Average(c)
  <2>1. Takes(c, "average") /\ holder' = holder
    BY <1>9 DEF Average
  <2>2. recording' = recording /\ UNCHANGED <<cpu, stack, stats>>
    BY <1>9 DEF Average, memory
  <2>3. todo[c] # <<>> /\ todo[c][1][1] = "average" /\ StepOK(todo[c][1]) /\ Arg(c, 1) = todo[c][1][1 + 1]
    BY <2>1, TakesOf
  <2>4. PICK p : p = Arg(c, 1)
    OBVIOUS
  <2>5. p \in Probes
    BY <2>3, <2>4 DEF StepOK
  <2>6. PICK n \in Nat : n = stats[p]["invocations"]
    BY <1>1, <1>2, <2>5
  <2>7. CASE n = 0
    <3>1. Then(c, <<>>) /\ overhead' = [overhead EXCEPT ![p] = 0]
      BY <1>9, <2>4, <2>6, <2>7 DEF Average
    <3>2. overhead' \in [Probes -> Nat]
      BY <1>1, <3>1
    <3>. QED
      BY <1>3, <2>1, <2>2, <2>3, <3>1, <3>2 DEF LockMoves
  <2>8. CASE n # 0
    <3>1. Then(c, <<<<"divide", p, n>>>>) /\ overhead' = overhead
      BY <1>9, <2>4, <2>6, <2>8 DEF Average
    <3>2. PICK st : st = <<"divide", p, n>>
      OBVIOUS
    <3>3. StepOK(st) /\ st[1] = "divide"
      BY <2>5, <2>8, <3>2 DEF StepOK
    <3>4. todo[c][1][1] \in Guarded \ {"unlock"}
      BY <2>3 DEF Guarded
    <3>5. Fits(todo[c], <<st>>)
      BY <3>3, <3>4, OneFits
    <3>. QED
      BY <1>1, <2>1, <2>2, <2>3, <3>1, <3>2, <3>5 DEF LockMoves
  <2>. QED
    BY <2>7, <2>8
<1>10. CASE Divide(c)
  <2>1. Takes(c, "divide") /\ Then(c, <<>>) /\ holder' = holder
    BY <1>10 DEF Divide
  <2>2. recording' = recording /\ UNCHANGED <<cpu, stack, stats>>
    BY <1>10 DEF Divide, memory
  <2>3. /\ todo[c] # <<>> /\ todo[c][1][1] = "divide" /\ StepOK(todo[c][1])
        /\ Arg(c, 1) = todo[c][1][1 + 1] /\ Arg(c, 2) = todo[c][1][2 + 1]
    BY <2>1, TakesOf
  <2>4. PICK p, n : p = Arg(c, 1) /\ n = Arg(c, 2)
    OBVIOUS
  <2>5. p \in Probes /\ n \in Nat \ {0}
    BY <2>3, <2>4 DEF StepOK
  <2>6. PICK m \in Nat : m = stats[p]["self"]
    BY <1>1, <1>2, <2>5
  <2>7. overhead' = [overhead EXCEPT ![p] = m \div n]
    BY <1>10, <2>4, <2>6 DEF Divide
  <2>8. m \div n \in Nat
    BY <2>5
  <2>9. overhead' \in [Probes -> Nat]
    BY <1>1, <2>7, <2>8
  <2>. QED
    BY <1>3, <2>1, <2>2, <2>3, <2>9 DEF LockMoves
<1>. QED
  BY <1>4, <1>5, <1>6, <1>7, <1>8, <1>9, <1>10 DEF QuietStep

LEMMA DataMoves ==
  ASSUME ListsInv, ProbesInv, NEW c \in Connections, DataStep(c)
  PROVE  \E steps : /\ todo[c] # <<>> /\ Fits(todo[c], steps) /\ Then(c, steps) /\ LockMoves(c)
                    /\ todo[c][1][1] \notin {"zero", "exit"}
                    /\ recording' = recording \/ todo[c][1][1] = "record"
                    /\ UNCHANGED <<cpu, stack, stats>> /\ overhead' \in [Probes -> Nat]
<1>1. overhead' \in [Probes -> Nat] /\ UNCHANGED <<cpu, stack, stats>> /\ recording' = recording /\ holder' = holder
  BY DEF ProbesInv, DataStep, nativeVars, jdbc, memory
<1>2. Fits(todo[c], <<>>)
  BY NoSteps
<1>3. CASE Flag(c) \/ Ask(c)
  <2>1. PICK kind \in {"flag", "ask"} : Takes(c, kind)
    BY <1>3 DEF Flag, Ask
  <2>2. Then(c, <<>>)
    BY <1>3 DEF Flag, Ask
  <2>3. todo[c] # <<>> /\ todo[c][1][1] = kind
    BY <2>1, TakesOf
  <2>. QED
    BY <1>1, <1>2, <2>1, <2>2, <2>3 DEF LockMoves
<1>4. CASE Sweep(c)
  <2>1. Takes(c, "sweep")
    BY <1>4 DEF Sweep
  <2>2. todo[c] # <<>> /\ todo[c][1][1] = "sweep" /\ Arg(c, 1) = todo[c][1][1 + 1]
        /\ (StepOK(todo[c][1]) \/ Begun(todo[c][1]))
    BY <2>1, TakesOf
  <2>3. Arg(c, 1) \subseteq Sites
    BY <2>2 DEF StepOK, Begun
  <2>4. PICK bins, rest : /\ rest = Arg(c, 1) \ bins
                          /\ Then(c, IF rest = {} THEN <<>> ELSE <<<<"sweep", rest>>>>)
    BY <1>4 DEF Sweep
  <2>5. PICK st : st = <<"sweep", rest>>
    OBVIOUS
  <2>6. Begun(st) /\ st[1] = "sweep"
    BY <2>3, <2>4, <2>5 DEF Begun
  <2>7. todo[c][1][1] \in Guarded \ {"unlock"}
    BY <2>2 DEF Guarded
  <2>8. Fits(todo[c], <<st>>)
    BY <2>2, <2>6, <2>7, OneFits
  <2>9. PICK steps : steps = IF rest = {} THEN <<>> ELSE <<st>>
    OBVIOUS
  <2>10. Fits(todo[c], steps) /\ Then(c, steps)
    BY <1>2, <2>4, <2>5, <2>8, <2>9
  <2>. QED
    BY <1>1, <2>2, <2>10 DEF LockMoves
<1>5. ASSUME NEW kind \in {"look", "rows"}, NEW st, st[1] \in {"look", "rows"}, Takes(c, kind), Then(c, <<st>>)
      PROVE  \E steps : /\ todo[c] # <<>> /\ Fits(todo[c], steps) /\ Then(c, steps) /\ LockMoves(c)
                        /\ todo[c][1][1] \notin {"zero", "exit"}
  <2>1. todo[c] # <<>> /\ todo[c][1][1] = kind
    BY <1>5, TakesOf
  <2>2. StepOK(st) /\ st[1] \notin Guarded /\ st[1] \notin {"lock", "unlock", "enter", "exit", "add", "ask"}
    BY <1>5 DEF StepOK, Guarded
  <2>3. Fits(todo[c], <<st>>)
    BY <1>5, <2>1, <2>2, OneFits
  <2>. QED
    BY <1>1, <1>5, <2>1, <2>3 DEF LockMoves
<1>6. CASE Look(c)
  <2>1. PICK st : st[1] \in {"look", "rows"} /\ Then(c, <<st>>)
    <3>1. PICK bins, rest, keys :
            Then(c, IF rest # {} THEN <<<<"look", rest, keys>>>>
                    ELSE <<<<"rows", {p \in keys : Len(p) = 1}, keys>>>>)
      BY <1>6 DEF Look
    <3>2. CASE rest # {}
      <4>1. PICK st : st = <<"look", rest, keys>>
        OBVIOUS
      <4>. QED
        BY <3>1, <3>2, <4>1
    <3>3. CASE rest = {}
      <4>1. PICK st : st = <<"rows", {p \in keys : Len(p) = 1}, keys>>
        OBVIOUS
      <4>. QED
        BY <3>1, <3>3, <4>1
    <3>. QED
      BY <3>2, <3>3
  <2>2. Takes(c, "look")
    BY <1>6 DEF Look
  <2>. QED
    BY <1>1, <1>5, <2>1, <2>2
<1>7. CASE AppendRow(c)
  <2>1. PICK st : st[1] \in {"look", "rows"} /\ Then(c, <<st>>)
    <3>1. PICK x, y : Then(c, <<<<"rows", x, y>>>>)
      BY <1>7 DEF AppendRow
    <3>2. PICK st : st = <<"rows", x, y>>
      OBVIOUS
    <3>. QED
      BY <3>1, <3>2
  <2>2. Takes(c, "rows")
    BY <1>7 DEF AppendRow
  <2>. QED
    BY <1>1, <1>5, <2>1, <2>2
<1>8. CASE Fallback(c)
  <2>1. Takes(c, "rows")
    BY <1>8 DEF Fallback
  <2>2. todo[c] # <<>> /\ todo[c][1][1] = "rows"
    BY <2>1, TakesOf
  <2>3. PICK steps : steps = IF rows[c] = <<>> THEN Snapshot ELSE <<>>
    OBVIOUS
  <2>4. Then(c, steps)
    BY <1>8, <2>3 DEF Fallback
  <2>5. Fits(todo[c], Snapshot)
    <3>1. PICK S : S = {<<"freeze">>, <<"copy">>, <<"thaw">>}
      OBVIOUS
    <3>2. Snapshot \in Seq(S)
      BY <3>1 DEF Snapshot
    <3>3. IsSeq(Snapshot) /\ \A i \in 1..Len(Snapshot) : Snapshot[i] \in S
      BY <3>2, IsSeqOf, ElementOfSeq
    <3>4. \A st \in S : StepOK(st) /\ st[1] \in {"freeze", "copy", "thaw"}
      <4>1. PICK x, y, z : x = <<"freeze">> /\ y = <<"copy">> /\ z = <<"thaw">>
        OBVIOUS
      <4>2. StepOK(x) /\ StepOK(y) /\ StepOK(z) /\ x[1] = "freeze" /\ y[1] = "copy" /\ z[1] = "thaw"
        BY <4>1 DEF StepOK
      <4>. QED
        BY <3>1, <4>1, <4>2, Zenon
    <3>5. \A st \in S : StepOK(st) /\ st[1] \notin Guarded
                             /\ st[1] \notin {"lock", "unlock", "enter", "exit", "add", "ask", "look", "rows"}
      BY <3>4 DEF Guarded
    <3>. QED
      BY <3>3, <3>5 DEF Fits
  <2>6. Fits(todo[c], steps)
    BY <1>2, <2>3, <2>5
  <2>. QED
    BY <1>1, <2>2, <2>4, <2>6 DEF LockMoves
<1>. QED
  BY <1>3, <1>4, <1>6, <1>7, <1>8 DEF DataStep

LEMMA QuietKeeps ==
  ASSUME ListsInv, ProbesInv, NEW c \in Connections, QuietStep(c) \/ DataStep(c)
  PROVE  ListsInv' /\ ProbesInv' /\ Moves(c)
<1>1. PICK steps : /\ todo[c] # <<>> /\ Fits(todo[c], steps) /\ Then(c, steps) /\ LockMoves(c)
                   /\ todo[c][1][1] \notin {"zero", "exit"}
                   /\ recording' = recording \/ todo[c][1][1] = "record"
                   /\ UNCHANGED <<cpu, stack, stats>> /\ overhead' \in [Probes -> Nat]
  BY QuietMoves, DataMoves
<1>2. ListsInv'
  BY <1>1, ListsMoved
<1>3. ProbesInv'
  BY <1>1, ProbesQuiet
<1>4. Moves(c)
  BY <1>1 DEF Moves
<1>. QED
  BY <1>2, <1>3, <1>4

(* The steps of a calibration call. *)
LEMMA StillZeroed ==
  ASSUME ListsInv, ProbesInv, NEW c \in Connections, todo[c] # <<>>, NEW steps,
         Fits(todo[c], steps), Then(c, steps), LockMoves(c),
         NEW p \in Probes, NEW f \in Fields, holder # NoOne,
         Before(todo[holder], 1, <<"zero", p, f>>, "unlock"),
         c = holder => todo[c][1] # <<"zero", p, f>>
  PROVE  holder' # NoOne /\ Before(todo'[holder'], 1, <<"zero", p, f>>, "unlock")
<1>1. PICK st : st = <<"zero", p, f>>
  OBVIOUS
<1>2. Before(todo[holder], 1, st, "unlock") /\ (c = holder => todo[c][1] # st)
  BY <1>1
<1>3. holder' = holder /\ Before(todo'[holder], 1, st, "unlock")
  BY <1>2, HolderKeeps
<1>. QED
  BY <1>1, <1>3

LEMMA EnterKeeps ==
  ASSUME ListsInv, ProbesInv, NEW c \in Connections, Enter(c)
  PROVE  ListsInv' /\ ProbesInv' /\ Moves(c)
<1>1. Takes(c, "enter") /\ Then(c, <<>>) /\ holder' = holder /\ recording' = recording
  BY DEF Enter, memory
<1>2. UNCHANGED <<cpu, stats, overhead>>
  BY DEF Enter
<1>3. /\ todo[c] # <<>> /\ todo[c][1][1] = "enter" /\ IsSeq(todo[c]) /\ StepOK(todo[c][1])
      /\ Arg(c, 1) = todo[c][1][1 + 1]
  BY <1>1, TakesOf
<1>4. PICK p \in Probes : p = Arg(c, 1)
  BY <1>3 DEF StepOK
<1>5. Fits(todo[c], <<>>) /\ LockMoves(c)
  BY <1>1, <1>3, NoSteps DEF LockMoves
<1>6. ListsInv'
  BY <1>1, <1>3, <1>5, ListsMoved
<1>7. c = holder /\ \A d \in Connections : stack[d] = <<>>
  <2>1. todo[c][1][1] \in Guarded /\ todo[c][1][1] # "exit"
    BY <1>3 DEF Guarded
  <2>. QED
    BY <1>3, <2>1, HolderOnly, OnlyOnExit
<1>8. todo'[c] # <<>> /\ todo'[c][1][1] = "exit"
  <2>1. PICK s, t, none : s = todo[c] /\ t = todo'[c] /\ none = <<>>
    OBVIOUS
  <2>2. c \in Actors /\ todo = [a \in Actors |-> todo[a]] /\ Paired(s)
    BY <2>1 DEF ListsInv, Disciplined, Actors
  <2>3. t = none \o Tail(s)
    BY <1>1, <2>1, <2>2, ThenIs
  <2>4. IsSeq(none) /\ Len(none) = 0
    BY <1>5, <2>1 DEF Fits
  <2>5. /\ IsSeq(t) /\ Len(s) \in Nat \ {0} /\ Len(t) = Len(none) + Len(s) - 1
        /\ \A k \in 2..Len(s) : t[k + (Len(none) - 1)] = s[k]
    <3>1. IsSeq(s) /\ s # <<>> /\ IsSeq(none)
      BY <1>3, <2>1, <2>4
    <3>2. PICK u : u = none \o Tail(s)
      OBVIOUS
    <3>3. IsSeq(u) /\ Len(s) \in Nat \ {0}
      BY <3>1, <3>2, Taken
    <3>4. Len(u) = Len(none) + Len(s) - 1
      BY <3>1, <3>2, Taken
    <3>5. \A k \in 2..Len(s) : u[k + (Len(none) - 1)] = s[k]
      BY <3>1, <3>2, Taken
    <3>. QED
      BY <2>3, <3>2, <3>3, <3>4, <3>5
  <2>6. 1 + 1 \in 1..Len(s) /\ s[1 + 1][1] = "exit"
    <3>1. 1 \in 1..Len(s)
      BY <2>5
    <3>. QED
      BY <1>3, <2>1, <2>2, <3>1 DEF Paired
  <2>7. t[2 + (Len(none) - 1)] = s[2] /\ 2 + (Len(none) - 1) = 1 /\ Len(t) > 0
    BY <2>4, <2>5, <2>6
  <2>. QED
    BY <2>1, <2>6, <2>7
<1>9. stack' = IF recording THEN [stack EXCEPT ![c] = Append(@, <<p, cpu[c]>>)] ELSE stack
  BY <1>4 DEF Enter
<1>10. /\ stack' = [d \in Connections |-> stack'[d]]
       /\ \A d \in Connections : stack'[d] # <<>> =>
            d = c /\ recording /\ stack'[d] = <<<<p, cpu[c]>>>>
  <2>1. stack = [d \in Connections |-> stack[d]]
    BY DEF ProbesInv
  <2>2. stack[c] = <<>> /\ \A d \in Connections : stack[d] = <<>>
    BY <1>7
  <2>3. CASE recording
    <3>1. PICK frame : frame = <<p, cpu[c]>>
      OBVIOUS
    <3>2. stack' = [d \in Connections |-> IF d = c THEN Append(stack[c], frame) ELSE stack[d]]
      BY <1>9, <2>1, <2>3, <3>1
    <3>3. Append(stack[c], frame) = <<frame>>
      BY <2>2
    <3>. QED
      BY <2>2, <2>3, <3>1, <3>2, <3>3
  <2>4. CASE ~recording
    BY <1>9, <2>1, <2>2, <2>4
  <2>. QED
    BY <2>3, <2>4
<1>11. cpu[c] \in 0..cpu[c]
  BY DEF ProbesInv
<1>12. ASSUME NEW d \in Connections, stack'[d] # <<>>
       PROVE  /\ d = holder' /\ recording' /\ todo'[d] # <<>> /\ todo'[d][1][1] = "exit"
              /\ \E q \in Probes, start \in 0..cpu'[d] : stack'[d] = <<<<q, start>>>>
  BY <1>1, <1>2, <1>7, <1>8, <1>10, <1>11, <1>12
<1>13. ASSUME NEW q \in Probes, NEW f \in Fields, stats[q][f] # 0
       PROVE  holder' # NoOne /\ Before(todo'[holder'], 1, <<"zero", q, f>>, "unlock")
  <2>1. holder # NoOne /\ Before(todo[holder], 1, <<"zero", q, f>>, "unlock")
    BY <1>13 DEF ProbesInv
  <2>2. todo[c][1] # <<"zero", q, f>>
    BY <1>3
  <2>. QED
    BY <1>1, <1>3, <1>5, <2>1, <2>2, StillZeroed
<1>14. ProbesInv'
  BY <1>1, <1>2, <1>10, <1>12, <1>13 DEF ProbesInv
<1>15. Moves(c)
  BY <1>1, <1>3, <1>5 DEF Moves
<1>. QED
  BY <1>6, <1>14, <1>15

LEMMA ExitKeeps ==
  ASSUME ListsInv, ProbesInv, NEW c \in Connections, Exit(c)
  PROVE  ListsInv' /\ ProbesInv' /\ Moves(c)
<1>1. Takes(c, "exit") /\ holder' = holder /\ recording' = recording
  BY DEF Exit, memory
<1>2. UNCHANGED <<stats, overhead>>
  BY DEF Exit
<1>3. /\ todo[c] # <<>> /\ todo[c][1][1] = "exit" /\ IsSeq(todo[c]) /\ StepOK(todo[c][1])
      /\ Arg(c, 1) = todo[c][1][1 + 1]
  BY <1>1, TakesOf
<1>4. PICK p \in Probes : p = Arg(c, 1)
  BY <1>3 DEF StepOK
<1>5. LockMoves(c)
  BY <1>1, <1>3 DEF LockMoves
<1>6. c = holder /\ \A d \in Connections : d # c => stack[d] = <<>>
  <2>1. todo[c][1][1] \in Guarded
    BY <1>3 DEF Guarded
  <2>2. c = holder
    BY <1>3, <2>1, HolderOnly
  <2>. QED
    BY <2>2 DEF ProbesInv
<1>7. PICK cost \in Costs : cpu' = [cpu EXCEPT ![c] = @ + cost]
  BY DEF Exit
<1>8. cpu' \in [Connections -> Nat] /\ cpu[c] \in Nat /\ cpu'[c] \in Nat /\ cpu[c] <= cpu'[c]
  <2>1. cost \in Nat /\ cpu \in [Connections -> Nat]
    BY NativeAssumption DEF ProbesInv
  <2>. QED
    BY <1>7, <2>1
<1>9. \E steps : /\ Fits(todo[c], steps) /\ Then(c, steps)
                 /\ stack' = [d \in Connections |-> stack'[d]] /\ \A d \in Connections : stack'[d] = <<>>
  <2>0. stack = [d \in Connections |-> stack[d]]
    BY DEF ProbesInv
  <2>1. CASE recording /\ stack[c] # <<>>
    <3>1. PICK q \in Probes, start \in 0..cpu[c] : stack[c] = <<<<q, start>>>>
      BY <2>1 DEF ProbesInv
    <3>2. PICK frame : frame = <<q, start>>
      OBVIOUS
    <3>3. Last(stack[c]) = frame /\ Front(stack[c]) = <<>>
      BY <3>1, <3>2 DEF Last, Front
    <3>4. PICK d \in Nat : d = cpu'[c] - start
      BY <1>8
    <3>5. PICK adds : adds = <<<<"add", p, "self", d>>, <<"add", p, "total", d>>, <<"add", p, "invocations", 1>>>>
      OBVIOUS
    <3>6. /\ stack' = [stack EXCEPT ![c] = Front(@)]
          /\ Then(c, IF q = p THEN adds ELSE <<>>)
      <4>1. frame[1] = q /\ frame[2] = start
        BY <3>2
      <4>. QED
        BY <1>4, <2>1, <3>3, <3>4, <3>5, <4>1 DEF Exit
    <3>7. stack' = [d2 \in Connections |-> IF d2 = c THEN <<>> ELSE stack[d2]]
      BY <2>0, <3>3, <3>6
    <3>8. Fits(todo[c], adds)
      <4>1. PICK x, y, z : /\ x = <<"add", p, "self", d>> /\ y = <<"add", p, "total", d>>
                           /\ z = <<"add", p, "invocations", 1>>
        OBVIOUS
      <4>2. /\ StepOK(x) /\ StepOK(y) /\ StepOK(z)
            /\ x[1] = "add" /\ y[1] = "add" /\ z[1] = "add"
        BY <4>1 DEF StepOK, Fields
      <4>3. adds = <<x, y, z>>
        BY <3>5, <4>1
      <4>4. adds \in Seq({x, y, z}) /\ Len(adds) = 3
        BY <4>3
      <4>5. IsSeq(adds) /\ \A i \in 1..Len(adds) : adds[i] \in {x, y, z}
        BY <4>4, IsSeqOf, ElementOfSeq
      <4>6. \A i \in 1..Len(adds) : StepOK(adds[i]) /\ adds[i][1] = "add"
        BY <4>2, <4>5
      <4>7. todo[c][1][1] \in Guarded \ {"unlock"}
        BY <1>3 DEF Guarded
      <4>. QED
        BY <1>3, <4>5, <4>6, <4>7 DEF Fits
    <3>9. PICK steps : steps = IF q = p THEN adds ELSE <<>>
      OBVIOUS
    <3>10. Fits(todo[c], steps) /\ Then(c, steps)
      BY <3>6, <3>8, <3>9, NoSteps
    <3>. QED
      BY <1>6, <3>7, <3>10
  <2>2. CASE ~(recording /\ stack[c] # <<>>)
    <3>1. Then(c, <<>>) /\ stack' = stack
      BY <2>2 DEF Exit
    <3>2. stack[c] = <<>>
      BY <2>2 DEF ProbesInv
    <3>. QED
      BY <1>6, <2>0, <3>1, <3>2, NoSteps
  <2>. QED
    BY <2>1, <2>2
<1>10. PICK steps : /\ Fits(todo[c], steps) /\ Then(c, steps)
                    /\ stack' = [d \in Connections |-> stack'[d]] /\ \A d \in Connections : stack'[d] = <<>>
  BY <1>9
<1>11. ListsInv'
  BY <1>3, <1>5, <1>10, ListsMoved
<1>12. ASSUME NEW q \in Probes, NEW f \in Fields, stats[q][f] # 0
       PROVE  holder' # NoOne /\ Before(todo'[holder'], 1, <<"zero", q, f>>, "unlock")
  <2>1. holder # NoOne /\ Before(todo[holder], 1, <<"zero", q, f>>, "unlock")
    BY <1>12 DEF ProbesInv
  <2>2. todo[c][1] # <<"zero", q, f>>
    BY <1>3
  <2>. QED
    BY <1>3, <1>5, <1>10, <2>1, <2>2, StillZeroed
<1>13. ProbesInv'
  BY <1>1, <1>2, <1>8, <1>10, <1>12 DEF ProbesInv
<1>14. Moves(c)
  BY <1>3, <1>5, <1>10 DEF Moves
<1>. QED
  BY <1>11, <1>13, <1>14

LEMMA CountKeeps ==
  ASSUME ListsInv, ProbesInv, NEW c \in Connections, Add(c) \/ Zero(c)
  PROVE  ListsInv' /\ ProbesInv' /\ Moves(c)
<1>1. PICK kind \in {"add", "zero"} : Takes(c, kind)
  BY DEF Add, Zero
<1>2. Then(c, <<>>) /\ holder' = holder /\ recording' = recording /\ UNCHANGED <<cpu, stack, overhead>>
  BY DEF Add, Zero, memory
<1>3. /\ todo[c] # <<>> /\ todo[c][1][1] = kind /\ IsSeq(todo[c]) /\ StepOK(todo[c][1])
      /\ Arg(c, 1) = todo[c][1][1 + 1] /\ Arg(c, 2) = todo[c][1][2 + 1]
      /\ Arg(c, 3) = todo[c][1][3 + 1]
  BY <1>1, TakesOf
<1>4. PICK p \in Probes, f \in Fields : p = Arg(c, 1) /\ f = Arg(c, 2)
  BY <1>1, <1>3 DEF StepOK
<1>5. Fits(todo[c], <<>>) /\ LockMoves(c)
  BY <1>1, <1>2, <1>3, NoSteps DEF LockMoves
<1>6. ListsInv'
  BY <1>2, <1>3, <1>5, ListsMoved
<1>7. c = holder /\ \A d \in Connections : stack[d] = <<>>
  <2>1. todo[c][1][1] \in Guarded /\ todo[c][1][1] # "exit"
    BY <1>1, <1>3 DEF Guarded
  <2>. QED
    BY <1>3, <2>1, HolderOnly, OnlyOnExit
<1>8. PICK n \in Nat : stats' = [stats EXCEPT ![p][f] = n] /\ (n # 0 => todo[c][1][1] = "add")
  <2>1. CASE Add(c)
    <3>1. Takes(c, "add") /\ todo[c][1][1] = "add"
      BY <2>1, TakesOf DEF Add
    <3>2. PICK x \in Nat : x = Arg(c, 3)
      BY <1>3, <3>1 DEF StepOK
    <3>3. PICK n \in Nat : n = stats[p][f] + x
      BY DEF ProbesInv
    <3>4. stats' = [stats EXCEPT ![p][f] = @ + x]
      BY <1>4, <2>1, <3>2 DEF Add
    <3>. QED
      BY <3>1, <3>3, <3>4
  <2>2. CASE Zero(c)
    BY <1>4, <2>2 DEF Zero
  <2>. QED
    BY <2>1, <2>2
<1>9. /\ stats' = [q \in Probes |-> stats'[q]]
      /\ \A q \in Probes : stats'[q] \in [Fields -> Nat]
      /\ \A q \in Probes, g \in Fields :
           stats'[q][g] = IF q = p /\ g = f THEN n ELSE stats[q][g]
  <2>1. stats = [q \in Probes |-> stats[q]] /\ \A q \in Probes : stats[q] \in [Fields -> Nat]
    BY DEF ProbesInv
  <2>2. stats' = [q \in Probes |-> IF q = p THEN [stats[p] EXCEPT ![f] = n] ELSE stats[q]]
    BY <1>8, <2>1
  <2>3. [stats[p] EXCEPT ![f] = n] = [g \in Fields |-> IF g = f THEN n ELSE stats[p][g]]
    BY <2>1
  <2>. QED
    BY <2>1, <2>2, <2>3
<1>10. ASSUME NEW q \in Probes, NEW g \in Fields, stats'[q][g] # 0
       PROVE  holder' # NoOne /\ Before(todo'[holder'], 1, <<"zero", q, g>>, "unlock")
  <2>0. holder # NoOne
    BY <1>7, NativeAssumption DEF Actors
  <2>1. CASE todo[c][1][1] = "add"
    <3>1. Zeroed(todo[c]) /\ 1 \in 1..Len(todo[c])
      <4>1. todo[c] \in Seq(ToSet(todo[c]))
        BY <1>3 DEF IsSeq
      <4>2. Len(todo[c]) \in Nat /\ Len(todo[c]) # 0
        BY <1>3, <4>1, EmptySeq, LenProperties
      <4>. QED
        BY <4>2 DEF ListsInv, Disciplined
    <3>2. Before(todo[holder], 1, <<"zero", q, g>>, "unlock")
      BY <1>7, <2>1, <3>1 DEF Zeroed
    <3>3. todo[c][1] # <<"zero", q, g>>
      BY <2>1
    <3>. QED
      BY <1>2, <1>3, <1>5, <2>0, <3>2, <3>3, StillZeroed
  <2>2. CASE todo[c][1][1] # "add"
    <3>1. n = 0 /\ stats[q][g] # 0 /\ ~(q = p /\ g = f)
      BY <1>8, <1>9, <1>10, <2>2
    <3>2. Before(todo[holder], 1, <<"zero", q, g>>, "unlock")
      BY <3>1 DEF ProbesInv
    <3>3. todo[c][1][2] = p /\ todo[c][1][3] = f
      BY <1>3, <1>4
    <3>4. todo[c][1] # <<"zero", q, g>>
      BY <3>1, <3>3
    <3>. QED
      BY <1>2, <1>3, <1>5, <2>0, <3>2, <3>4, StillZeroed
  <2>. QED
    BY <2>1, <2>2
<1>11. ProbesInv'
  BY <1>2, <1>7, <1>9, <1>10 DEF ProbesInv
<1>12. Moves(c)
  BY <1>2, <1>3, <1>5 DEF Moves
<1>. QED
  BY <1>6, <1>11, <1>12

----------------------------------------------------------------------------
(* The lists of the threads.                                               *)

ThreadsInv ==
  /\ session \in Nat
  /\ \A t \in Threads : \A i \in 1..Len(todo[t]) :
       LET st == todo[t][i] IN
         /\ st[1] \in {"alloc", "new", "merge", "entry", "sample"}
         /\ st[1] \in {"alloc", "new"} => IsAllocation(<<st>>)
         /\ st[1] = "merge" => /\ i = 1 /\ events
                               /\ IsSeq(st[2]) /\ Len(st[2]) \in 1..MaxFrames
                               /\ st[3] \in Nat /\ st[4] \in Nat /\ st[4] <= session

\* The type of a thread's steps; first: the step is the next one.
StepOfThread(st, first, at, on) ==
  /\ st[1] \in {"alloc", "new", "merge", "entry", "sample"}
  /\ st[1] \in {"alloc", "new"} => IsAllocation(<<st>>)
  /\ st[1] = "merge" => /\ first /\ on
                        /\ IsSeq(st[2]) /\ Len(st[2]) \in 1..MaxFrames
                        /\ st[3] \in Nat /\ st[4] \in Nat /\ st[4] <= at

LEMMA ThreadPlan ==
  ASSUME NEW calls, IsSeq(calls), \A call \in ToSet(calls) : IsAllocation(call)
  PROVE  /\ IsSeq(FlattenSeq(calls))
         /\ \A i \in 1..Len(FlattenSeq(calls)) : IsAllocation(<<FlattenSeq(calls)[i]>>)
<1>. PICK S : S = {call[1] : call \in ToSet(calls)}
  OBVIOUS
<1>1. \A st \in S : IsAllocation(<<st>>)
  <2>. SUFFICES ASSUME NEW call \in ToSet(calls) PROVE IsAllocation(<<call[1]>>)
    OBVIOUS
  <2>1. IsAllocation(call) /\ call = <<call[1]>>
    BY DEF IsAllocation
  <2>. QED
    BY <2>1
<1>2. \A call \in ToSet(calls) : call \in Seq(S)
  <2>. SUFFICES ASSUME NEW call \in ToSet(calls) PROVE call \in Seq(S)
    OBVIOUS
  <2>1. call = <<call[1]>> /\ call[1] \in S
    BY DEF IsAllocation
  <2>2. PICK st : st = call[1]
    OBVIOUS
  <2>3. <<st>> \in Seq(S)
    BY <2>1, <2>2
  <2>. QED
    BY <2>1, <2>2, <2>3
<1>3. /\ calls \in Seq(ToSet(calls)) /\ Len(calls) \in Nat /\ DOMAIN calls = 1..Len(calls)
      /\ \A i \in 1..Len(calls) : calls[i] \in ToSet(calls)
  BY IsSeqOf, ElementOfSeq DEF IsSeq
<1>4. FlattenSeq(calls) \in Seq(S)
  <2>1. CASE Len(calls) = 0
    <3>1. FlattenSeq(calls) = calls /\ calls = <<>>
      BY <1>3, <2>1, EmptySeq DEF FlattenSeq
    <3>. QED
      BY <3>1
  <2>2. CASE Len(calls) # 0
    <3>1. PICK n \in Nat : n = Len(calls)
      BY <1>3
    <3>2. PICK T, G : T = Seq(S) /\ G = [i \in 1..n |-> T]
      OBVIOUS
    <3>3. calls \in Seq(T)
      <4>1. \A i \in 1..Len(calls) : calls[i] \in T
        BY <1>2, <1>3, <3>2
      <4>2. calls = [i \in 1..Len(calls) |-> calls[i]]
        BY <1>3
      <4>. QED
        BY <1>3, <4>1, <4>2
    <3>4. calls # <<>> /\ 1 \in 1..n /\ n \in 1..n
      BY <1>3, <2>2, <3>1
    <3>5. calls[1] \in G[1]
      BY <1>2, <1>3, <3>1, <3>2, <3>4
    <3>6. ASSUME NEW i \in 1..(Len(calls) - 1), NEW x \in G[i]
          PROVE  x \o calls[i + 1] \in G[i + 1]
      <4>1. i \in 1..n /\ i + 1 \in 1..n
        BY <3>1
      <4>2. PICK y : y = calls[i + 1]
        OBVIOUS
      <4>3. x \in Seq(S) /\ y \in Seq(S)
        BY <1>2, <1>3, <3>1, <3>2, <4>1, <4>2
      <4>4. x \o y \in Seq(S)
        BY <4>3
      <4>. QED
        BY <3>2, <4>1, <4>2, <4>4
    <3>7. FlattenSeq(calls) \in G[Len(calls)]
      BY <3>3, <3>4, <3>5, <3>6, FlattenIn
    <3>. QED
      BY <3>1, <3>2, <3>4, <3>7
  <2>. QED
    BY <2>1, <2>2
<1>5. PICK s : s = FlattenSeq(calls)
  OBVIOUS
<1>6. IsSeq(s) /\ \A i \in 1..Len(s) : s[i] \in S
  BY <1>4, <1>5, IsSeqOf, ElementOfSeq
<1>. QED
  BY <1>1, <1>5, <1>6

LEMMA InitLists ==
  ASSUME DataInit
  PROVE  ListsInv /\ ProbesInv /\ ThreadsInv
<1>1. PICK plan \in Plans : todo = [a \in Actors |-> FlattenSeq(plan[a])]
  BY DEF DataInit, Init
<1>2. /\ \A a \in Actors : IsSeq(plan[a])
      /\ \A c \in Connections : ToSet(plan[c]) \subseteq Commands
      /\ \A t \in Threads : \A call \in ToSet(plan[t]) : IsAllocation(call)
  BY DataAssumption
<1>3. \A c \in Connections : c \in Actors
  BY DEF Actors
<1>4. \A t \in Threads : t \in Actors
  BY DEF Actors
<1>5. \A c \in Connections : Good(todo[c])
  BY <1>1, <1>2, <1>3, PlansGood
<1>6. \A t \in Threads : IsSeq(todo[t]) /\ \A i \in 1..Len(todo[t]) : IsAllocation(<<todo[t][i]>>)
  BY <1>1, <1>2, <1>4, ThreadPlan
<1>7. holder = NoOne
  BY DEF DataInit, Init
<1>8. ListsInv
  <2>1. \A a \in Actors : IsSeq(todo[a])
    BY <1>5, <1>6 DEF Actors, Good, Disciplined
  <2>2. todo = [a \in Actors |-> todo[a]]
    BY <1>1
  <2>. QED
    BY <1>5, <1>7, <2>1, <2>2 DEF ListsInv, Good
<1>9. ThreadsInv
  <2>1. session = 0
    BY DEF DataInit, Init
  <2>2. ASSUME NEW st, IsAllocation(<<st>>) PROVE st[1] \in {"alloc", "new"}
    BY <2>2 DEF IsAllocation
  <2>. QED
    BY <1>6, <2>1, <2>2 DEF ThreadsInv
<1>10. ProbesInv
  <2>1. /\ stats = [p \in Probes |-> [f \in Fields |-> 0]]
        /\ cpu = [c \in Connections |-> 0] /\ stack = [c \in Connections |-> <<>>]
        /\ overhead = [p \in Probes |-> 0]
    BY DEF DataInit, Init
  <2>. QED
    BY <2>1 DEF ProbesInv
<1>. QED
  BY <1>8, <1>9, <1>10

LEMMA PathTyped ==
  ASSUME NEW frames, IsSeq(frames)
  PROVE  IsSeq(Path(frames)) /\ Len(Path(frames)) \in 0..MaxFrames
<1>1. MaxFrames \in Nat /\ Len(frames) \in Nat
  BY NativeAssumption, IsSeqOf DEF IsSeq, DepthCap
<1>2. PICK n : n = Min({MaxFrames, Len(frames)})
  OBVIOUS
<1>3. n \in Nat /\ n <= MaxFrames /\ n <= Len(frames)
  BY <1>1, <1>2 DEF Min
<1>4. PICK x : x = Truncate(frames, MaxFrames)
  OBVIOUS
<1>5. Len(x) \in 0..MaxFrames
  <2>1. x = SubSeq(frames, 1, n)
    BY <1>2, <1>4 DEF Truncate
  <2>2. \A i \in 1..n : frames[i] \in ToSet(frames)
    <3>1. DOMAIN frames = 1..Len(frames)
      BY IsSeqOf DEF IsSeq
    <3>. QED
      BY <1>1, <1>3, <3>1 DEF ToSet
  <2>3. Len(SubSeq(frames, 1, n)) = IF 1 <= n THEN n - 1 + 1 ELSE 0
    BY <1>3, <2>2, SubSeqProperties
  <2>. QED
    BY <1>1, <1>3, <2>1, <2>3
<1>6. PICK places : places = {i \in 1..Len(x) : x[i] \notin Unreadable}
  OBVIOUS
<1>7. Cardinality(places) \in 0..MaxFrames
  <2>1. IsFiniteSet(1..Len(x)) /\ Cardinality(1..Len(x)) <= Len(x)
    BY <1>5, FS_Interval
  <2>2. places \in SUBSET (1..Len(x))
    BY <1>6
  <2>3. IsFiniteSet(places) /\ Cardinality(places) <= Cardinality(1..Len(x))
    BY <2>1, <2>2, FS_Subset
  <2>4. Cardinality(places) \in Nat /\ Cardinality(1..Len(x)) \in Nat
    BY <2>1, <2>3, FS_CardinalityType
  <2>5. PICK a \in Nat, b \in Nat : a = Cardinality(places) /\ b = Cardinality(1..Len(x))
    BY <2>4
  <2>6. a <= b /\ b <= Len(x) /\ Len(x) \in Nat /\ Len(x) <= MaxFrames
    BY <1>1, <1>5, <2>1, <2>3, <2>5
  <2>. QED
    BY <1>1, <2>5, <2>6
<1>8. PICK path : path = At(x, places)
  OBVIOUS
<1>9. IsSeq(path) /\ Len(path) = Cardinality(places)
  <2>1. PICK e : path = [k \in 1..Cardinality(places) |-> e[k]]
    <3>1. PICK e : e = path
      OBVIOUS
    <3>2. path = [k \in 1..Cardinality(places) |-> e[k]]
      BY <1>8, <3>1 DEF At
    <3>. QED
      BY <3>2
  <2>2. PICK S : S = {path[k] : k \in 1..Cardinality(places)}
    OBVIOUS
  <2>3. path \in Seq(S) /\ Len(path) = Cardinality(places)
    BY <1>7, <2>1, <2>2
  <2>. QED
    BY <2>3, IsSeqOf
<1>10. Path(frames) = path \/ Path(frames) = <<>>
  BY <1>4, <1>6, <1>8 DEF Path, Readable
<1>11. IsSeq(<<>>) /\ Len(<<>>) = 0
  BY NoSteps DEF Fits
<1>. QED
  BY <1>1, <1>7, <1>9, <1>10, <1>11

LEMMA TakesByThread ==
  ASSUME ListsInv, ThreadsInv, NEW t \in Threads, NEW kind, Takes(t, kind)
  PROVE  /\ todo[t] # <<>> /\ todo[t][1][1] = kind /\ IsSeq(todo[t])
         /\ \A i : Arg(t, i) = todo[t][1][i + 1]
         /\ kind \in {"alloc", "new"} => IsAllocation(<<todo[t][1]>>)
         /\ kind = "merge" => /\ IsSeq(todo[t][1][2]) /\ Len(todo[t][1][2]) \in 1..MaxFrames /\ events
                              /\ todo[t][1][3] \in Nat /\ todo[t][1][4] \in Nat
<1>1. t \in Actors /\ IsSeq(todo[t])
  BY DEF ListsInv, Actors
<1>2. /\ todo[t] # <<>> /\ todo[t][1][1] = kind /\ Len(todo[t]) \in Nat \ {0}
      /\ \A i : Arg(t, i) = todo[t][1][i + 1]
  BY <1>1, TakesIs
<1>3. 1 \in 1..Len(todo[t])
  BY <1>2
<1>4. /\ kind \in {"alloc", "new"} => IsAllocation(<<todo[t][1]>>)
      /\ kind = "merge" => /\ IsSeq(todo[t][1][2]) /\ Len(todo[t][1][2]) \in 1..MaxFrames /\ events
                           /\ todo[t][1][3] \in Nat /\ todo[t][1][4] \in Nat
  BY <1>2, <1>3 DEF ThreadsInv
<1>. QED
  BY <1>1, <1>2, <1>4

ThreadStep(t) ==
  \/ (Allocate(t) \/ Merge(t)) /\ UNCHANGED javaVars
  \/ (New(t) \/ Entry(t) \/ Sample(t)) /\ UNCHANGED nativeVars

\* What a thread's step may put in its place.
ThreadFits(steps) ==
  /\ IsSeq(steps)
  /\ \A i \in 1..Len(steps) :
       /\ steps[i][1] \notin {"alloc", "new"} /\ StepOfThread(steps[i], i = 1, session, events)
       /\ steps[i][1] = "merge" => steps[i][4] = session

LEMMA ThreadMoves ==
  ASSUME ListsInv, ThreadsInv, NEW t \in Threads, ThreadStep(t)
  PROVE  /\ \E steps : todo[t] # <<>> /\ ThreadFits(steps) /\ Then(t, steps)
         /\ UNCHANGED <<events, holder, jdbc, recording, session>>
<1>1. UNCHANGED <<events, holder, jdbc, recording, session>>
  BY DEF ThreadStep, Allocate, Merge, nativeVars, memory, jdbc
<1>2. ThreadFits(<<>>)
  BY NoSteps DEF ThreadFits, Fits
<1>3. ASSUME NEW st, st[1] \notin {"alloc", "new"}, StepOfThread(st, TRUE, session, events),
             st[1] = "merge" => st[4] = session
      PROVE  ThreadFits(<<st>>)
  <2>1. Len(<<st>>) = 1 /\ <<st>>[1] = st /\ <<st>> \in Seq({st})
    OBVIOUS
  <2>2. IsSeq(<<st>>)
    BY <2>1, IsSeqOf
  <2>3. \A i \in 1..1 : i = 1
    OBVIOUS
  <2>4. PICK s : s = <<st>>
    OBVIOUS
  <2>5. \A i \in 1..Len(s) : i = 1 /\ s[i] = st
    BY <2>1, <2>3, <2>4
  <2>6. \A i \in 1..Len(s) : /\ s[i][1] \notin {"alloc", "new"} /\ StepOfThread(s[i], i = 1, session, events)
                             /\ s[i][1] = "merge" => s[i][4] = session
    <3>. SUFFICES ASSUME NEW i \in 1..Len(s)
                  PROVE  /\ s[i][1] \notin {"alloc", "new"} /\ StepOfThread(s[i], i = 1, session, events)
                         /\ s[i][1] = "merge" => s[i][4] = session
      OBVIOUS
    <3>1. i = 1 /\ s[i] = st
      BY <2>5
    <3>. QED
      BY <1>3, <3>1 DEF StepOfThread
  <2>7. ThreadFits(s)
    <3>1. IsSeq(s)
      BY <2>2, <2>4
    <3>. QED
      BY <2>6, <3>1 DEF ThreadFits
  <2>. QED
    BY <2>4, <2>7
<1>4. CASE Allocate(t)
  <2>1. Takes(t, "alloc")
    BY <1>4 DEF Allocate
  <2>2. /\ todo[t] # <<>> /\ IsAllocation(<<todo[t][1]>>) /\ todo[t][1][1] = "alloc"
        /\ Arg(t, 1) = todo[t][1][1 + 1] /\ Arg(t, 2) = todo[t][1][2 + 1]
    BY <2>1, TakesByThread
  <2>3. PICK st : st = todo[t][1]
    OBVIOUS
  <2>4. IsSeq(Arg(t, 1)) /\ Arg(t, 2) \in Nat
    <3>1. <<st>>[1] = st
      OBVIOUS
    <3>2. IsSeq(st[2]) /\ st[3] \in Nat
      BY <2>2, <2>3, <3>1 DEF IsAllocation
    <3>. QED
      BY <2>2, <2>3, <3>2
  <2>5. PICK path, size : path = Path(Arg(t, 1)) /\ size = Arg(t, 2)
    OBVIOUS
  <2>6. IsSeq(path) /\ Len(path) \in 0..MaxFrames
    BY <2>4, <2>5, PathTyped
  <2>7. PICK m : m = <<"merge", path, size, session>>
    OBVIOUS
  <2>8. CASE events /\ recording /\ ~frozen /\ size > 0 /\ path # <<>>
    <3>1. Then(t, <<m>>)
      BY <1>4, <2>5, <2>7, <2>8 DEF Allocate
    <3>2. Len(path) # 0
      <4>1. path \in Seq(ToSet(path))
        BY <2>6 DEF IsSeq
      <4>. QED
        BY <2>8, <4>1, EmptySeq
    <3>3. session \in Nat
      BY DEF ThreadsInv
    <3>4. MaxFrames \in Nat
      BY NativeAssumption DEF DepthCap
    <3>5. StepOfThread(m, TRUE, session, events) /\ m[1] = "merge" /\ m[4] = session
      BY <2>4, <2>5, <2>6, <2>7, <2>8, <3>2, <3>3, <3>4 DEF StepOfThread
    <3>. QED
      BY <1>1, <1>3, <2>2, <3>1, <3>5
  <2>9. CASE ~(events /\ recording /\ ~frozen /\ size > 0 /\ path # <<>>)
    <3>1. Then(t, <<>>)
      BY <1>4, <2>5, <2>9 DEF Allocate
    <3>. QED
      BY <1>1, <1>2, <2>2, <3>1
  <2>. QED
    BY <2>8, <2>9
<1>5. CASE Merge(t) \/ Sample(t)
  <2>1. PICK kind \in {"merge", "sample"} : Takes(t, kind)
    BY <1>5 DEF Merge, Sample
  <2>2. Then(t, <<>>)
    BY <1>5 DEF Merge, Sample
  <2>. QED
    BY <1>1, <1>2, <2>1, <2>2, TakesByThread
<1>6. CASE Entry(t)
  <2>1. Takes(t, "entry")
    BY <1>6 DEF Entry
  <2>2. PICK st : st = <<"sample", Arg(t, 1), Arg(t, 2), removed[Arg(t, 2)]>>
    OBVIOUS
  <2>3. Then(t, <<st>>)
    BY <1>6, <2>2 DEF Entry
  <2>4. st[1] = "sample"
    BY <2>2
  <2>5. StepOfThread(st, TRUE, session, events)
    BY <2>4 DEF StepOfThread
  <2>6. ThreadFits(<<st>>)
    BY <1>3, <2>4, <2>5
  <2>. QED
    BY <1>1, <2>1, <2>3, <2>6, TakesByThread
<1>7. CASE New(t)
  <2>1. Takes(t, "new")
    BY <1>7 DEF New
  <2>2. /\ todo[t] # <<>> /\ IsAllocation(<<todo[t][1]>>) /\ todo[t][1][1] = "new"
        /\ Arg(t, 2) = todo[t][1][2 + 1] /\ Arg(t, 3) = todo[t][1][3 + 1]
        /\ Arg(t, 4) = todo[t][1][4 + 1]
    BY <2>1, TakesByThread
  <2>3. PICK site, path : site = Site(Arg(t, 2), Arg(t, 3), Arg(t, 4)) /\ path = Segments(site)
    OBVIOUS
  <2>4. IsSeq(site)
    <3>1. PICK st : st = todo[t][1]
      OBVIOUS
    <3>2. <<st>>[1] = st
      OBVIOUS
    <3>3. IsSeq(Site(st[3], st[4], st[5]))
      BY <2>2, <3>1, <3>2 DEF IsAllocation
    <3>. QED
      BY <2>2, <2>3, <3>1, <3>3
  <2>5. Len(site) \in Nat /\ path = [i \in 1..Len(site) |-> SubSeq(site, 1, i)] /\ Len(path) = Len(site)
    <3>1. Len(site) \in Nat
      BY <2>4, IsSeqOf DEF IsSeq
    <3>. QED
      BY <2>3, <3>1 DEF Segments
  <2>6. PICK entries : entries = [i \in 1..Len(path) |-> <<"entry", Arg(t, 1), path[i]>>]
    OBVIOUS
  <2>7. Then(t, IF isRecording THEN entries ELSE <<>>)
    BY <1>7, <2>3, <2>6 DEF New
  <2>8. ThreadFits(entries)
    <3>0. PICK n \in Nat : n = Len(path)
      BY <2>5
    <3>0a. entries = [i \in 1..n |-> <<"entry", Arg(t, 1), path[i]>>]
      BY <2>6, <3>0
    <3>1. Len(entries) = Len(path) /\ entries \in Seq({entries[i] : i \in 1..n})
      BY <3>0, <3>0a
    <3>2. IsSeq(entries)
      BY <3>1, IsSeqOf
    <3>3. \A i \in 1..Len(entries) : entries[i][1] = "entry"
      BY <2>6, <3>1
    <3>4. \A i \in 1..Len(entries) : StepOfThread(entries[i], i = 1, session, events)
      BY <3>3 DEF StepOfThread
    <3>. QED
      BY <3>2, <3>3, <3>4 DEF ThreadFits
  <2>9. PICK steps : steps = IF isRecording THEN entries ELSE <<>>
    OBVIOUS
  <2>10. ThreadFits(steps) /\ Then(t, steps)
    BY <1>2, <2>7, <2>8, <2>9
  <2>. QED
    BY <1>1, <2>2, <2>10
<1>. QED
  BY <1>4, <1>5, <1>6, <1>7 DEF ThreadStep

LEMMA ThreadKeeps ==
  ASSUME ListsInv, ProbesInv, ThreadsInv, NEW t \in Threads, ThreadStep(t)
  PROVE  /\ ListsInv' /\ ProbesInv' /\ ThreadsInv'
         /\ Late' \subseteq Late \ {t}
         /\ \A c \in Connections : todo'[c] = todo[c]
<1>1. PICK steps : todo[t] # <<>> /\ ThreadFits(steps) /\ Then(t, steps)
  BY ThreadMoves
<1>2. UNCHANGED <<events, holder, jdbc, recording, session>>
  BY ThreadMoves
<1>3. ListsInv' /\ \A c \in Connections : todo'[c] = todo[c]
  BY <1>1, <1>2, ThreadMoved DEF ThreadFits
<1>4. ProbesInv'
  <2>1. UNCHANGED <<stats, cpu, stack, overhead>>
    BY <1>2 DEF jdbc
  <2>2. holder \in Connections \cup {NoOne}
    BY DEF ListsInv
  <2>. QED
    BY <1>2, <1>3, <2>1, <2>2 DEF ProbesInv
<1>5. t \in Actors /\ todo = [a \in Actors |-> todo[a]] /\ IsSeq(todo[t])
  BY DEF ListsInv, Actors
<1>6. /\ todo'[t] = steps \o Tail(todo[t])
      /\ \A b \in Actors : b # t => todo'[b] = todo[b]
  BY <1>1, <1>5, ThenIs
<1>7. PICK s, u : s = todo[t] /\ u = todo'[t]
  OBVIOUS
<1>8. IsSeq(s) /\ s # <<>> /\ IsSeq(steps) /\ u = steps \o Tail(s)
  BY <1>1, <1>5, <1>6, <1>7 DEF ThreadFits
<1>9. Len(s) \in Nat \ {0} /\ Len(steps) \in Nat /\ Len(u) = Len(steps) + Len(s) - 1
  BY <1>8, Taken
<1>10. \A i \in 1..Len(steps) : u[i] = steps[i]
  BY <1>8, Taken
<1>11. \A k \in 2..Len(s) : u[k + (Len(steps) - 1)] = s[k]
  BY <1>8, Taken
<1>12. ASSUME NEW i \in 1..Len(u) PROVE StepOfThread(u[i], i = 1, session, events)
  <2>1. CASE i \in 1..Len(steps)
    <3>1. StepOfThread(steps[i], i = 1, session, events) /\ u[i] = steps[i]
      BY <1>1, <1>10, <2>1 DEF ThreadFits
    <3>. QED
      BY <3>1
  <2>2. CASE i \notin 1..Len(steps)
    <3>0. PICK m \in Nat, n \in Nat \ {0} : m = Len(steps) /\ n = Len(s)
      BY <1>9
    <3>0a. i \in 1..(m + n - 1) /\ i \notin 1..m
      BY <1>9, <2>2, <3>0
    <3>0b. i - (m - 1) \in 2..n /\ i = (i - (m - 1)) + (m - 1)
      BY <3>0a
    <3>1. PICK k \in 2..Len(s) : k = i - (Len(steps) - 1) /\ i = k + (Len(steps) - 1)
      BY <3>0, <3>0b
    <3>2. u[i] = s[k] /\ k \in 1..Len(s) /\ k # 1
      BY <1>9, <1>11, <3>1
    <3>3. StepOfThread(s[k], FALSE, session, events)
      BY <1>7, <3>2 DEF ThreadsInv, StepOfThread
    <3>. QED
      BY <3>2, <3>3 DEF StepOfThread
  <2>. QED
    BY <2>1, <2>2
<1>13. ASSUME NEW r \in Threads, NEW i \in 1..Len(todo'[r])
       PROVE  StepOfThread(todo'[r][i], i = 1, session, events)
  <2>1. CASE r = t
    BY <1>7, <1>12, <2>1
  <2>2. CASE r # t
    <3>1. todo'[r] = todo[r]
      BY <1>6, <2>2 DEF Actors
    <3>. QED
      BY <3>1 DEF ThreadsInv, StepOfThread
  <2>. QED
    BY <2>1, <2>2
<1>14. ThreadsInv'
  <2>1. session' \in Nat /\ events' = events /\ session' = session
    BY <1>2 DEF ThreadsInv
  <2>. QED
    BY <1>13, <2>1 DEF ThreadsInv, StepOfThread
<1>15. ~(u # <<>> /\ u[1][1] = "merge" /\ u[1][4] < session)
  <2>. SUFFICES ASSUME u # <<>>, u[1][1] = "merge" PROVE ~(u[1][4] < session)
    OBVIOUS
  <2>0. PICK m \in Nat, n \in Nat \ {0} : m = Len(steps) /\ n = Len(s)
    BY <1>9
  <2>1. CASE m = 0
    <3>1. Len(u) = n - 1 /\ Len(u) \in Nat
      BY <1>9, <2>0, <2>1
    <3>2. Len(u) # 0
      <4>1. IsSeq(u)
        BY <1>8, Taken
      <4>2. u \in Seq(ToSet(u))
        BY <4>1 DEF IsSeq
      <4>. QED
        BY <4>2, EmptySeq
    <3>3. 2 \in 2..n /\ 2 + (m - 1) = 1
      BY <2>1, <3>1, <3>2
    <3>4. u[1] = s[2]
      BY <1>11, <2>0, <3>3
    <3>5. s[2][1] # "merge"
      <4>1. 2 \in 1..Len(todo[t]) /\ 2 # 1
        BY <1>7, <2>0, <3>3
      <4>. QED
        BY <1>7, <4>1 DEF ThreadsInv
    <3>. QED
      BY <3>4, <3>5
  <2>2. CASE m # 0
    <3>1. 1 \in 1..Len(steps) /\ u[1] = steps[1]
      BY <1>10, <2>0, <2>2
    <3>2. session \in Nat
      BY DEF ThreadsInv
    <3>3. steps[1][4] = session
      BY <1>1, <3>1 DEF ThreadFits
    <3>. QED
      BY <3>1, <3>2, <3>3
  <2>. QED
    BY <2>1, <2>2
<1>16. Late' \subseteq Late \ {t}
  <2>1. \A r \in Threads : r # t => todo'[r] = todo[r]
    BY <1>6 DEF Actors
  <2>2. session' = session
    BY <1>2
  <2>. QED
    BY <1>7, <1>15, <2>1, <2>2 DEF Late
<1>. QED
  BY <1>3, <1>4, <1>14, <1>16

AnyStep(c) ==
  \/ (QuietStep(c) \/ Enter(c) \/ Exit(c) \/ Add(c) \/ Zero(c)) /\ UNCHANGED javaVars
  \/ DataStep(c)

LEMMA ConnectionKeeps ==
  ASSUME ListsInv, ProbesInv, ThreadsInv, NEW c \in Connections, AnyStep(c)
  PROVE  /\ ListsInv' /\ ProbesInv' /\ ThreadsInv' /\ Moves(c)
         /\ \A t \in Threads : todo'[t] = todo[t]
<1>1. ListsInv' /\ ProbesInv' /\ Moves(c)
  BY QuietKeeps, EnterKeeps, ExitKeeps, CountKeeps DEF AnyStep
<1>2. PICK steps : Then(c, steps)
  BY <1>1 DEF Moves
<1>3. \A t \in Threads : todo'[t] = todo[t]
  <2>1. c \in Actors /\ todo = [a \in Actors |-> todo[a]]
    BY DEF ListsInv, Actors
  <2>2. \A t \in Threads : t \in Actors /\ t # c
    BY NativeAssumption DEF Actors
  <2>. QED
    BY <1>2, <2>1, <2>2, ThenIs
<1>4. events' = events
  BY DEF AnyStep, QuietStep, DataStep, Lock, Unlock, Record, Clear, Freeze, Copy, Thaw, Forget, Average,
         Divide, Enter, Exit, Add, Zero, nativeVars
<1>5. session' = session \/ session' = session + 1
  BY DEF AnyStep, QuietStep, DataStep, Lock, Unlock, Record, Clear, Freeze, Copy, Thaw, Forget, Average,
         Divide, Enter, Exit, Add, Zero, nativeVars, memory
<1>6. session \in Nat /\ session' \in Nat /\ \A n \in Nat : n <= session => n <= session'
  <2>1. session \in Nat
    BY DEF ThreadsInv
  <2>. QED
    BY <1>5, <2>1
<1>7. ThreadsInv'
  <2>. SUFFICES ASSUME NEW t \in Threads, NEW i \in 1..Len(todo'[t])
                PROVE  StepOfThread(todo'[t][i], i = 1, session', events')
    BY <1>6 DEF ThreadsInv, StepOfThread
  <2>1. todo'[t][i] = todo[t][i] /\ i \in 1..Len(todo[t])
    BY <1>3
  <2>2. StepOfThread(todo[t][i], i = 1, session, events)
    BY <2>1 DEF ThreadsInv, StepOfThread
  <2>. QED
    BY <1>4, <1>6, <2>1, <2>2 DEF StepOfThread
<1>. QED
  BY <1>1, <1>3, <1>7

----------------------------------------------------------------------------
(* The three together.                                                     *)

BaseInv == ListsInv /\ ProbesInv /\ ThreadsInv

LEMMA StepCases ==
  ASSUME DataNext
  PROVE  \/ \E t \in Threads : ThreadStep(t)
         \/ \E c \in Connections : AnyStep(c)
         \/ (\E o \in Objects : Collect(o)) /\ UNCHANGED nativeVars
<1>1. CASE Next /\ UNCHANGED javaVars
  BY <1>1 DEF Next, ConnectionStep, AnyStep, QuietStep, ThreadStep
<1>2. CASE JavaStep /\ UNCHANGED nativeVars
  BY <1>2 DEF JavaStep, AnyStep, DataStep, ThreadStep
<1>. QED
  BY <1>1, <1>2 DEF DataNext

LEMMA SameBase ==
  ASSUME BaseInv, UNCHANGED <<nativeVars, todo>>
  PROVE  BaseInv'
<1>1. UNCHANGED <<events, holder, recording, session, cpu, stack, stats, overhead, todo>>
  BY DEF nativeVars, memory, jdbc
<1>2. ListsInv'
  BY <1>1 DEF BaseInv, ListsInv
<1>3. ProbesInv'
  BY <1>1 DEF BaseInv, ProbesInv
<1>4. ThreadsInv'
  BY <1>1 DEF BaseInv, ThreadsInv
<1>. QED
  BY <1>2, <1>3, <1>4 DEF BaseInv

LEMMA BaseKeeps ==
  ASSUME BaseInv, [DataNext]_<<vars, javaVars, met>>
  PROVE  BaseInv'
<1>1. CASE DataNext
  <2>1. CASE (\E o \in Objects : Collect(o)) /\ UNCHANGED nativeVars
    BY <2>1, SameBase DEF Collect
  <2>. QED
    BY <1>1, <2>1, StepCases, ThreadKeeps, ConnectionKeeps DEF BaseInv
<1>2. CASE UNCHANGED <<vars, javaVars, met>>
  BY <1>2, SameBase DEF vars, nativeVars
<1>. QED
  BY <1>1, <1>2

LEMMA BaseHolds == DataSpec => []BaseInv
<1>1. DataInit => BaseInv
  BY InitLists DEF BaseInv
<1>2. BaseInv /\ [DataNext]_<<vars, javaVars, met>> => BaseInv'
  BY BaseKeeps
<1>. QED
  BY <1>1, <1>2, PTL DEF DataSpec

(* Whenever no start or stop is under way, the native probes hold nothing, *)
(* in any number of calibrations, stops between them and replies.          *)
THEOREM JdbcQuietHolds == DataSpec => []JdbcQuiet
<1>1. BaseInv => JdbcQuiet
  <2>. SUFFICES ASSUME BaseInv, holder = NoOne
                PROVE  /\ \A p \in Probes, f \in Fields : stats[p][f] = 0
                       /\ \A c \in Connections : stack[c] = <<>>
    BY DEF JdbcQuiet
  <2>1. \A c \in Connections : c # holder
    BY NativeAssumption DEF Actors
  <2>. QED
    BY <2>1 DEF BaseInv, ProbesInv
<1>. QED
  BY <1>1, BaseHolds, PTL

----------------------------------------------------------------------------
(* Events of the recording before.                                         *)

LEMMA LateBound == IsFiniteSet(Threads) /\ Cardinality(Threads) \in Nat
                   /\ \A T \in SUBSET Threads : IsFiniteSet(T) /\ Cardinality(T) \in Nat
                                                /\ Cardinality(T) <= Cardinality(Threads)
BY NativeAssumption, FS_Subset, FS_CardinalityType

LEMMA StaleByThread ==
  ASSUME BaseInv, StaleInv, NEW t \in Threads, ThreadStep(t)
  PROVE  StaleInv'
<1>1. Late' \subseteq Late \ {t} /\ \A c \in Connections : todo'[c] = todo[c]
  BY ThreadKeeps DEF BaseInv
<1>2. holder' = holder /\ holder \in Connections \cup {NoOne}
  BY ThreadMoves DEF BaseInv, ListsInv
<1>3. CASE stale \in Nat /\ stale + Cardinality(Late) <= Cardinality(Threads)
  <2>1. Late \in SUBSET Threads /\ Late' \in SUBSET Late /\ t \notin Late'
    BY <1>1 DEF Late
  <2>2. PICK old, new : old = Late /\ new = Late'
    OBVIOUS
  <2>3. /\ IsFiniteSet(old) /\ Cardinality(old) \in Nat /\ Cardinality(new) \in Nat
        /\ Cardinality(Threads) \in Nat
        /\ Cardinality(new) <= Cardinality(old)
        /\ t \in old => Cardinality(new) <= Cardinality(old) - 1
    <3>1. IsFiniteSet(old) /\ Cardinality(old) \in Nat /\ Cardinality(Threads) \in Nat
      BY <2>1, <2>2, LateBound
    <3>2. IsFiniteSet(old \ {t}) /\ Cardinality(old \ {t}) = IF t \in old THEN Cardinality(old) - 1 ELSE Cardinality(old)
      BY <3>1, FS_RemoveElement
    <3>3. new \in SUBSET (old \ {t})
      BY <1>1, <2>2
    <3>4. IsFiniteSet(new) /\ Cardinality(new) <= Cardinality(old \ {t})
      BY <3>2, <3>3, FS_Subset
    <3>5. Cardinality(new) \in Nat
      BY <3>4, FS_CardinalityType
    <3>. QED
      BY <3>1, <3>2, <3>4, <3>5
  <2>4. stale' = stale \/ (stale' = stale + 1 /\ t \in old)
    <3>1. CASE Merge(t)
      <4>1. Takes(t, "merge") /\ stale' = IF Arg(t, 3) < session THEN stale + 1 ELSE stale
        BY <3>1 DEF Merge
      <4>2. todo[t] # <<>> /\ todo[t][1][1] = "merge" /\ Arg(t, 3) = todo[t][1][3 + 1]
        BY <4>1, TakesByThread DEF BaseInv
      <4>. QED
        BY <2>2, <4>1, <4>2 DEF Late
    <3>2. CASE Allocate(t) \/ UNCHANGED nativeVars
      BY <3>2 DEF Allocate, memory, nativeVars
    <3>. QED
      BY <3>1, <3>2 DEF ThreadStep
  <2>5. stale' \in Nat /\ stale' + Cardinality(new) <= Cardinality(Threads)
    BY <1>3, <2>2, <2>3, <2>4
  <2>. QED
    BY <2>2, <2>5 DEF StaleInv
<1>4. CASE holder # NoOne /\ Before(todo[holder], 1, <<"clear">>, "unlock")
  BY <1>1, <1>2, <1>4 DEF StaleInv
<1>. QED
  BY <1>3, <1>4 DEF StaleInv

LEMMA StaleByConnection ==
  ASSUME BaseInv, StaleInv, NEW c \in Connections, AnyStep(c)
  PROVE  StaleInv'
<1>1. Moves(c) /\ \A t \in Threads : todo'[t] = todo[t]
  BY ConnectionKeeps DEF BaseInv
<1>2. PICK steps : todo[c] # <<>> /\ Fits(todo[c], steps) /\ Then(c, steps) /\ LockMoves(c)
  BY <1>1 DEF Moves
<1>3. CASE Clear(c)
  <2>1. stale' = 0
    BY <1>3 DEF Clear
  <2>2. Late' \in SUBSET Threads
    BY DEF Late
  <2>3. PICK late : late = Late'
    OBVIOUS
  <2>4. Cardinality(late) <= Cardinality(Threads) /\ Cardinality(late) \in Nat /\ Cardinality(Threads) \in Nat
    BY <2>2, <2>3, LateBound
  <2>5. stale' \in Nat /\ stale' + Cardinality(late) <= Cardinality(Threads)
    BY <2>1, <2>4
  <2>. QED
    BY <2>3, <2>5 DEF StaleInv
<1>4. CASE Lock(c) /\ Arg(c, 1)
  <2>1. Takes(c, "lock") /\ holder' = c
    BY <1>4 DEF Lock
  <2>2. /\ todo[c][1][1] = "lock" /\ IsSeq(todo[c]) /\ StepOK(todo[c][1])
        /\ Arg(c, 1) = todo[c][1][1 + 1]
    BY <2>1, TakesOf DEF BaseInv
  <2>3. todo[c][1][2] = TRUE
    BY <1>4, <2>2 DEF StepOK
  <2>4. PICK s, t : s = todo[c] /\ t = todo'[c]
    OBVIOUS
  <2>5. c \in Actors /\ todo = [a \in Actors |-> todo[a]] /\ Cleared(s)
    BY <2>4 DEF BaseInv, ListsInv, Disciplined, Actors
  <2>6. t = steps \o Tail(s)
    BY <1>2, <2>4, <2>5, ThenIs
  <2>7. IsSeq(s) /\ s # <<>> /\ IsSeq(steps) /\ Len(s) \in Nat \ {0} /\ Len(steps) \in Nat
    <3>1. IsSeq(s) /\ s # <<>> /\ IsSeq(steps)
      BY <1>2, <2>2, <2>4 DEF Fits
    <3>. QED
      BY <3>1, Taken
  <2>8. Before(s, 1, <<"clear">>, "unlock")
    <3>1. 1 \in 1..Len(s)
      BY <2>7
    <3>. QED
      BY <2>2, <2>3, <2>4, <2>5, <3>1 DEF Cleared
  <2>9. PICK st, barred : st = <<"clear">> /\ barred = "unlock"
    OBVIOUS
  <2>10. s[1] # st
    BY <2>2, <2>4, <2>9
  <2>11. \A i \in 1..Len(steps) : steps[i][1] # barred
    BY <1>2, <2>9 DEF Fits
  <2>12. Before(s, 1, st, barred)
    BY <2>8, <2>9
  <2>13. \A i \in 1..(Len(steps) + 1) : Before(t, i, st, barred)
    BY <2>6, <2>7, <2>10, <2>11, <2>12, BeforeTaken
  <2>14. Before(t, 1, <<"clear">>, "unlock")
    BY <2>7, <2>9, <2>13
  <2>15. c # NoOne
    BY NativeAssumption DEF Actors
  <2>. QED
    BY <2>1, <2>4, <2>14, <2>15 DEF StaleInv
<1>5. CASE ~Clear(c) /\ ~(Lock(c) /\ Arg(c, 1))
  <2>1. stale' = stale /\ session' = session
    <3>1. CASE Lock(c)
      BY <1>5, <3>1 DEF Lock
    <3>2. CASE ~Lock(c)
      BY <1>5, <3>2 DEF AnyStep, QuietStep, DataStep, Unlock, Record, Freeze, Copy, Thaw, Forget, Average,
         Divide, Enter, Exit, Add, Zero, nativeVars, memory
    <3>. QED
      BY <3>1, <3>2
  <2>2. Late' = Late
    BY <1>1, <2>1 DEF Late
  <2>3. CASE stale \in Nat /\ stale + Cardinality(Late) <= Cardinality(Threads)
    BY <2>1, <2>2, <2>3 DEF StaleInv
  <2>4. CASE holder # NoOne /\ Before(todo[holder], 1, <<"clear">>, "unlock")
    <3>1. PICK st : st = <<"clear">>
      OBVIOUS
    <3>2. Before(todo[holder], 1, st, "unlock")
      BY <2>4, <3>1
    <3>3. todo[c][1][1] # "clear"
      <4>. SUFFICES ASSUME todo[c][1][1] = "clear" PROVE FALSE
        OBVIOUS
      <4>1. \A kind : Takes(c, kind) => kind = "clear"
        BY TakesOf DEF BaseInv
      <4>2. ~Takes(c, "lock") /\ ~Takes(c, "unlock") /\ ~Takes(c, "record")
        BY <4>1
      <4>3. ~Takes(c, "freeze") /\ ~Takes(c, "copy") /\ ~Takes(c, "thaw")
        BY <4>1
      <4>4. ~Takes(c, "forget") /\ ~Takes(c, "average") /\ ~Takes(c, "divide")
        BY <4>1
      <4>5. ~Takes(c, "enter") /\ ~Takes(c, "exit") /\ ~Takes(c, "add") /\ ~Takes(c, "zero")
        BY <4>1
      <4>6. ~Takes(c, "flag") /\ ~Takes(c, "sweep") /\ ~Takes(c, "ask") /\ ~Takes(c, "look") /\ ~Takes(c, "rows")
        BY <4>1
      <4>. QED
        BY <1>5, <4>2, <4>3, <4>4, <4>5, <4>6
           DEF AnyStep, QuietStep, DataStep, Lock, Unlock, Record, Freeze, Copy, Thaw, Forget, Average, Divide,
               Enter, Exit, Add, Zero, Flag, Sweep, Ask, Look, AppendRow, Fallback
    <3>4. todo[c][1] # st
      BY <3>1, <3>3
    <3>5. holder' = holder /\ Before(todo'[holder], 1, st, "unlock")
      BY <1>2, <2>4, <3>2, <3>4, HolderKeeps DEF BaseInv
    <3>. QED
      BY <2>4, <3>1, <3>5 DEF StaleInv
  <2>. QED
    BY <2>3, <2>4 DEF StaleInv
<1>. QED
  BY <1>3, <1>4, <1>5

LEMMA StaleKeeps ==
  ASSUME BaseInv, StaleInv, [DataNext]_<<vars, javaVars, met>>
  PROVE  StaleInv'
<1>1. ASSUME UNCHANGED <<nativeVars, todo>> PROVE StaleInv'
  <2>1. UNCHANGED <<holder, stale, session, todo>>
    BY <1>1 DEF nativeVars, memory
  <2>2. Late' = Late
    BY <2>1 DEF Late
  <2>. QED
    BY <2>1, <2>2 DEF StaleInv
<1>2. CASE UNCHANGED <<vars, javaVars, met>>
  BY <1>1, <1>2 DEF vars, nativeVars
<1>3. CASE DataNext
  <2>1. CASE (\E o \in Objects : Collect(o)) /\ UNCHANGED nativeVars
    BY <1>1, <2>1 DEF Collect
  <2>. QED
    BY <1>3, <2>1, StepCases, StaleByThread, StaleByConnection
<1>. QED
  BY <1>2, <1>3

(* A start leaves at most one old event per thread in the table, however   *)
(* many threads allocate while it runs.                                    *)
THEOREM StaleBoundedHolds == DataSpec => []StaleBounded
<1>1. DataInit => StaleInv
  <2>. SUFFICES ASSUME DataInit PROVE StaleInv
    OBVIOUS
  <2>1. stale = 0 /\ session = 0
    BY DEF DataInit, Init
  <2>2. Late \in SUBSET Threads
    BY DEF Late
  <2>3. Cardinality(Late) <= Cardinality(Threads) /\ Cardinality(Late) \in Nat
        /\ Cardinality(Threads) \in Nat
    BY <2>2, LateBound
  <2>. QED
    BY <2>1, <2>3 DEF StaleInv
<1>2. BaseInv /\ StaleInv /\ [DataNext]_<<vars, javaVars, met>> => StaleInv'
  BY StaleKeeps
<1>3. BaseInv /\ StaleInv => StaleBounded
  <2>. SUFFICES ASSUME StaleInv, holder = NoOne PROVE stale <= Cardinality(Threads)
    BY DEF StaleBounded
  <2>1. Late \in SUBSET Threads
    BY DEF Late
  <2>2. Cardinality(Late) \in Nat /\ Cardinality(Threads) \in Nat
    BY <2>1, LateBound
  <2>3. stale \in Nat /\ stale + Cardinality(Late) <= Cardinality(Threads)
    BY DEF StaleInv
  <2>. QED
    BY <2>2, <2>3
<1>. QED
  BY <1>1, <1>2, <1>3, BaseHolds, PTL DEF DataSpec

----------------------------------------------------------------------------
(* The table of the native agent.                                          *)

\* The paths of D that are one method longer than q.
Longer(D, q) == {r \in D : Len(r) > 1 /\ Front(r) = q}

Closed(D) == \A q \in D : IsSeq(q) /\ Len(q) > 0 /\ Prefixes(q) \ {<<>>} \subseteq D

Sizes(table)  == [q \in DOMAIN table |-> table[q].size]
Counts(table) == [q \in DOMAIN table |-> table[q].count]

\* What g counts at a path covers what it counts at the longer ones.
Covers(g, D) == \A q \in D : Total(g, Longer(D, q)) <= g[q]

Table(table) ==
  /\ IsFiniteSet(DOMAIN table) /\ Closed(DOMAIN table)
  /\ \A q \in DOMAIN table : /\ Len(q) \in 1..MaxFrames
                             /\ table[q].size \in Nat /\ table[q].count \in Nat \ {0}
  /\ Covers(Sizes(table), DOMAIN table) /\ Covers(Counts(table), DOMAIN table)

TableInv ==
  /\ recording \in BOOLEAN /\ frozen \in BOOLEAN
  /\ Table(allocations)
  /\ allocations # <<>> => events

(* The start of a path. *)
LEMMA StartOf ==
  ASSUME NEW path, IsSeq(path), NEW k \in 0..Len(path)
  PROVE  /\ IsSeq(SubSeq(path, 1, k)) /\ Len(SubSeq(path, 1, k)) = k
         /\ \A i \in 1..k : SubSeq(path, 1, k)[i] = path[i]
<1>1. /\ path \in Seq(ToSet(path)) /\ Len(path) \in Nat
      /\ \A i \in 1..Len(path) : path[i] \in ToSet(path)
  BY IsSeqOf, ElementOfSeq DEF IsSeq
<1>2. PICK S : S = ToSet(path)
  OBVIOUS
<1>3. PICK s : s = SubSeq(path, 1, k)
  OBVIOUS
<1>4. \A i \in 1..k : path[i] \in S
  BY <1>1, <1>2
<1>5. k \in Int /\ 1 \in Int /\ k \in Nat
  BY <1>1
<1>6. s \in Seq(S) /\ Len(s) = IF 1 <= k THEN k - 1 + 1 ELSE 0
  BY <1>3, <1>4, <1>5, SubSeqProperties
<1>7. \A i \in 1..(k - 1 + 1) : s[i] = path[1 + i - 1]
  BY <1>3, <1>4, <1>5, SubSeqProperties
<1>8. IsSeq(s)
  BY <1>6, IsSeqOf
<1>9. Len(s) = k
  BY <1>5, <1>6
<1>10. \A i \in 1..k : s[i] = path[i]
  <2>. SUFFICES ASSUME NEW i \in 1..k PROVE s[i] = path[i]
    OBVIOUS
  <2>1. i \in 1..(k - 1 + 1) /\ 1 + i - 1 = i
    BY <1>5
  <2>. QED
    BY <1>7, <2>1
<1>. QED
  BY <1>3, <1>8, <1>9, <1>10

(* Sequences as long, and the same at each place, are the same. *)
LEMMA SameSeq ==
  ASSUME NEW s, IsSeq(s), NEW t, IsSeq(t), Len(s) = Len(t), \A i \in 1..Len(s) : s[i] = t[i]
  PROVE  s = t
<1>1. s \in Seq(ToSet(s)) /\ t \in Seq(ToSet(t))
  BY DEF IsSeq
<1>2. s = [i \in 1..Len(s) |-> s[i]] /\ t = [i \in 1..Len(t) |-> t[i]]
  BY <1>1
<1>. QED
  BY <1>2

(* A start of a start is one. *)
LEMMA StartOfStart ==
  ASSUME NEW path, IsSeq(path), NEW k \in 0..Len(path), NEW j \in 0..k
  PROVE  SubSeq(SubSeq(path, 1, k), 1, j) = SubSeq(path, 1, j)
<1>0. Len(path) \in Nat
  BY IsSeqOf DEF IsSeq
<1>1. PICK s : s = SubSeq(path, 1, k)
  OBVIOUS
<1>2. IsSeq(s) /\ Len(s) = k /\ \A i \in 1..k : s[i] = path[i]
  BY <1>1, StartOf
<1>3. PICK t, u : t = SubSeq(s, 1, j) /\ u = SubSeq(path, 1, j)
  OBVIOUS
<1>4. IsSeq(t) /\ Len(t) = j /\ \A i \in 1..j : t[i] = s[i]
  BY <1>2, <1>3, StartOf
<1>5. j \in 0..Len(path)
  BY <1>0
<1>6. IsSeq(u) /\ Len(u) = j /\ \A i \in 1..j : u[i] = path[i]
  BY <1>3, <1>5, StartOf
<1>7. \A i \in 1..j : i \in 1..k
  BY <1>0
<1>8. t = u
  BY <1>2, <1>4, <1>6, <1>7, SameSeq
<1>. QED
  BY <1>1, <1>3, <1>8

(* The starts of a path that are not empty. *)
LEMMA Starts ==
  ASSUME NEW path, IsSeq(path), NEW r \in Prefixes(path) \ {<<>>}
  PROVE  /\ IsSeq(r) /\ Len(r) \in 1..Len(path) /\ Len(path) \in Nat
         /\ r = SubSeq(path, 1, Len(r))
         /\ Prefixes(r) \ {<<>>} \subseteq Prefixes(path) \ {<<>>}
<1>0. Len(path) \in Nat
  BY IsSeqOf DEF IsSeq
<1>1. PICK k \in 0..Len(path) : r = SubSeq(path, 1, k)
  BY DEF Prefixes
<1>2. IsSeq(r) /\ Len(r) = k
  BY <1>1, StartOf
<1>3. k # 0
  <2>1. r \in Seq(ToSet(r))
    BY <1>2 DEF IsSeq
  <2>. QED
    BY <1>2, <2>1, EmptySeq
<1>4. Prefixes(r) \subseteq Prefixes(path)
  <2>. SUFFICES ASSUME NEW j \in 0..Len(r) PROVE SubSeq(r, 1, j) \in Prefixes(path)
    BY DEF Prefixes
  <2>1. j \in 0..k /\ j \in 0..Len(path)
    BY <1>0, <1>2
  <2>2. SubSeq(r, 1, j) = SubSeq(path, 1, j)
    BY <1>1, <2>1, StartOfStart
  <2>. QED
    BY <2>1, <2>2 DEF Prefixes
<1>. QED
  BY <1>0, <1>1, <1>2, <1>3, <1>4

(* The path without its outermost method. *)
LEMMA FrontOf ==
  ASSUME NEW r, IsSeq(r), Len(r) > 1
  PROVE  /\ Front(r) \in Prefixes(r) \ {<<>>} /\ IsSeq(Front(r))
         /\ Len(Front(r)) = Len(r) - 1 /\ Len(r) \in Nat
<1>1. Len(r) \in Nat
  BY IsSeqOf DEF IsSeq
<1>2. PICK n \in Nat : n = Len(r) - 1
  BY <1>1
<1>3. PICK f : f = SubSeq(r, 1, n)
  OBVIOUS
<1>4. n \in 0..Len(r)
  BY <1>1, <1>2
<1>5. IsSeq(f) /\ Len(f) = n
  BY <1>3, <1>4, StartOf
<1>6. f # <<>>
  BY <1>1, <1>2, <1>5
<1>7. f = Front(r)
  BY <1>2, <1>3 DEF Front
<1>8. f \in Prefixes(r)
  BY <1>3, <1>4 DEF Prefixes
<1>. QED
  BY <1>1, <1>2, <1>5, <1>6, <1>7, <1>8

(* A tree grown by a path is one. *)
LEMMA GrownClosed ==
  ASSUME NEW D, Closed(D), NEW path, IsSeq(path)
  PROVE  Closed(D \cup (Prefixes(path) \ {<<>>}))
<1>1. \A r \in Prefixes(path) \ {<<>>} :
        IsSeq(r) /\ Len(r) > 0 /\ Prefixes(r) \ {<<>>} \subseteq Prefixes(path) \ {<<>>}
  BY Starts
<1>. QED
  BY <1>1 DEF Closed

(* A total grows as one summand does. *)
LEMMA OneGrows ==
  ASSUME NEW S, IsFiniteSet(S), NEW g, NEW h, NEW n \in Nat, NEW a \in S, h[a] = g[a] + n,
         \A b \in S : g[b] \in Nat /\ h[b] \in Nat, \A b \in S : b # a => h[b] = g[b]
  PROVE  Total(h, S) = Total(g, S) + n
<1>1. IsFiniteSet(S) /\ a \in S
  OBVIOUS
<1>2. \A b \in S : g[b] \in Int /\ h[b] \in Int
  OBVIOUS
<1>3. \A b \in S : b # a => h[b] = g[b]
  OBVIOUS
<1>4. PICK x, y : x = Total(g, S) /\ y = Total(h, S)
  OBVIOUS
<1>5. x \in Int /\ y \in Int
  BY <1>1, <1>2, <1>4, TotalChange
<1>6. y - h[a] = x - g[a]
  BY <1>1, <1>2, <1>3, <1>4, TotalMoves
<1>7. g[a] \in Int /\ h[a] = g[a] + n
  BY <1>2
<1>. QED
  BY <1>4, <1>5, <1>6, <1>7

(* An event counted at the methods of a path leaves every path covering    *)
(* the longer ones: where one of these grows, there is only one that does, *)
(* and the path grows as much.                                             *)
LEMMA GrownCovers ==
  ASSUME NEW D, IsFiniteSet(D), Closed(D), NEW path, IsSeq(path), NEW n \in Nat,
         NEW E, E = D \cup (Prefixes(path) \ {<<>>}),
         NEW g, \A q \in D : g[q] \in Nat, Covers(g, D),
         NEW h, \A q \in E : h[q] = IF q \in Prefixes(path) \ {<<>>}
                                    THEN (IF q \in D THEN g[q] ELSE 0) + n ELSE g[q]
  PROVE  Covers(h, E)
<1>. SUFFICES ASSUME NEW q \in E PROVE Total(h, Longer(E, q)) <= h[q]
  BY DEF Covers
<1>. PICK on : on = Prefixes(path) \ {<<>>}
  OBVIOUS
<1>. PICK L, M : L = Longer(D, q) /\ M = Longer(E, q)
  OBVIOUS
<1>1. \A r \in on : Len(r) > 1 => Front(r) \in on /\ Len(Front(r)) = Len(r) - 1 /\ Len(r) \in Nat
  BY Starts, FrontOf
<1>2. \A r \in D : Len(r) > 1 => Front(r) \in D
  BY FrontOf DEF Closed
<1>3. IsFiniteSet(L) /\ L \subseteq D /\ L \subseteq E
  BY FS_Subset DEF Longer
<1>4. /\ Total(g, L) \in Nat
      /\ q \in D => Total(g, L) <= g[q]
      /\ q \notin D => Total(g, L) = 0
  <2>1. Total(g, L) \in Nat
    BY <1>3, TotalNat
  <2>2. q \notin D => L = {}
    BY <1>2 DEF Longer
  <2>. QED
    BY <2>1, <2>2, TotalEmpty DEF Covers
<1>5. \A x \in E : h[x] \in Nat
  <2>. SUFFICES ASSUME NEW x \in E PROVE h[x] \in Nat
    OBVIOUS
  <2>1. x \in D \/ x \in Prefixes(path) \ {<<>>}
    OBVIOUS
  <2>. QED
    BY <2>1
<1>6. CASE \A r \in on : ~(Len(r) > 1 /\ Front(r) = q)
  <2>1. M = L
    BY <1>6 DEF Longer
  <2>2. \A r \in L : h[r] = g[r]
    BY <1>3, <1>6 DEF Longer
  <2>3. Total(h, L) = Total(g, L)
    BY <1>3, <2>2, TotalSame
  <2>4. h[q] \in Nat /\ (q \in D => h[q] >= g[q])
    BY <1>5
  <2>. QED
    BY <1>4, <2>1, <2>3, <2>4
<1>7. CASE \E r \in on : Len(r) > 1 /\ Front(r) = q
  <2>1. PICK x \in on : Len(x) > 1 /\ Front(x) = q
    BY <1>7
  <2>2. q \in on /\ x \in E
    BY <1>1, <2>1
  <2>3. \A r \in on : Len(r) > 1 /\ Front(r) = q => r = x
    <3>. SUFFICES ASSUME NEW r \in on, Len(r) > 1, Front(r) = q PROVE r = x
      OBVIOUS
    <3>1. Len(r) - 1 = Len(x) - 1 /\ Len(r) \in Nat /\ Len(x) \in Nat
      BY <1>1, <2>1
    <3>2. r = SubSeq(path, 1, Len(r)) /\ x = SubSeq(path, 1, Len(x))
      BY <2>1, Starts
    <3>3. Len(r) = Len(x)
      BY <3>1
    <3>. QED
      BY <3>2, <3>3
  <2>4. M = L \cup {x}
    BY <2>1, <2>2, <2>3 DEF Longer
  <2>5. \A r \in L : r # x => h[r] = g[r]
    BY <1>3, <2>3 DEF Longer
  <2>6. h[q] = (IF q \in D THEN g[q] ELSE 0) + n
    BY <2>2
  <2>7. CASE x \in L
    <3>1. q \in D /\ x \in D
      BY <1>2, <1>3, <2>1, <2>7
    <3>2. \A b \in L : g[b] \in Nat /\ h[b] \in Nat
      BY <1>3, <1>5
    <3>3. M = L
      BY <2>4, <2>7
    <3>4. h[x] = g[x] + n /\ g[q] \in Nat
      BY <2>1, <2>2, <3>1
    <3>5. Total(h, L) = Total(g, L) + n
      <4>1. IsFiniteSet(L)
        BY <1>3
      <4>2. x \in L
        BY <2>7
      <4>3. h[x] = g[x] + n
        BY <3>4
      <4>4. PICK S, f, k : S = L /\ f = g /\ k = h
        OBVIOUS
      <4>5. IsFiniteSet(S)
        BY <4>1, <4>4
      <4>6. x \in S
        BY <4>2, <4>4
      <4>7. \A b \in S : f[b] \in Nat /\ k[b] \in Nat
        BY <3>2, <4>4
      <4>8. \A b \in S : b # x => k[b] = f[b]
        BY <2>5, <4>4
      <4>9. k[x] = f[x] + n
        BY <4>3, <4>4
      <4>10. Total(k, S) = Total(f, S) + n
        BY <4>5, <4>6, <4>7, <4>8, <4>9, OneGrows
      <4>. QED
        BY <4>4, <4>10
    <3>. QED
      BY <1>4, <2>6, <3>1, <3>3, <3>4, <3>5
  <2>8. CASE x \notin L
    <3>1. x \notin D
      BY <2>1, <2>8 DEF Longer
    <3>2. h[x] = n
      BY <2>1, <2>2, <3>1
    <3>3. \A b \in L \cup {x} : h[b] \in Int
      BY <1>3, <1>5, <2>2
    <3>4. Total(h, L \cup {x}) = h[x] + Total(h, L)
      BY <1>3, <2>8, <3>3, TotalAdd
    <3>5. Total(h, L) = Total(g, L)
      <4>1. \A r \in L : h[r] = g[r]
        BY <2>5, <2>8
      <4>. QED
        BY <1>3, <4>1, TotalSame
    <3>6. PICK old \in Nat, sum \in Nat : old = (IF q \in D THEN g[q] ELSE 0) /\ sum = Total(g, L)
      BY <1>4
    <3>7. sum <= old
      BY <1>4, <3>6
    <3>8. Total(h, M) = n + sum /\ h[q] = old + n
      BY <2>4, <2>6, <3>2, <3>4, <3>5, <3>6
    <3>. QED
      BY <3>7, <3>8
  <2>. QED
    BY <2>7, <2>8
<1>. QED
  BY <1>6, <1>7

(* Sums over the paths of the table are those of its sizes and counts. *)
LEMMA SumOverTotal ==
  ASSUME NEW field, NEW S
  PROVE  SumOver(field, S) = Total([q \in S |-> allocations[q][field]], S)
BY DEF SumOver, Total, SumsOf, Sums, Choice, MapThenSumSet, MapThenFoldSet

LEMMA TableTree ==
  ASSUME Table(allocations)
  PROVE  TreeCovers
<1>. PICK D : D = DOMAIN allocations
  OBVIOUS
<1>1. IsFiniteSet(D) /\ Closed(D) /\ Covers(Sizes(allocations), D) /\ Covers(Counts(allocations), D)
  BY DEF Table
<1>2. ASSUME NEW q \in D
      PROVE  /\ Prefixes(q) \ {<<>>} \subseteq D
             /\ SumOver("size", Longer(D, q)) <= allocations[q].size
             /\ SumOver("count", Longer(D, q)) <= allocations[q].count
  <2>1. PICK S : S = Longer(D, q)
    OBVIOUS
  <2>2. IsFiniteSet(S) /\ S \subseteq D
    BY <1>1, <2>1, FS_Subset DEF Longer
  <2>3. PICK g : g = [r \in S |-> allocations[r]["size"]]
    OBVIOUS
  <2>4. PICK h : h = [r \in S |-> allocations[r]["count"]]
    OBVIOUS
  <2>5. PICK sizes, counts : sizes = Sizes(allocations) /\ counts = Counts(allocations)
    OBVIOUS
  <2>6. (\A r \in S : g[r] = sizes[r]) /\ (\A r \in S : h[r] = counts[r])
    BY <2>2, <2>3, <2>4, <2>5 DEF Sizes, Counts
  <2>7. Total(g, S) = Total(sizes, S)
    BY <2>2, <2>6, TotalSame
  <2>8. Total(h, S) = Total(counts, S)
    BY <2>2, <2>6, TotalSame
  <2>9. Total(sizes, S) <= sizes[q] /\ Total(counts, S) <= counts[q]
    BY <1>1, <2>1, <2>5 DEF Covers
  <2>10. sizes[q] = allocations[q].size /\ counts[q] = allocations[q].count
    BY <2>5 DEF Sizes, Counts
  <2>11. SumOver("size", S) = Total(g, S) /\ SumOver("count", S) = Total(h, S)
    BY <2>3, <2>4, SumOverTotal
  <2>12. SumOver("size", S) <= allocations[q].size /\ SumOver("count", S) <= allocations[q].count
    BY <2>7, <2>8, <2>9, <2>10, <2>11
  <2>. QED
    BY <1>1, <2>1, <2>12 DEF Closed
<1>. QED
  BY <1>2 DEF TreeCovers, Longer

(* One event more leaves the table a tree that covers. *)
LEMMA CountedTable ==
  ASSUME Table(allocations), NEW path, IsSeq(path), Len(path) \in 1..MaxFrames, NEW size \in Nat
  PROVE  Table(Counted(path, size))
<1>. PICK table, D, E, on : /\ table = Counted(path, size) /\ D = DOMAIN allocations
                            /\ E = D \cup (Prefixes(path) \ {<<>>}) /\ on = Prefixes(path) \ {<<>>}
  OBVIOUS
<1>1. /\ DOMAIN table = E
      /\ \A q \in E :
           /\ table[q].size = IF q \in on THEN (IF q \in D THEN allocations[q].size ELSE 0) + size
                              ELSE allocations[q].size
           /\ table[q].count = IF q \in on THEN (IF q \in D THEN allocations[q].count ELSE 0) + 1
                               ELSE allocations[q].count
  BY DEF Counted
<1>2. IsFiniteSet(D) /\ Closed(D) /\ Covers(Sizes(allocations), D) /\ Covers(Counts(allocations), D)
  BY DEF Table
<1>3. \A q \in D : /\ Len(q) \in 1..MaxFrames
                   /\ allocations[q].size \in Nat /\ allocations[q].count \in Nat \ {0}
  BY DEF Table
<1>4. Closed(E)
  BY <1>2, GrownClosed
<1>5. \A q \in on : Len(q) \in 1..MaxFrames
  <2>1. MaxFrames \in Nat
    BY NativeAssumption DEF DepthCap
  <2>2. \A q \in on : Len(q) \in 1..Len(path) /\ Len(path) \in Nat
    BY Starts
  <2>. QED
    BY <2>1, <2>2
<1>6. IsFiniteSet(E)
  <2>1. PICK n \in Nat : n = Len(path)
    BY IsSeqOf DEF IsSeq
  <2>2. IsFiniteSet(0..n)
    <3>1. 0 \in Int /\ n \in Int
      OBVIOUS
    <3>. QED
      BY <3>1, FS_Interval
  <2>3. IsFiniteSet(Prefixes(path))
    <3>1. PICK f : f = [k \in 0..n |-> SubSeq(path, 1, k)]
      OBVIOUS
    <3>2. f \in Surjection(0..n, Prefixes(path))
      BY <2>1, <3>1 DEF Prefixes, Surjection
    <3>. QED
      BY <2>2, <3>2, FS_Surjection
  <2>4. IsFiniteSet(Prefixes(path) \ {<<>>})
    BY <2>3, FS_Subset
  <2>. QED
    BY <1>2, <2>4, FS_Union
<1>7. \A q \in E : /\ Len(q) \in 1..MaxFrames
                   /\ table[q].size \in Nat /\ table[q].count \in Nat \ {0}
  <2>. SUFFICES ASSUME NEW q \in E
                PROVE  Len(q) \in 1..MaxFrames /\ table[q].size \in Nat /\ table[q].count \in Nat \ {0}
    OBVIOUS
  <2>1. q \in D \/ q \in on
    OBVIOUS
  <2>. QED
    BY <1>1, <1>3, <1>5, <2>1
<1>8. Covers(Sizes(table), E)
  <2>1. PICK g, h : g = Sizes(allocations) /\ h = Sizes(table)
    OBVIOUS
  <2>2. \A q \in D : g[q] \in Nat
    BY <1>3, <2>1 DEF Sizes
  <2>3. \A q \in E : h[q] = IF q \in Prefixes(path) \ {<<>>}
                            THEN (IF q \in D THEN g[q] ELSE 0) + size ELSE g[q]
    BY <1>1, <2>1 DEF Sizes
  <2>4. Covers(g, D)
    BY <1>2, <2>1
  <2>5. Covers(h, E)
    BY <1>2, <2>2, <2>3, <2>4, GrownCovers
  <2>. QED
    BY <2>1, <2>5
<1>9. Covers(Counts(table), E)
  <2>1. PICK g, h, n : g = Counts(allocations) /\ h = Counts(table) /\ n = 1
    OBVIOUS
  <2>2. n \in Nat /\ \A q \in D : g[q] \in Nat
    BY <1>3, <2>1 DEF Counts
  <2>3. \A q \in E : h[q] = IF q \in Prefixes(path) \ {<<>>}
                            THEN (IF q \in D THEN g[q] ELSE 0) + n ELSE g[q]
    BY <1>1, <2>1 DEF Counts
  <2>4. Covers(g, D)
    BY <1>2, <2>1
  <2>5. Covers(h, E)
    BY <1>2, <2>2, <2>3, <2>4, GrownCovers
  <2>. QED
    BY <2>1, <2>5
<1>. QED
  BY <1>1, <1>4, <1>6, <1>7, <1>8, <1>9 DEF Table

LEMMA EmptyTable == Table(<<>>)
<1>1. DOMAIN <<>> = {}
  OBVIOUS
<1>. QED
  BY <1>1, FS_EmptySet DEF Table, Closed, Covers

LEMMA TableKeeps ==
  ASSUME BaseInv, TableInv, [DataNext]_<<vars, javaVars, met>>
  PROVE  TableInv'
<1>1. CASE UNCHANGED <<events, recording, frozen, allocations>>
  BY <1>1 DEF TableInv, Table, Closed, Covers, Sizes, Counts
<1>2. ASSUME NEW t \in Threads, Merge(t) PROVE TableInv'
  <2>1. Takes(t, "merge")
    BY <1>2 DEF Merge
  <2>2. /\ IsSeq(todo[t][1][2]) /\ Len(todo[t][1][2]) \in 1..MaxFrames /\ events
        /\ todo[t][1][3] \in Nat
        /\ Arg(t, 1) = todo[t][1][1 + 1] /\ Arg(t, 2) = todo[t][1][2 + 1]
    BY <2>1, TakesByThread DEF BaseInv
  <2>3. PICK path, size : path = Arg(t, 1) /\ size = Arg(t, 2)
    OBVIOUS
  <2>4. IsSeq(path) /\ Len(path) \in 1..MaxFrames /\ size \in Nat
    BY <2>2, <2>3
  <2>5. allocations' = Counted(path, size) /\ UNCHANGED <<events, recording, frozen>>
    BY <1>2, <2>3 DEF Merge
  <2>6. Table(Counted(path, size))
    BY <2>4, CountedTable DEF TableInv
  <2>7. Table(allocations')
    BY <2>5, <2>6
  <2>. QED
    BY <2>2, <2>5, <2>7 DEF TableInv
<1>3. ASSUME NEW c \in Connections, Clear(c) PROVE TableInv'
  <2>1. allocations' = <<>> /\ UNCHANGED <<events, recording, frozen>>
    BY <1>3 DEF Clear
  <2>. QED
    BY <2>1, EmptyTable DEF TableInv
<1>4. ASSUME NEW c \in Connections, Record(c) \/ Freeze(c) \/ Thaw(c) PROVE TableInv'
  <2>1. allocations' = allocations /\ events' = events
    BY <1>4 DEF Record, Freeze, Thaw
  <2>2. recording' \in BOOLEAN /\ frozen' \in BOOLEAN
    <3>1. CASE Record(c)
      <4>1. Takes(c, "record")
        BY <3>1 DEF Record
      <4>2. StepOK(todo[c][1]) /\ todo[c][1][1] = "record" /\ Arg(c, 1) = todo[c][1][1 + 1]
        BY <4>1, TakesOf DEF BaseInv
      <4>. QED
        BY <3>1, <4>2 DEF Record, StepOK, TableInv
    <3>2. CASE Freeze(c) \/ Thaw(c)
      BY <3>2 DEF Freeze, Thaw, TableInv
    <3>. QED
      BY <1>4, <3>1, <3>2
  <2>3. Table(allocations')
    BY <2>1 DEF TableInv
  <2>. QED
    BY <2>1, <2>2, <2>3 DEF TableInv
<1>5. ASSUME NEW t \in Threads, ThreadStep(t) PROVE TableInv'
  <2>1. CASE Allocate(t) \/ UNCHANGED nativeVars
    BY <1>1, <2>1 DEF Allocate, memory, nativeVars
  <2>. QED
    BY <1>2, <1>5, <2>1 DEF ThreadStep
<1>6. ASSUME NEW c \in Connections, AnyStep(c) PROVE TableInv'
  <2>1. CASE DataStep(c) \/ Enter(c) \/ Exit(c) \/ Add(c) \/ Zero(c)
    BY <1>1, <2>1 DEF DataStep, Enter, Exit, Add, Zero, memory, nativeVars
  <2>2. CASE Lock(c) \/ Unlock(c) \/ Copy(c) \/ Forget(c) \/ Average(c) \/ Divide(c)
    BY <1>1, <2>2 DEF Lock, Unlock, Copy, Forget, Average, Divide, memory
  <2>. QED
    BY <1>3, <1>4, <1>6, <2>1, <2>2 DEF AnyStep, QuietStep
<1>7. CASE DataNext
  <2>1. CASE (\E o \in Objects : Collect(o)) /\ UNCHANGED nativeVars
    BY <1>1, <2>1 DEF nativeVars, memory
  <2>. QED
    BY <1>5, <1>6, <1>7, <2>1, StepCases
<1>8. CASE UNCHANGED <<vars, javaVars, met>>
  BY <1>1, <1>8 DEF vars, memory
<1>. QED
  BY <1>7, <1>8

LEMMA TableHolds == DataSpec => []TableInv
<1>1. DataInit => TableInv
  BY EmptyTable DEF DataInit, Init, TableInv
<1>2. BaseInv /\ TableInv /\ [DataNext]_<<vars, javaVars, met>> => TableInv'
  BY TableKeeps
<1>. QED
  BY <1>1, <1>2, BaseHolds, PTL DEF DataSpec

(* The native agent's variables have their types, and its table is empty   *)
(* when the JVM grants no events.                                          *)
THEOREM NativeTypesHold == DataSpec => []TypeOK
<1>1. BaseInv /\ TableInv => TypeOK
  BY DEF BaseInv, TableInv, TypeOK, Table, ListsInv, ProbesInv
<1>. QED
  BY <1>1, BaseHolds, TableHolds, PTL

(* The table of allocations is a tree in which a path counts what the      *)
(* longer paths count together, at every moment: of any number of threads  *)
(* that merge their events and starts that empty it.                       *)
THEOREM TreeCoversHolds == DataSpec => []TreeCovers
<1>1. TableInv => TreeCovers
  BY TableTree DEF TableInv
<1>. QED
  BY <1>1, TableHolds, PTL

----------------------------------------------------------------------------
(* The sites.                                                              *)

\* A step of a hook: its object is st[2], its path st[3].
HookStep(st) == st[1] \in {"entry", "sample"}

\* A hook goes from path to path, each one method longer than the last.
Chained(s) ==
  \A i \in 1..Len(s) :
    /\ HookStep(s[i]) => s[i][3] \in Sites
    /\ s[i][1] = "sample" => i = 1
    /\ s[i][1] = "entry" /\ i > 1 => /\ HookStep(s[i - 1]) /\ s[i - 1][2] = s[i][2]
                                     /\ Len(s[i][3]) > 1 /\ Front(s[i][3]) = s[i - 1][3]

HooksInv == \A t \in Threads : Chained(todo[t])

\* The steps that may stand where a thread's first step st stood.
Follows(steps, st) ==
  \/ Len(steps) = 0
  \/ ~HookStep(st)
  \/ Len(steps) = 1 /\ HookStep(steps[1]) /\ steps[1][2] = st[2] /\ steps[1][3] = st[3]

LEMMA ChainTaken ==
  ASSUME NEW s, IsSeq(s), s # <<>>, Chained(s), NEW steps, IsSeq(steps), Chained(steps),
         Follows(steps, s[1]), NEW u, u = steps \o Tail(s)
  PROVE  Chained(u)
<1>1. PICK m \in Nat, n \in Nat \ {0} : m = Len(steps) /\ n = Len(s)
  BY Taken
<1>2. Len(u) = m + n - 1
  BY <1>1, Taken
<1>3. \A i \in 1..m : u[i] = steps[i]
  BY <1>1, Taken
<1>4. \A k \in 2..n : u[k + (m - 1)] = s[k]
  BY <1>1, Taken
<1>5. SUFFICES ASSUME NEW i \in 1..(m + n - 1)
               PROVE  /\ HookStep(u[i]) => u[i][3] \in Sites
                      /\ u[i][1] = "sample" => i = 1
                      /\ u[i][1] = "entry" /\ i > 1 =>
                           /\ HookStep(u[i - 1]) /\ u[i - 1][2] = u[i][2]
                           /\ Len(u[i][3]) > 1 /\ Front(u[i][3]) = u[i - 1][3]
  BY <1>2 DEF Chained
<1>6. CASE i \in 1..m
  <2>1. u[i] = steps[i] /\ (i > 1 => u[i - 1] = steps[i - 1])
    <3>1. i > 1 => i - 1 \in 1..m
      BY <1>6
    <3>. QED
      BY <1>3, <1>6, <3>1
  <2>. QED
    BY <1>1, <1>6, <2>1 DEF Chained
<1>7. CASE i \notin 1..m
  <2>0. i - (m - 1) \in 2..n /\ i = (i - (m - 1)) + (m - 1)
    BY <1>7
  <2>1. PICK k \in 2..n : i = k + (m - 1) /\ k = i - (m - 1)
    BY <2>0
  <2>2. u[i] = s[k] /\ k \in 1..n /\ k > 1
    <3>1. u[k + (m - 1)] = s[k]
      BY <1>4
    <3>2. u[i] = s[k]
      BY <2>1, <3>1
    <3>3. k \in 1..n /\ k > 1
      BY <2>1
    <3>. QED
      BY <3>2, <3>3
  <2>3. /\ HookStep(s[k]) => s[k][3] \in Sites
        /\ s[k][1] # "sample"
        /\ s[k][1] = "entry" => /\ HookStep(s[k - 1]) /\ s[k - 1][2] = s[k][2]
                                /\ Len(s[k][3]) > 1 /\ Front(s[k][3]) = s[k - 1][3]
    BY <1>1, <2>2 DEF Chained
  <2>4. CASE k > 2
    <3>1. k - 1 \in 2..n /\ (k - 1) + (m - 1) = i - 1
      BY <2>1, <2>4
    <3>2. u[i - 1] = s[k - 1]
      BY <1>4, <3>1
    <3>. QED
      BY <2>2, <2>3, <3>2
  <2>5. CASE k = 2 /\ i > 1
    <3>1. i - 1 = m /\ m \in 1..m /\ m # 0 /\ k - 1 = 1
      BY <2>1, <2>5
    <3>2. u[i - 1] = steps[m]
      BY <1>3, <3>1
    <3>3. CASE HookStep(s[1])
      <4>1. m = 1 /\ HookStep(steps[1]) /\ steps[1][2] = s[1][2] /\ steps[1][3] = s[1][3]
        BY <1>1, <3>1, <3>3 DEF Follows
      <4>. QED
        BY <2>2, <2>3, <3>1, <3>2, <4>1
    <3>4. CASE ~HookStep(s[1])
      <4>1. s[k][1] # "entry"
        BY <2>3, <3>1, <3>4
      <4>. QED
        BY <2>2, <2>3, <4>1
    <3>. QED
      BY <3>3, <3>4
  <2>6. CASE k = 2 /\ ~(i > 1)
    BY <2>2, <2>3, <2>6
  <2>7. k > 2 \/ k = 2
    BY <2>1
  <2>. QED
    BY <2>4, <2>5, <2>6, <2>7
<1>. QED
  BY <1>6, <1>7

\* The next step, with nothing or the first entry of a hook to do.
Fresh(s) == s # <<>> /\ HookStep(s[1]) => s[1][1] = "entry" /\ Len(s[1][3]) = 1

LEMMA HeadAfter ==
  ASSUME NEW s, IsSeq(s), s # <<>>, NEW steps, IsSeq(steps), NEW u, u = steps \o Tail(s)
  PROVE  /\ Len(steps) > 0 => u # <<>> /\ u[1] = steps[1]
         /\ Len(steps) = 0 /\ u # <<>> => 2 \in 1..Len(s) /\ u[1] = s[2]
<1>1. PICK m \in Nat, n \in Nat \ {0} : m = Len(steps) /\ n = Len(s)
  BY Taken
<1>2. Len(u) = m + n - 1 /\ IsSeq(u)
  BY <1>1, Taken
<1>3. \A i \in 1..m : u[i] = steps[i]
  BY <1>1, Taken
<1>4. \A k \in 2..n : u[k + (m - 1)] = s[k]
  BY <1>1, Taken
<1>5. u # <<>> <=> Len(u) # 0
  <2>1. u \in Seq(ToSet(u))
    BY <1>2 DEF IsSeq
  <2>. QED
    BY <2>1, EmptySeq
<1>6. CASE m = 0
  <2>1. u # <<>> => n > 1
    BY <1>2, <1>5, <1>6
  <2>2. n > 1 => 2 \in 2..n /\ 2 + (m - 1) = 1 /\ 2 \in 1..n
    BY <1>6
  <2>. QED
    BY <1>1, <1>4, <1>6, <2>1, <2>2
<1>7. CASE m # 0
  <2>1. 1 \in 1..m /\ Len(u) # 0
    BY <1>2, <1>7
  <2>. QED
    BY <1>1, <1>3, <1>5, <1>7, <2>1
<1>. QED
  BY <1>6, <1>7

LEMMA HeadIs ==
  ASSUME NEW s, IsSeq(s), s # <<>>
  PROVE  Head(s) = s[1] /\ 1 \in 1..Len(s) /\ Len(s) \in Nat
<1>1. s \in Seq(ToSet(s))
  BY DEF IsSeq
<1>2. Head(s) = s[1] /\ Len(s) \in Nat /\ Len(s) # 0
  BY <1>1, HeadTailProperties, EmptySeq, LenProperties
<1>. QED
  BY <1>2

(* The entries of a new object, the shortest path first. *)
LEMMA NewEntries ==
  ASSUME ListsInv, ThreadsInv, NEW t \in Threads, New(t)
  PROVE  \E steps : /\ IsSeq(steps) /\ Chained(steps) /\ Then(t, steps)
                    /\ Len(steps) > 0 => steps[1][1] = "entry" /\ Len(steps[1][3]) = 1
<1>1. Takes(t, "new")
  BY DEF New
<1>2. /\ IsAllocation(<<todo[t][1]>>) /\ todo[t][1][1] = "new"
      /\ Arg(t, 2) = todo[t][1][2 + 1] /\ Arg(t, 3) = todo[t][1][3 + 1]
      /\ Arg(t, 4) = todo[t][1][4 + 1]
  BY <1>1, TakesByThread
<1>3. PICK o, site : o = Arg(t, 1) /\ site = Site(Arg(t, 2), Arg(t, 3), Arg(t, 4))
  OBVIOUS
<1>4. IsSeq(site) /\ ToSet(Segments(site)) \subseteq Sites
  <2>1. PICK st : st = todo[t][1]
    OBVIOUS
  <2>2. <<st>>[1] = st
    OBVIOUS
  <2>3. /\ IsSeq(Site(st[3], st[4], st[5]))
        /\ ToSet(Segments(Site(st[3], st[4], st[5]))) \subseteq Sites
    BY <1>2, <2>1, <2>2 DEF IsAllocation
  <2>4. site = Site(st[3], st[4], st[5])
    BY <1>2, <1>3, <2>1
  <2>. QED
    BY <2>3, <2>4
<1>5. PICK n \in Nat : n = Len(site)
  BY <1>4, IsSeqOf DEF IsSeq
<1>6. PICK path : path = [i \in 1..n |-> SubSeq(site, 1, i)]
  OBVIOUS
<1>7. path = Segments(site) /\ Len(path) = n
  BY <1>5, <1>6 DEF Segments
<1>8. \A i \in 1..n : path[i] = SubSeq(site, 1, i) /\ path[i] \in Sites
  BY <1>4, <1>5, <1>6, <1>7 DEF ToSet
<1>9. PICK entries : entries = [i \in 1..n |-> <<"entry", o, path[i]>>]
  OBVIOUS
<1>10. Then(t, IF isRecording THEN entries ELSE <<>>)
  <2>1. entries = [i \in 1..Len(path) |-> <<"entry", o, path[i]>>]
    BY <1>7, <1>9
  <2>. QED
    BY <1>3, <1>7, <2>1 DEF New
<1>11. Len(entries) = n /\ entries \in Seq({entries[i] : i \in 1..n})
  <2>1. PICK e : entries = [i \in 1..n |-> e[i]]
    BY <1>9
  <2>. QED
    BY <2>1
<1>12. IsSeq(entries)
  BY <1>11, IsSeqOf
<1>13. \A i \in 1..n : entries[i][1] = "entry" /\ entries[i][2] = o /\ entries[i][3] = path[i]
  BY <1>9
<1>14. \A i \in 1..n : Len(path[i]) = i
  <2>1. \A i \in 1..n : i \in 0..Len(site)
    BY <1>5
  <2>. QED
    BY <1>4, <1>8, <2>1, StartOf
<1>15. ASSUME NEW i \in 1..n, i > 1
       PROVE  i - 1 \in 1..n /\ Front(path[i]) = path[i - 1]
  <2>1. i \in 0..Len(site) /\ i - 1 \in 0..i /\ i - 1 \in 1..n
    BY <1>5, <1>15
  <2>2. SubSeq(SubSeq(site, 1, i), 1, i - 1) = SubSeq(site, 1, i - 1)
    BY <1>4, <2>1, StartOfStart
  <2>3. Front(path[i]) = SubSeq(path[i], 1, i - 1)
    BY <1>14 DEF Front
  <2>. QED
    BY <1>8, <2>1, <2>2, <2>3
<1>16. Chained(entries)
  <2>. SUFFICES ASSUME NEW i \in 1..n
                PROVE  /\ HookStep(entries[i]) => entries[i][3] \in Sites
                       /\ entries[i][1] = "sample" => i = 1
                       /\ entries[i][1] = "entry" /\ i > 1 =>
                            /\ HookStep(entries[i - 1]) /\ entries[i - 1][2] = entries[i][2]
                            /\ Len(entries[i][3]) > 1 /\ Front(entries[i][3]) = entries[i - 1][3]
    BY <1>11 DEF Chained
  <2>1. entries[i][3] \in Sites /\ entries[i][1] # "sample"
    BY <1>8, <1>13
  <2>2. ASSUME i > 1
        PROVE  /\ HookStep(entries[i - 1]) /\ entries[i - 1][2] = entries[i][2]
               /\ Len(entries[i][3]) > 1 /\ Front(entries[i][3]) = entries[i - 1][3]
    <3>1. i - 1 \in 1..n /\ Front(path[i]) = path[i - 1]
      BY <1>15, <2>2
    <3>2. entries[i - 1][1] = "entry"
      BY <1>13, <3>1
    <3>3. HookStep(entries[i - 1])
      BY <3>2 DEF HookStep
    <3>. QED
      BY <1>13, <1>14, <2>2, <3>1, <3>3
  <2>. QED
    BY <2>1, <2>2
<1>17. CASE isRecording
  <2>1. Then(t, entries)
    BY <1>10, <1>17
  <2>2. n > 0 => entries[1][1] = "entry" /\ Len(entries[1][3]) = 1
    <3>1. n > 0 => 1 \in 1..n
      OBVIOUS
    <3>. QED
      BY <1>13, <1>14, <3>1
  <2>. QED
    BY <1>11, <1>12, <1>16, <2>1, <2>2
<1>18. CASE ~isRecording
  <2>1. PICK none : none = <<>>
    OBVIOUS
  <2>2. Then(t, none)
    BY <1>10, <1>18, <2>1
  <2>3. IsSeq(none) /\ Len(none) = 0
    BY <2>1, NoSteps DEF Fits
  <2>4. Chained(none)
    BY <2>3 DEF Chained
  <2>. QED
    BY <2>2, <2>3, <2>4
<1>. QED
  BY <1>17, <1>18

(* What a thread stands before when it has taken a step: the next call, or *)
(* the next step of the same hook.                                         *)
LEMMA HooksMove ==
  ASSUME ListsInv, ThreadsInv, HooksInv, NEW t \in Threads, ThreadStep(t)
  PROVE  /\ HooksInv'
         /\ Allocate(t) \/ Merge(t) \/ New(t) => Fresh(todo'[t])
         /\ Entry(t) => /\ todo'[t] # <<>>
                        /\ todo'[t][1] = <<"sample", Arg(t, 1), Arg(t, 2), removed[Arg(t, 2)]>>
         /\ Sample(t) /\ todo'[t] # <<>> /\ HookStep(todo'[t][1]) =>
              /\ todo'[t][1][1] = "entry" /\ todo'[t][1][2] = Arg(t, 1)
              /\ Len(todo'[t][1][3]) > 1 /\ Front(todo'[t][1][3]) = Arg(t, 2)
<1>1. t \in Actors /\ todo = [a \in Actors |-> todo[a]] /\ IsSeq(todo[t])
  BY DEF ListsInv, Actors
<1>2. PICK s, u : s = todo[t] /\ u = todo'[t]
  OBVIOUS
<1>2a. /\ Entry(t) => s[1][1] = "entry"
       /\ Sample(t) => s[1][1] = "sample"
       /\ Allocate(t) => s[1][1] = "alloc"
       /\ Merge(t) => s[1][1] = "merge"
       /\ New(t) => s[1][1] = "new"
  <2>1. ASSUME NEW kind, Takes(t, kind) PROVE s[1][1] = kind
    BY <1>2, <2>1, TakesByThread
  <2>2. Entry(t) => Takes(t, "entry")
    BY DEF Entry
  <2>3. Sample(t) => Takes(t, "sample")
    BY DEF Sample
  <2>4. Allocate(t) => Takes(t, "alloc")
    BY DEF Allocate
  <2>5. Merge(t) => Takes(t, "merge")
    BY DEF Merge
  <2>6. New(t) => Takes(t, "new")
    BY DEF New
  <2>. QED
    BY <2>1, <2>2, <2>3, <2>4, <2>5, <2>6
<1>3. IsSeq(s) /\ Chained(s)
  BY <1>1, <1>2 DEF HooksInv
<1>4. ASSUME NEW steps, Then(t, steps)
      PROVE  u = steps \o Tail(s) /\ \A r \in Threads : r # t => todo'[r] = todo[r]
  BY <1>1, <1>2, <1>4, ThenIs DEF Actors
<1>5. ASSUME NEW steps, Then(t, steps), IsSeq(steps), Chained(steps), s # <<>>, Follows(steps, s[1])
      PROVE  HooksInv'
  <2>1. u = steps \o Tail(s) /\ \A r \in Threads : r # t => todo'[r] = todo[r]
    BY <1>4, <1>5
  <2>2. Chained(u)
    BY <1>3, <1>5, <2>1, ChainTaken
  <2>3. ASSUME NEW r \in Threads PROVE Chained(todo'[r])
    BY <1>2, <2>1, <2>2 DEF HooksInv
  <2>. QED
    BY <2>3 DEF HooksInv
<1>6. ASSUME NEW st, st[1] = "sample" => st[3] \in Sites, st[1] # "entry"
      PROVE  IsSeq(<<st>>) /\ Chained(<<st>>) /\ Len(<<st>>) = 1 /\ <<st>>[1] = st
  <2>1. PICK one : one = <<st>>
    OBVIOUS
  <2>2. one \in Seq({st}) /\ Len(one) = 1 /\ one[1] = st
    BY <2>1
  <2>3. IsSeq(one)
    BY <2>2, IsSeqOf
  <2>4. \A i \in 1..Len(one) : i = 1 /\ one[i] = st
    BY <2>2
  <2>5. Chained(one)
    BY <1>6, <2>4 DEF Chained, HookStep
  <2>. QED
    BY <2>1, <2>2, <2>3, <2>5
<1>7. PICK none : none = <<>>
  OBVIOUS
<1>8. IsSeq(none) /\ Len(none) = 0
  BY <1>7, NoSteps DEF Fits
<1>8a. Chained(none)
  BY <1>8 DEF Chained
\* When a step that is no hook's has been taken, its steps come first.
<1>9. ASSUME NEW steps, Then(t, steps), IsSeq(steps), s # <<>>, ~HookStep(s[1]),
             Len(steps) > 0 /\ HookStep(steps[1]) => steps[1][1] = "entry" /\ Len(steps[1][3]) = 1
      PROVE  Fresh(u)
  <2>1. u = steps \o Tail(s)
    BY <1>4, <1>9
  <2>2. Len(steps) > 0 => u # <<>> /\ u[1] = steps[1]
    BY <1>3, <1>9, <2>1, HeadAfter
  <2>3. Len(steps) = 0 /\ u # <<>> => 2 \in 1..Len(s) /\ u[1] = s[2]
    BY <1>3, <1>9, <2>1, HeadAfter
  <2>4. CASE Len(steps) > 0
    BY <1>9, <2>2, <2>4 DEF Fresh
  <2>5. CASE Len(steps) = 0
    <3>1. ASSUME u # <<>> PROVE ~HookStep(u[1])
      <4>1. 2 \in 1..Len(s) /\ u[1] = s[2]
        BY <2>3, <2>5, <3>1
      <4>2. s[2][1] # "sample" /\ s[2][1] # "entry"
        <5>1. 2 - 1 = 1 /\ 2 > 1 /\ 2 # 1
          OBVIOUS
        <5>2. s[2][1] = "sample" => 2 = 1
          BY <1>3, <4>1 DEF Chained
        <5>3. s[2][1] = "entry" => HookStep(s[2 - 1])
          BY <1>3, <4>1, <5>1 DEF Chained
        <5>. QED
          BY <1>9, <5>1, <5>2, <5>3
      <4>. QED
        BY <4>1, <4>2 DEF HookStep
    <3>. QED
      BY <3>1 DEF Fresh
  <2>6. Len(steps) \in Nat
    BY <1>9, IsSeqOf DEF IsSeq
  <2>. QED
    BY <2>4, <2>5, <2>6
<1>10. CASE Allocate(t)
  <2>1. Takes(t, "alloc")
    BY <1>10 DEF Allocate
  <2>2. s # <<>> /\ s[1][1] = "alloc"
    BY <1>2, <2>1, TakesByThread
  <2>3. PICK m : m = <<"merge", Path(Arg(t, 1)), Arg(t, 2), session>>
    OBVIOUS
  <2>4. m[1] = "merge"
    BY <2>3
  <2>5. IsSeq(<<m>>) /\ Chained(<<m>>) /\ Len(<<m>>) = 1 /\ <<m>>[1] = m
    BY <1>6, <2>4
  <2>6. Then(t, <<m>>) \/ Then(t, none)
    BY <1>7, <1>10, <2>3 DEF Allocate
  <2>7. ~HookStep(s[1]) /\ ~HookStep(m)
    BY <2>2, <2>4 DEF HookStep
  <2>8. Follows(<<m>>, s[1]) /\ Follows(none, s[1])
    BY <2>7 DEF Follows
  <2>9. HooksInv'
    BY <1>5, <1>8, <1>8a, <2>2, <2>5, <2>6, <2>8
  <2>10. Fresh(u)
    BY <1>8, <1>9, <2>2, <2>5, <2>6, <2>7
  <2>11. ~Entry(t) /\ ~Sample(t)
    BY <1>2a, <2>2
  <2>. QED
    BY <1>2, <2>9, <2>10, <2>11
<1>11. CASE Merge(t)
  <2>1. Takes(t, "merge") /\ Then(t, none)
    BY <1>7, <1>11 DEF Merge
  <2>2. s # <<>> /\ s[1][1] = "merge"
    BY <1>2, <2>1, TakesByThread
  <2>3. ~HookStep(s[1]) /\ Follows(none, s[1])
    BY <1>8, <2>2 DEF HookStep, Follows
  <2>4. HooksInv'
    BY <1>5, <1>8, <1>8a, <2>1, <2>2, <2>3
  <2>5. Fresh(u)
    BY <1>8, <1>9, <2>1, <2>2, <2>3
  <2>6. ~Entry(t) /\ ~Sample(t)
    BY <1>2a, <2>2
  <2>. QED
    BY <1>2, <2>4, <2>5, <2>6
<1>12. CASE New(t)
  <2>1. Takes(t, "new")
    BY <1>12 DEF New
  <2>2. s # <<>> /\ s[1][1] = "new"
    BY <1>2, <2>1, TakesByThread
  <2>3. PICK steps : /\ IsSeq(steps) /\ Chained(steps) /\ Then(t, steps)
                     /\ Len(steps) > 0 => steps[1][1] = "entry" /\ Len(steps[1][3]) = 1
    BY <1>12, NewEntries
  <2>4. ~HookStep(s[1]) /\ Follows(steps, s[1])
    BY <2>2 DEF HookStep, Follows
  <2>5. HooksInv'
    BY <1>5, <2>2, <2>3, <2>4
  <2>6. Fresh(u)
    BY <1>9, <2>2, <2>3, <2>4
  <2>7. ~Entry(t) /\ ~Sample(t)
    BY <1>2a, <2>2
  <2>. QED
    BY <1>2, <2>5, <2>6, <2>7
<1>13. CASE Entry(t)
  <2>1. Takes(t, "entry")
    BY <1>13 DEF Entry
  <2>2. /\ s # <<>> /\ s[1][1] = "entry"
        /\ Arg(t, 1) = s[1][1 + 1] /\ Arg(t, 2) = s[1][2 + 1]
    BY <1>2, <2>1, TakesByThread
  <2>3. PICK st : st = <<"sample", Arg(t, 1), Arg(t, 2), removed[Arg(t, 2)]>>
    OBVIOUS
  <2>4. st[1] = "sample" /\ st[2] = s[1][2] /\ st[3] = s[1][3]
    BY <2>2, <2>3
  <2>5. HookStep(s[1]) /\ HookStep(st)
    BY <2>2, <2>4 DEF HookStep
  <2>6. s[1][3] \in Sites
    BY <1>3, <2>2, <2>5, HeadIs DEF Chained
  <2>7. IsSeq(<<st>>) /\ Chained(<<st>>) /\ Len(<<st>>) = 1 /\ <<st>>[1] = st
    BY <1>6, <2>4, <2>6
  <2>8. Then(t, <<st>>)
    BY <1>13, <2>3 DEF Entry
  <2>9. Follows(<<st>>, s[1])
    BY <2>4, <2>5, <2>7 DEF Follows
  <2>10. HooksInv'
    BY <1>5, <2>2, <2>7, <2>8, <2>9
  <2>11. u = <<st>> \o Tail(s)
    BY <1>4, <2>8
  <2>12. u # <<>> /\ u[1] = st
    <3>1. PICK one : one = <<st>>
      OBVIOUS
    <3>2. IsSeq(one) /\ Len(one) > 0 /\ u = one \o Tail(s) /\ one[1] = st
      BY <2>7, <2>11, <3>1
    <3>. QED
      BY <1>3, <2>2, <3>2, HeadAfter
  <2>13. ~Allocate(t) /\ ~Merge(t) /\ ~New(t) /\ ~Sample(t)
    BY <1>2a, <2>2
  <2>. QED
    BY <1>2, <2>3, <2>10, <2>12, <2>13
<1>14. CASE Sample(t)
  <2>1. Takes(t, "sample") /\ Then(t, none)
    BY <1>7, <1>14 DEF Sample
  <2>2. /\ s # <<>> /\ s[1][1] = "sample"
        /\ Arg(t, 1) = s[1][1 + 1] /\ Arg(t, 2) = s[1][2 + 1]
    BY <1>2, <2>1, TakesByThread
  <2>3. Follows(none, s[1])
    BY <1>8 DEF Follows
  <2>4. HooksInv'
    BY <1>5, <1>8, <1>8a, <2>1, <2>2, <2>3
  <2>5. u = none \o Tail(s)
    BY <1>4, <2>1
  <2>6. u # <<>> => 2 \in 1..Len(s) /\ u[1] = s[2]
    BY <1>3, <1>8, <2>2, <2>5, HeadAfter
  <2>7. ASSUME u # <<>>, HookStep(u[1])
        PROVE  /\ u[1][1] = "entry" /\ u[1][2] = s[1][2]
               /\ Len(u[1][3]) > 1 /\ Front(u[1][3]) = s[1][3]
    <3>1. 2 \in 1..Len(s) /\ u[1] = s[2] /\ 2 - 1 = 1 /\ 2 > 1 /\ 2 # 1
      BY <2>6, <2>7
    <3>2. s[2][1] = "sample" => 2 = 1
      BY <1>3, <3>1 DEF Chained
    <3>3. s[2][1] = "entry"
      BY <2>7, <3>1, <3>2 DEF HookStep
    <3>4. s[2 - 1][2] = s[2][2] /\ Len(s[2][3]) > 1 /\ Front(s[2][3]) = s[2 - 1][3]
      BY <1>3, <3>1, <3>3 DEF Chained
    <3>. QED
      BY <3>1, <3>3, <3>4
  <2>8. ~Allocate(t) /\ ~Merge(t) /\ ~New(t) /\ ~Entry(t)
    BY <1>2a, <2>2
  <2>. QED
    BY <1>2, <2>2, <2>4, <2>7, <2>8
<1>. QED
  BY <1>10, <1>11, <1>12, <1>13, <1>14 DEF ThreadStep

----------------------------------------------------------------------------
(* The table of the hooks.                                                 *)

Covered ==
  \A p \in DOMAIN allocationStats : Len(p) > 1 =>
    Front(p) \in DOMAIN allocationStats /\ allocationStats[p] \subseteq allocationStats[Front(p)]

\* What a hook that is about to take this step has done.
Stands(st) ==
  HookStep(st) =>
    /\ Len(st[3]) > 1 => /\ Front(st[3]) \in DOMAIN allocationStats
                         /\ st[2] \in allocationStats[Front(st[3])]
    /\ st[1] = "sample" => st[3] \in DOMAIN allocationStats /\ removed[st[3]] = st[4]

\* c has emptied the table in part.
PartSwept(c) == todo[c] # <<>> /\ todo[c][1][1] = "sweep" /\ todo[c][1][2] # Sites

(* As long as no start met a hook: a hook that is under way has recorded   *)
(* its object one path before, and its entry is in the table; a start that *)
(* is emptying the table leaves nothing where it has been.                 *)
LiveInv ==
  /\ DOMAIN allocationStats \subseteq Sites
  /\ ~met => /\ ~Meeting
             /\ \A t \in Threads : todo[t] # <<>> => Stands(todo[t][1])
             /\ \A c \in Connections : PartSwept(c) => DOMAIN allocationStats \subseteq todo[c][1][2]
             /\ Covered \/ \E c \in Connections : PartSwept(c)

LEMMA NotMeeting ==
  ASSUME ListsInv, ~Meeting, NEW c \in Connections, Takes(c, "sweep"), NEW t \in Threads, todo[t] # <<>>
  PROVE  ~HookStep(todo[t][1])
<1>1. ~Hooking(t)
  BY DEF Meeting
<1>2. PICK s : s = todo[t]
  OBVIOUS
<1>3. IsSeq(s) /\ s # <<>>
  BY <1>2 DEF ListsInv, Actors
<1>4. Head(s) = s[1]
  BY <1>3, HeadIs
<1>. QED
  BY <1>1, <1>2, <1>3, <1>4 DEF Hooking, Takes, HookStep

LEMMA InitLive ==
  ASSUME DataInit
  PROVE  HooksInv /\ LiveInv
<1>1. PICK plan \in Plans : todo = [a \in Actors |-> FlattenSeq(plan[a])]
  BY DEF DataInit, Init
<1>2. /\ \A a \in Actors : IsSeq(plan[a])
      /\ \A c \in Connections : ToSet(plan[c]) \subseteq Commands
      /\ \A t \in Threads : \A call \in ToSet(plan[t]) : IsAllocation(call)
  BY DataAssumption
<1>3. \A t \in Threads : IsSeq(todo[t]) /\ \A i \in 1..Len(todo[t]) : IsAllocation(<<todo[t][i]>>)
  BY <1>1, <1>2, ThreadPlan DEF Actors
<1>4. ASSUME NEW t \in Threads, NEW i \in 1..Len(todo[t]) PROVE ~HookStep(todo[t][i])
  <2>1. PICK st : st = todo[t][i]
    OBVIOUS
  <2>2. IsAllocation(<<st>>) /\ <<st>>[1] = st
    BY <1>3, <2>1
  <2>3. st[1] = "alloc" \/ st[1] = "new"
    BY <2>2 DEF IsAllocation
  <2>. QED
    BY <2>1, <2>3 DEF HookStep
<1>5. HooksInv
  BY <1>4 DEF HooksInv, Chained, HookStep
<1>6. ASSUME NEW t \in Threads, todo[t] # <<>>
      PROVE  ~HookStep(todo[t][1]) /\ ~Hooking(t)
  <2>1. PICK s : s = todo[t]
    OBVIOUS
  <2>2. IsSeq(s) /\ s # <<>>
    BY <1>3, <1>6, <2>1
  <2>3. Head(s) = s[1] /\ 1 \in 1..Len(s)
    BY <2>2, HeadIs
  <2>4. ~HookStep(s[1])
    BY <1>4, <2>1, <2>3
  <2>. QED
    BY <2>1, <2>3, <2>4 DEF Hooking, Takes, HookStep
<1>7. ~Meeting /\ \A t \in Threads : todo[t] # <<>> => Stands(todo[t][1])
  <2>1. \A t \in Threads : ~Hooking(t)
    BY <1>6 DEF Hooking, Takes
  <2>. QED
    BY <1>6, <2>1 DEF Meeting, Stands
<1>8. DOMAIN allocationStats = {}
  BY DEF DataInit
<1>. QED
  BY <1>5, <1>7, <1>8 DEF LiveInv, Covered

LEMMA SweptTakes ==
  ASSUME ListsInv, NEW c \in Connections, PartSwept(c)
  PROVE  Takes(c, "sweep") /\ Sweeping
<1>1. PICK s : s = todo[c]
  OBVIOUS
<1>2. IsSeq(s) /\ s # <<>>
  BY <1>1 DEF ListsInv, Actors, PartSwept
<1>3. Head(s) = s[1]
  BY <1>2, HeadIs
<1>4. Takes(c, "sweep")
  BY <1>1, <1>2, <1>3 DEF Takes, PartSwept
<1>5. Arg(c, 1) # Sites
  <2>1. Arg(c, 1) = s[1][1 + 1]
    BY <1>1, <1>3 DEF Arg
  <2>. QED
    BY <1>1, <2>1 DEF PartSwept
<1>. QED
  BY <1>4, <1>5 DEF Sweeping

LEMMA HookHead ==
  ASSUME ListsInv, ThreadsInv, HooksInv, NEW t \in Threads, Entry(t) \/ Sample(t)
  PROVE  /\ todo[t] # <<>> /\ HookStep(todo[t][1]) /\ Hooking(t) /\ todo[t][1][3] \in Sites
         /\ Arg(t, 1) = todo[t][1][2] /\ Arg(t, 2) = todo[t][1][3] /\ Arg(t, 3) = todo[t][1][4]
         /\ Sample(t) => todo[t][1][1] = "sample"
<1>1. ASSUME NEW kind, kind = "entry" \/ kind = "sample", Takes(t, kind)
      PROVE  /\ todo[t] # <<>> /\ HookStep(todo[t][1]) /\ Hooking(t) /\ todo[t][1][3] \in Sites
             /\ Arg(t, 1) = todo[t][1][2] /\ Arg(t, 2) = todo[t][1][3] /\ Arg(t, 3) = todo[t][1][4]
             /\ todo[t][1][1] = kind
  <2>1. PICK s : s = todo[t]
    OBVIOUS
  <2>2. s # <<>> /\ s[1][1] = kind /\ IsSeq(s) /\ \A i : Arg(t, i) = s[1][i + 1]
    BY <1>1, <2>1, TakesByThread
  <2>3. 1 \in 1..Len(s)
    BY <2>2, HeadIs
  <2>4. HookStep(s[1])
    BY <1>1, <2>2 DEF HookStep
  <2>5. s[1][3] \in Sites
    BY <2>1, <2>3, <2>4 DEF HooksInv, Chained
  <2>6. Arg(t, 1) = s[1][2] /\ Arg(t, 2) = s[1][3] /\ Arg(t, 3) = s[1][4]
    <3>1. Arg(t, 1) = s[1][1 + 1] /\ Arg(t, 2) = s[1][2 + 1] /\ Arg(t, 3) = s[1][3 + 1]
      BY <2>2
    <3>. QED
      BY <3>1
  <2>. QED
    BY <1>1, <2>1, <2>2, <2>4, <2>5, <2>6 DEF Hooking
<1>2. CASE Entry(t)
  <2>1. Takes(t, "entry")
    BY <1>2 DEF Entry
  <2>2. todo[t][1][1] = "entry"
    BY <1>1, <2>1
  <2>3. ~Sample(t)
    <3>1. ASSUME Takes(t, "sample") PROVE FALSE
      BY <1>1, <2>2, <3>1
    <3>. QED
      BY <3>1 DEF Sample
  <2>. QED
    BY <1>1, <2>1, <2>3
<1>3. CASE Sample(t)
  <2>1. Takes(t, "sample")
    BY <1>3 DEF Sample
  <2>. QED
    BY <1>1, <2>1
<1>. QED
  BY <1>2, <1>3

(* A hook's step leaves the table covered. *)
LEMMA HookCovers ==
  ASSUME ListsInv, ThreadsInv, HooksInv, LiveInv, ~met, NEW t \in Threads, Entry(t) \/ Sample(t)
  PROVE  /\ Covered /\ Covered' /\ \A c \in Connections : ~PartSwept(c)
         /\ DOMAIN allocationStats \subseteq DOMAIN allocationStats'
         /\ \A p \in DOMAIN allocationStats : allocationStats[p] \subseteq allocationStats'[p]
         /\ Arg(t, 2) \in DOMAIN allocationStats'
         /\ Sample(t) => Arg(t, 1) \in allocationStats'[Arg(t, 2)]
<1>1. PICK p, o, st : st = todo[t][1] /\ p = Arg(t, 2) /\ o = Arg(t, 1)
  OBVIOUS
<1>2. /\ HookStep(st) /\ Hooking(t) /\ p \in Sites /\ o = st[2] /\ p = st[3] /\ Arg(t, 3) = st[4]
      /\ Sample(t) => st[1] = "sample"
  BY <1>1, HookHead
<1>3. Stands(st)
  BY <1>1, HookHead DEF LiveInv
<1>4. \A c \in Connections : ~PartSwept(c)
  <2>1. \A c \in Connections : ~Takes(c, "sweep")
    BY <1>2 DEF LiveInv, Meeting
  <2>. QED
    BY <2>1, SweptTakes
<1>5. Covered
  BY <1>4 DEF LiveInv
<1>6. CASE Entry(t)
  <2>1. allocationStats' = [q \in DOMAIN allocationStats \cup {p} |->
                              IF q \in DOMAIN allocationStats THEN allocationStats[q] ELSE {}]
    BY <1>1, <1>6 DEF Entry
  <2>2. /\ DOMAIN allocationStats' = DOMAIN allocationStats \cup {p}
        /\ \A q \in DOMAIN allocationStats : allocationStats'[q] = allocationStats[q]
        /\ p \notin DOMAIN allocationStats => allocationStats'[p] = {}
    BY <2>1
  <2>3. Len(p) > 1 => Front(p) \in DOMAIN allocationStats
    BY <1>2, <1>3 DEF Stands
  <2>4. Covered'
    BY <1>5, <2>2, <2>3 DEF Covered
  <2>5. ~Sample(t)
    <3>1. ASSUME Sample(t) PROVE FALSE
      <4>1. Takes(t, "entry")
        BY <1>6 DEF Entry
      <4>2. todo[t][1][1] = "entry"
        BY <4>1, TakesByThread
      <4>. QED
        BY <1>1, <1>2, <3>1, <4>2
    <3>. QED
      BY <3>1
  <2>. QED
    BY <1>1, <1>4, <1>5, <2>2, <2>4, <2>5
<1>7. CASE Sample(t)
  <2>1. p \in DOMAIN allocationStats /\ removed[p] = Arg(t, 3)
    BY <1>2, <1>3, <1>7 DEF Stands
  <2>2. allocationStats' = [allocationStats EXCEPT ![p] = @ \cup {o}]
    BY <1>1, <1>7, <2>1 DEF Sample
  <2>3. /\ DOMAIN allocationStats' = DOMAIN allocationStats
        /\ \A q \in DOMAIN allocationStats : q # p => allocationStats'[q] = allocationStats[q]
        /\ allocationStats'[p] = allocationStats[p] \cup {o}
    BY <2>1, <2>2
  <2>4. Len(p) > 1 => Front(p) \in DOMAIN allocationStats /\ o \in allocationStats[Front(p)]
    BY <1>2, <1>3 DEF Stands
  <2>5. Len(p) > 1 => Front(p) # p
    <3>1. IsSeq(p)
      BY <1>2, DataAssumption
    <3>2. PICK r : r = p
      OBVIOUS
    <3>3. Len(r) > 1 => Len(Front(r)) = Len(r) - 1 /\ Len(r) \in Nat
      BY <3>1, <3>2, FrontOf
    <3>. QED
      BY <3>2, <3>3
  <2>6. ASSUME NEW q \in DOMAIN allocationStats, Len(q) > 1
        PROVE  Front(q) \in DOMAIN allocationStats' /\ allocationStats'[q] \subseteq allocationStats'[Front(q)]
    <3>1. Front(q) \in DOMAIN allocationStats /\ allocationStats[q] \subseteq allocationStats[Front(q)]
      BY <1>5, <2>6 DEF Covered
    <3>2. allocationStats[Front(q)] \subseteq allocationStats'[Front(q)]
      BY <2>3, <3>1
    <3>3. CASE q = p
      <4>1. allocationStats'[Front(p)] = allocationStats[Front(p)]
        BY <2>3, <2>4, <2>5, <2>6, <3>3
      <4>. QED
        BY <2>3, <2>4, <2>6, <3>1, <3>3, <4>1
    <3>4. CASE q # p
      BY <2>3, <3>1, <3>2, <3>4
    <3>. QED
      BY <3>3, <3>4
  <2>7. Covered'
    BY <2>3, <2>6 DEF Covered
  <2>. QED
    BY <1>1, <1>4, <1>5, <2>1, <2>3, <2>7
<1>. QED
  BY <1>6, <1>7

LEMMA LiveByThread ==
  ASSUME BaseInv, HooksInv, LiveInv, NEW t \in Threads, ThreadStep(t), met' = (met \/ Meeting')
  PROVE  LiveInv'
<1>1. ListsInv /\ ThreadsInv /\ ProbesInv
  BY DEF BaseInv
<1>2. \A c \in Connections : todo'[c] = todo[c]
  BY <1>1, ThreadKeeps
<1>3. \A r \in Threads : r # t => todo'[r] = todo[r]
  <2>1. PICK steps : Then(t, steps)
    BY <1>1, ThreadMoves
  <2>. QED
    BY <1>1, <2>1, ThenIs DEF ListsInv, Actors
<1>4. removed' = removed
  BY DEF ThreadStep, javaVars, New, Entry, Sample
<1>5. \A c \in Connections : PartSwept(c)' <=> PartSwept(c)
  BY <1>2 DEF PartSwept
<1>6. CASE Allocate(t) \/ Merge(t) \/ New(t)
  <2>1. allocationStats' = allocationStats
    <3>1. New(t) => UNCHANGED javaVars
      BY DEF New
    <3>2. Allocate(t) \/ Merge(t) => UNCHANGED javaVars \/ New(t) \/ Entry(t) \/ Sample(t)
      BY DEF ThreadStep
    <3>3. Entry(t) \/ Sample(t) => HookStep(todo[t][1])
      BY <1>1, HookHead
    <3>4. Allocate(t) \/ Merge(t) => ~HookStep(todo[t][1])
      <4>1. ASSUME NEW kind \in {"alloc", "merge"}, Takes(t, kind) PROVE ~HookStep(todo[t][1])
        <5>1. todo[t][1][1] = kind
          BY <1>1, <4>1, TakesByThread
        <5>. QED
          BY <5>1 DEF HookStep
      <4>. QED
        BY <4>1 DEF Allocate, Merge
    <3>5. UNCHANGED javaVars
      BY <1>6, <3>1, <3>2, <3>3, <3>4
    <3>. QED
      BY <3>5 DEF javaVars
  <2>2. Fresh(todo'[t])
    BY <1>1, <1>6, HooksMove
  <2>3. ASSUME ~met', NEW r \in Threads, todo'[r] # <<>> PROVE Stands(todo[r][1])'
    <3>1. CASE r = t
      <4>1. PICK now : now = todo'[t][1]
        OBVIOUS
      <4>2. HookStep(now) => now[1] = "entry" /\ Len(now[3]) = 1
        BY <2>2, <2>3, <3>1, <4>1 DEF Fresh
      <4>3. HookStep(now) => now[1] # "sample" /\ ~(Len(now[3]) > 1)
        <5>1. PICK n : n = Len(now[3])
          OBVIOUS
        <5>2. n = 1 => ~(n > 1)
          OBVIOUS
        <5>3. "entry" # "sample"
          OBVIOUS
        <5>. QED
          BY <4>2, <5>1, <5>2, <5>3, Zenon
      <4>. QED
        BY <3>1, <4>1, <4>3 DEF Stands
    <3>2. CASE r # t
      <4>1. todo'[r] = todo[r]
        BY <1>3, <3>2
      <4>2. Stands(todo[r][1])
        BY <2>3, <4>1 DEF LiveInv
      <4>. QED
        BY <1>4, <2>1, <4>1, <4>2 DEF Stands, HookStep
    <3>. QED
      BY <3>1, <3>2
  <2>4. Covered' <=> Covered
    BY <2>1 DEF Covered
  <2>5. ~met' => ~met /\ ~Meeting'
    OBVIOUS
  <2>6. DOMAIN allocationStats' \subseteq Sites
    BY <2>1 DEF LiveInv
  <2>7. ASSUME ~met', NEW c \in Connections, PartSwept(c)'
        PROVE  DOMAIN allocationStats' \subseteq todo'[c][1][2]
    BY <1>2, <1>5, <2>1, <2>5, <2>7 DEF LiveInv
  <2>8. ASSUME ~met' PROVE Covered' \/ \E c \in Connections : PartSwept(c)'
    BY <1>5, <2>4, <2>5, <2>8 DEF LiveInv
  <2>. QED
    BY <2>3, <2>5, <2>6, <2>7, <2>8 DEF LiveInv
<1>7. CASE Entry(t) \/ Sample(t)
  <2>1. PICK p, o : p = Arg(t, 2) /\ o = Arg(t, 1)
    OBVIOUS
  <2>2. p = todo[t][1][3] /\ p \in Sites
    BY <1>1, <1>7, <2>1, HookHead
  <2>3. DOMAIN allocationStats' \subseteq DOMAIN allocationStats \cup {p}
    <3>1. CASE Entry(t)
      BY <2>1, <3>1 DEF Entry
    <3>2. CASE Sample(t)
      BY <3>2 DEF Sample
    <3>. QED
      BY <1>7, <3>1, <3>2
  <2>4. DOMAIN allocationStats' \subseteq Sites
    BY <2>2, <2>3 DEF LiveInv
  <2>. SUFFICES ASSUME ~met'
                PROVE  /\ ~Meeting'
                       /\ \A r \in Threads : todo'[r] # <<>> => Stands(todo[r][1])'
                       /\ \A c \in Connections : PartSwept(c)' => DOMAIN allocationStats' \subseteq todo'[c][1][2]
                       /\ Covered' \/ \E c \in Connections : PartSwept(c)'
    BY <2>4 DEF LiveInv
  <2>5. ~met /\ ~Meeting'
    OBVIOUS
  <2>6. /\ Covered' /\ \A c \in Connections : ~PartSwept(c)
        /\ DOMAIN allocationStats \subseteq DOMAIN allocationStats'
        /\ \A q \in DOMAIN allocationStats : allocationStats[q] \subseteq allocationStats'[q]
        /\ p \in DOMAIN allocationStats'
        /\ Sample(t) => o \in allocationStats'[p]
    BY <1>1, <1>7, <2>1, <2>5, HookCovers
  <2>7. ASSUME NEW r \in Threads, todo'[r] # <<>> PROVE Stands(todo[r][1])'
    <3>1. CASE r # t
      <4>1. todo'[r] = todo[r]
        BY <1>3, <3>1
      <4>2. Stands(todo[r][1])
        BY <2>5, <2>7, <4>1 DEF LiveInv
      <4>. QED
        BY <1>4, <2>6, <4>1, <4>2 DEF Stands, HookStep
    <3>2. CASE r = t /\ Entry(t)
      <4>1. PICK st, now : st = todo[t][1] /\ now = todo'[t][1]
        OBVIOUS
      <4>2. now = <<"sample", o, p, removed[p]>>
        BY <1>1, <2>1, <3>2, <4>1, HooksMove
      <4>3. now[1] = "sample" /\ now[2] = o /\ now[3] = p /\ now[4] = removed[p]
        BY <4>2
      <4>4. HookStep(st) /\ st[2] = o /\ st[3] = p /\ todo[t] # <<>>
        BY <1>1, <2>1, <3>2, <4>1, HookHead
      <4>5. Len(p) > 1 => Front(p) \in DOMAIN allocationStats /\ o \in allocationStats[Front(p)]
        BY <2>5, <4>1, <4>4 DEF LiveInv, Stands
      <4>6. Len(p) > 1 => Front(p) \in DOMAIN allocationStats' /\ o \in allocationStats'[Front(p)]
        BY <2>6, <4>5
      <4>. QED
        BY <1>4, <2>6, <3>2, <4>1, <4>3, <4>6 DEF Stands
    <3>3. CASE r = t /\ Sample(t)
      <4>1. PICK now : now = todo'[t][1]
        OBVIOUS
      <4>2. HookStep(now) => now[1] = "entry" /\ now[2] = o /\ Len(now[3]) > 1 /\ Front(now[3]) = p
        BY <1>1, <2>1, <2>7, <3>3, <4>1, HooksMove
      <4>3. o \in allocationStats'[p] /\ p \in DOMAIN allocationStats'
        BY <2>6, <3>3
      <4>. QED
        BY <3>3, <4>1, <4>2, <4>3 DEF Stands
    <3>. QED
      BY <1>7, <3>1, <3>2, <3>3
  <2>. QED
    BY <1>5, <2>5, <2>6, <2>7
<1>. QED
  BY <1>6, <1>7 DEF ThreadStep

(* A connection stands before a sweep of the whole table, unless it sweeps. *)
LEMMA SweptWhole ==
  ASSUME BaseInv, NEW c \in Connections, AnyStep(c), todo[c][1][1] # "sweep"
  PROVE  ~PartSwept(c)'
<1>1. PICK steps : todo[c] # <<>> /\ Fits(todo[c], steps) /\ Then(c, steps)
  BY ConnectionKeeps DEF BaseInv, Moves
<1>2. PICK s, u : s = todo[c] /\ u = todo'[c]
  OBVIOUS
<1>3. IsSeq(s) /\ s # <<>> /\ IsSeq(steps) /\ Running(s)
  BY <1>1, <1>2 DEF BaseInv, ListsInv, Actors, Fits, Disciplined
<1>4. u = steps \o Tail(s)
  BY <1>1, <1>2, ThenIs DEF BaseInv, ListsInv, Actors
<1>5. Len(steps) > 0 => u[1] = steps[1]
  BY <1>3, <1>4, HeadAfter
<1>6. Len(steps) = 0 /\ u # <<>> => 2 \in 1..Len(s) /\ u[1] = s[2]
  BY <1>3, <1>4, HeadAfter
<1>7. PICK m \in Nat : m = Len(steps)
  BY <1>3, IsSeqOf DEF IsSeq
<1>8. CASE m > 0
  <2>1. 1 \in 1..Len(steps)
    BY <1>7, <1>8
  <2>2. StepOK(steps[1])
    BY <1>1, <2>1 DEF Fits
  <2>. QED
    BY <1>2, <1>5, <1>7, <1>8, <2>2 DEF PartSwept, StepOK
<1>9. CASE m = 0 /\ u # <<>>
  <2>1. StepOK(s[2])
    <3>1. 2 \in 1..Len(s) /\ 2 # 1
      BY <1>6, <1>7, <1>9
    <3>. QED
      BY <1>3, <3>1 DEF Running
  <2>. QED
    BY <1>2, <1>6, <1>7, <1>9, <2>1 DEF PartSwept, StepOK
<1>10. CASE u = <<>>
  BY <1>2, <1>10 DEF PartSwept
<1>. QED
  BY <1>8, <1>9, <1>10

(* Only a sweep takes anything out of the table. *)
LEMMA StepTables ==
  ASSUME NEW c \in Connections, AnyStep(c), ~Sweep(c)
  PROVE  UNCHANGED <<allocationStats, removed>>
<1>1. CASE DataStep(c)
  BY <1>1 DEF DataStep, Flag, Ask, Look, AppendRow, Fallback, javaVars
<1>2. CASE UNCHANGED javaVars
  BY <1>2 DEF javaVars
<1>. QED
  BY <1>1, <1>2 DEF AnyStep

LEMMA LiveByConnection ==
  ASSUME BaseInv, LiveInv, NEW c \in Connections, AnyStep(c), met' = (met \/ Meeting')
  PROVE  LiveInv'
<1>1. ListsInv /\ ThreadsInv /\ ProbesInv
  BY DEF BaseInv
<1>2. PICK steps : todo[c] # <<>> /\ Fits(todo[c], steps) /\ Then(c, steps)
  BY <1>1, ConnectionKeeps DEF Moves
<1>3. \A t \in Threads : todo'[t] = todo[t]
  BY <1>1, ConnectionKeeps
<1>4. \A d \in Connections : d # c => todo'[d] = todo[d]
  BY <1>1, <1>2, ThenIs DEF ListsInv, Actors
<1>5. \A d \in Connections : d # c => (PartSwept(d)' <=> PartSwept(d))
  BY <1>4 DEF PartSwept
<1>6. CASE ~Sweep(c)
  <2>1. ASSUME NEW kind, kind # "sweep", Takes(c, kind) PROVE todo[c][1][1] # "sweep"
    BY <1>1, <2>1, TakesOf
  <2>2. todo[c][1][1] # "sweep"
    <3>1. PICK kind \in {"lock", "unlock", "record", "clear", "freeze", "copy", "thaw", "forget",
                         "average", "divide", "flag", "ask", "look", "rows", "enter", "exit",
                         "add", "zero"} : Takes(c, kind)
      BY <1>6 DEF AnyStep, QuietStep, DataStep, Lock, Unlock, Record, Clear, Freeze, Copy, Thaw,
                  Forget, Average, Divide, Flag, Ask, Look, AppendRow, Fallback, Enter, Exit, Add, Zero
    <3>. QED
      BY <2>1, <3>1
  <2>3. ~PartSwept(c)' /\ ~PartSwept(c)
    BY <2>2, SweptWhole DEF PartSwept
  <2>4. UNCHANGED <<allocationStats, removed>>
    BY <1>6, StepTables
  <2>5. \A d \in Connections : PartSwept(d)' <=> PartSwept(d)
    BY <1>5, <2>3
  <2>6. \A d \in Connections : PartSwept(d)' => todo'[d] = todo[d]
    BY <1>4, <2>3
  <2>7. Covered' <=> Covered
    BY <2>4 DEF Covered
  <2>8. DOMAIN allocationStats' \subseteq Sites
    BY <2>4 DEF LiveInv
  <2>9. ASSUME ~met', NEW t \in Threads, todo'[t] # <<>> PROVE Stands(todo[t][1])'
    <3>1. Stands(todo[t][1]) /\ todo'[t] = todo[t]
      BY <1>3, <2>9 DEF LiveInv
    <3>. QED
      BY <2>4, <3>1 DEF Stands, HookStep
  <2>10. ASSUME ~met', NEW d \in Connections, PartSwept(d)'
         PROVE  DOMAIN allocationStats' \subseteq todo'[d][1][2]
    BY <2>4, <2>5, <2>6, <2>10 DEF LiveInv
  <2>11. ASSUME ~met' PROVE Covered' \/ \E d \in Connections : PartSwept(d)'
    BY <2>5, <2>7, <2>11 DEF LiveInv
  <2>. QED
    BY <2>8, <2>9, <2>10, <2>11 DEF LiveInv
<1>7. CASE Sweep(c)
  <2>1. PICK all, bins, rest :
          /\ all = Arg(c, 1) /\ rest = all \ bins
          /\ Then(c, IF rest = {} THEN <<>> ELSE <<<<"sweep", rest>>>>)
          /\ bins # {} /\ bins \subseteq all
          /\ allocationStats' = [p \in DOMAIN allocationStats \ bins |-> allocationStats[p]]
    BY <1>7 DEF Sweep
  <2>2. Takes(c, "sweep") /\ todo[c][1][1] = "sweep" /\ all = todo[c][1][2]
        /\ (StepOK(todo[c][1]) \/ Begun(todo[c][1]))
    <3>1. Takes(c, "sweep")
      BY <1>7 DEF Sweep
    <3>2. Arg(c, 1) = todo[c][1][1 + 1]
      BY <1>1, <3>1, TakesOf
    <3>. QED
      BY <1>1, <2>1, <3>1, <3>2, TakesOf
  <2>3. all \subseteq Sites /\ (all # Sites => PartSwept(c)) /\ rest # Sites
    <3>1. all \subseteq Sites
      BY <2>2 DEF StepOK, Begun
    <3>. QED
      BY <1>2, <2>1, <2>2, <3>1 DEF PartSwept
  <2>4. DOMAIN allocationStats' = DOMAIN allocationStats \ bins
    BY <2>1
  <2>5. DOMAIN allocationStats' \subseteq Sites
    BY <2>4 DEF LiveInv
  <2>. SUFFICES ASSUME ~met'
                PROVE  /\ ~Meeting'
                       /\ \A t \in Threads : todo'[t] # <<>> => Stands(todo[t][1])'
                       /\ \A d \in Connections : PartSwept(d)' => DOMAIN allocationStats' \subseteq todo'[d][1][2]
                       /\ Covered' \/ \E d \in Connections : PartSwept(d)'
    BY <2>5 DEF LiveInv
  <2>6. ~met /\ ~Meeting /\ ~Meeting'
    BY DEF LiveInv
  <2>7. ASSUME NEW t \in Threads, todo'[t] # <<>> PROVE Stands(todo[t][1])'
    <3>1. todo'[t] = todo[t]
      BY <1>3
    <3>2. ~HookStep(todo[t][1])
      BY <1>1, <2>2, <2>6, <2>7, <3>1, NotMeeting
    <3>. QED
      BY <3>1, <3>2 DEF Stands, HookStep
  <2>8. DOMAIN allocationStats \subseteq all
    <3>1. CASE all = Sites
      BY <3>1 DEF LiveInv
    <3>2. CASE all # Sites
      BY <2>2, <2>3, <2>6, <3>2 DEF LiveInv
    <3>. QED
      BY <3>1, <3>2
  <2>9. DOMAIN allocationStats' \subseteq rest
    BY <2>1, <2>4, <2>8
  <2>10. \A d \in Connections : d # c => ~PartSwept(d)'
    <3>1. "sweep" \in Guarded
      BY DEF Guarded
    <3>2. c = holder
      BY <1>1, <1>2, <2>2, <3>1, HolderOnly
    <3>3. ASSUME NEW d \in Connections, PartSwept(d) PROVE d = holder
      <4>1. todo[d] # <<>> /\ todo[d][1][1] \in Guarded
        BY <3>1, <3>3 DEF PartSwept
      <4>. QED
        BY <1>1, <4>1, HolderOnly
    <3>. QED
      BY <1>5, <3>2, <3>3
  <2>11. CASE rest = {}
    <3>1. Covered'
      BY <2>9, <2>11 DEF Covered
    <3>2. DOMAIN allocationStats' = {}
      BY <2>9, <2>11
    <3>. QED
      BY <2>6, <2>7, <3>1, <3>2
  <2>12. CASE rest # {}
    <3>1. PICK st, one : st = <<"sweep", rest>> /\ one = <<st>>
      OBVIOUS
    <3>2. Then(c, one)
      BY <2>1, <2>12, <3>1
    <3>3. PICK s, u : s = todo[c] /\ u = todo'[c]
      OBVIOUS
    <3>4. u = one \o Tail(s) /\ IsSeq(s) /\ s # <<>>
      BY <1>1, <1>2, <3>2, <3>3, ThenIs DEF ListsInv, Actors
    <3>5. one \in Seq({st}) /\ Len(one) = 1 /\ one[1] = st
      BY <3>1
    <3>6. IsSeq(one)
      BY <3>5, IsSeqOf
    <3>7. u # <<>> /\ u[1] = one[1]
      <4>1. Len(one) > 0 /\ IsSeq(one) /\ u = one \o Tail(s)
        BY <3>4, <3>5, <3>6
      <4>2. IsSeq(s) /\ s # <<>>
        BY <3>4
      <4>. QED
        BY <4>1, <4>2, HeadAfter
    <3>8. u[1][1] = "sweep" /\ u[1][2] = rest
      BY <3>1, <3>5, <3>7
    <3>9. PartSwept(c)' /\ todo'[c][1][2] = rest
      BY <2>3, <3>3, <3>7, <3>8 DEF PartSwept
    <3>. QED
      BY <2>6, <2>7, <2>9, <2>10, <3>9
  <2>. QED
    BY <2>11, <2>12
<1>. QED
  BY <1>6, <1>7

LEMMA SameLive ==
  ASSUME HooksInv, LiveInv, UNCHANGED <<todo, allocationStats, removed>>, Meeting' <=> Meeting,
         met' = met \/ met' = (met \/ Meeting')
  PROVE  HooksInv' /\ LiveInv'
<1>1. HooksInv'
  BY DEF HooksInv
<1>2. Covered' <=> Covered
  BY DEF Covered
<1>3. \A c \in Connections : PartSwept(c)' <=> PartSwept(c)
  BY DEF PartSwept
<1>4. \A t \in Threads : Stands(todo[t][1])' <=> Stands(todo[t][1])
  BY DEF Stands, HookStep
<1>5. ~met' => ~met
  OBVIOUS
<1>6. LiveInv'
  BY <1>2, <1>3, <1>4, <1>5 DEF LiveInv
<1>. QED
  BY <1>1, <1>6

LEMMA LiveKeeps ==
  ASSUME BaseInv, HooksInv, LiveInv, [DataNext]_<<vars, javaVars, met>>
  PROVE  HooksInv' /\ LiveInv'
<1>1. CASE DataNext
  <2>1. met' = (met \/ Meeting')
    BY <1>1 DEF DataNext
  <2>2. ASSUME NEW t \in Threads, ThreadStep(t) PROVE HooksInv' /\ LiveInv'
    BY <2>1, <2>2, HooksMove, LiveByThread DEF BaseInv
  <2>3. ASSUME NEW c \in Connections, AnyStep(c) PROVE HooksInv' /\ LiveInv'
    <3>1. \A t \in Threads : todo'[t] = todo[t]
      BY <2>3, ConnectionKeeps DEF BaseInv
    <3>. QED
      BY <2>1, <2>3, <3>1, LiveByConnection DEF HooksInv
  <2>4. ASSUME NEW o \in Objects, Collect(o) PROVE HooksInv' /\ LiveInv'
    <3>1. UNCHANGED <<todo, allocationStats, removed>>
      BY <2>4 DEF Collect
    <3>2. Meeting' <=> Meeting
      BY <3>1 DEF Meeting, Hooking, Takes
    <3>. QED
      BY <2>1, <3>1, <3>2, SameLive
  <2>. QED
    BY <1>1, <2>2, <2>3, <2>4, StepCases
<1>2. CASE UNCHANGED <<vars, javaVars, met>>
  <2>1. UNCHANGED <<todo, allocationStats, removed, met>>
    BY <1>2 DEF vars, javaVars
  <2>2. Meeting' <=> Meeting
    BY <2>1 DEF Meeting, Hooking, Takes
  <2>. QED
    BY <2>1, <2>2, SameLive
<1>. QED
  BY <1>1, <1>2

(* A site holds what is live at the sites below it, whenever no start is   *)
(* emptying the table, unless a start met a hook: of any number of threads *)
(* recording objects, connections starting and stopping, and whatever the  *)
(* garbage collector takes in between.                                     *)
THEOREM LiveCoversHolds == DataSpec => []LiveCovers
<1>1. DataInit => BaseInv /\ HooksInv /\ LiveInv
  BY InitLists, InitLive DEF BaseInv
<1>2. BaseInv /\ HooksInv /\ LiveInv /\ [DataNext]_<<vars, javaVars, met>>
        => BaseInv' /\ HooksInv' /\ LiveInv'
  BY BaseKeeps, LiveKeeps
<1>3. BaseInv /\ LiveInv => LiveCovers
  <2>. SUFFICES ASSUME BaseInv, LiveInv, ~met, ~Sweeping, NEW p \in DOMAIN allocationStats, Len(p) > 1
                PROVE  /\ Front(p) \in DOMAIN allocationStats
                       /\ LiveSamples(p) \subseteq LiveSamples(Front(p))
    BY DEF LiveCovers
  <2>1. \A c \in Connections : ~PartSwept(c)
    BY SweptTakes DEF BaseInv
  <2>2. Covered
    BY <2>1 DEF LiveInv
  <2>. QED
    BY <2>2 DEF Covered, LiveSamples
<1>. QED
  BY <1>1, <1>2, <1>3, PTL DEF DataSpec

----------------------------------------------------------------------------
(* Replies.                                                                *)

Queries == {"ask", "look", "rows"}

\* Behind the first k steps every look is whole; every ask has a look behind it.
Asking(s, k) ==
  \A i \in 1..Len(s) :
    /\ i > k => s[i][1] # "rows" /\ (s[i][1] = "look" => s[i] = <<"look", Sites, {}>>)
    /\ s[i][1] = "ask" => i + 1 \in 1..Len(s) /\ s[i + 1][1] = "look"

LEMMA AskingBehind ==
  ASSUME NEW x, IsSeq(x), Asking(x, 0), NEW y, IsSeq(y), Asking(y, 0)
  PROVE  IsSeq(x \o y) /\ Asking(x \o y, 0)
<1>. PICK z : z = x \o y
  OBVIOUS
<1>1. IsSeq(z)
  BY Behind
<1>2. Len(x) \in Nat /\ Len(y) \in Nat /\ Len(z) = Len(x) + Len(y)
  BY Behind
<1>3. \A i \in 1..Len(x) : z[i] = x[i]
  BY Behind
<1>4. \A i \in 1..Len(y) : z[Len(x) + i] = y[i]
  BY Behind
<1>5. Asking(z, 0)
  <2>. SUFFICES ASSUME NEW i \in 1..Len(z)
                PROVE  /\ i > 0 => z[i][1] # "rows" /\ (z[i][1] = "look" => z[i] = <<"look", Sites, {}>>)
                       /\ z[i][1] = "ask" => i + 1 \in 1..Len(z) /\ z[i + 1][1] = "look"
    BY DEF Asking
  <2>1. CASE i \in 1..Len(x) /\ z[i] = x[i]
    <3>1. i > 0 /\ i + 1 \in 1..Len(x) => i + 1 \in 1..Len(z) /\ z[i + 1] = x[i + 1]
      BY <1>2, <1>3
    <3>2. i > 0
      OBVIOUS
    <3>3. /\ x[i][1] # "rows" /\ (x[i][1] = "look" => x[i] = <<"look", Sites, {}>>)
          /\ x[i][1] = "ask" => i + 1 \in 1..Len(x) /\ x[i + 1][1] = "look"
      BY <2>1, <3>2 DEF Asking
    <3>. QED
      BY <2>1, <3>1, <3>2, <3>3
  <2>2. CASE \E k \in 1..Len(y) : i = Len(x) + k /\ z[i] = y[k]
    <3>1. PICK k \in 1..Len(y) : i = Len(x) + k /\ z[i] = y[k]
      BY <2>2
    <3>2. Len(x) + (k + 1) = i + 1 /\ k > 0
      BY <1>2, <3>1
    <3>3. k + 1 \in 1..Len(y) => i + 1 \in 1..Len(z) /\ z[i + 1] = y[k + 1]
      <4>1. k + 1 \in 1..Len(y) => i + 1 \in 1..Len(z)
        BY <1>2, <3>2
      <4>2. k + 1 \in 1..Len(y) => z[Len(x) + (k + 1)] = y[k + 1]
        BY <1>4
      <4>. QED
        BY <3>2, <4>1, <4>2
    <3>4. /\ y[k][1] # "rows" /\ (y[k][1] = "look" => y[k] = <<"look", Sites, {}>>)
          /\ y[k][1] = "ask" => k + 1 \in 1..Len(y) /\ y[k + 1][1] = "look"
      BY <3>2 DEF Asking
    <3>. QED
      BY <3>1, <3>3, <3>4
  <2>3. \/ i \in 1..Len(x) /\ z[i] = x[i]
        \/ \E k \in 1..Len(y) : i = Len(x) + k /\ z[i] = y[k]
    BY PlaceBehind
  <2>. QED
    BY <2>1, <2>2, <2>3
<1>. QED
  BY <1>1, <1>5

LEMMA PlainAsking ==
  ASSUME NEW S, \A st \in S : st[1] \notin Queries, NEW s \in Seq(S)
  PROVE  IsSeq(s) /\ Asking(s, 0)
<1>1. IsSeq(s) /\ \A i \in 1..Len(s) : s[i] \in S
  BY IsSeqOf, ElementOfSeq
<1>2. \A i \in 1..Len(s) : s[i][1] \notin {"ask", "look", "rows"}
  BY <1>1 DEF Queries
<1>. QED
  BY <1>1, <1>2 DEF Asking

LEMMA CommandsAsking ==
  ASSUME NEW call \in Commands
  PROVE  IsSeq(call) /\ Asking(call, 0)
<1>1. ASSUME NEW x, Inner(x) PROVE IsSeq(x) /\ Asking(x, 0)
  <2>1. \A i \in 1..Len(x) : x[i][1] \notin {"ask", "look", "rows"}
    BY <1>1 DEF Inner
  <2>. QED
    BY <1>1, <2>1 DEF Inner, Asking
<1>2. ASSUME NEW native \in BOOLEAN
      PROVE  IsSeq(StartSteps(native)) /\ Asking(StartSteps(native), 0)
  BY <1>1, StartStepsParts DEF Calm
<1> DEFINE S == {<<"lock", TRUE>>, <<"flag", TRUE>>, <<"sweep", Sites>>, <<"unlock">>,
                 <<"lock", FALSE>>, <<"record", FALSE>>, <<"flag", FALSE>>}
<1>3. ASSUME NEW s \in Seq(S) PROVE IsSeq(s) /\ Asking(s, 0)
  <2>1. \A st \in S : st[1] \in {"lock", "flag", "sweep", "unlock", "record"}
    <3>1. PICK a, b, c, d, e, f, g :
            /\ a = <<"lock", TRUE>> /\ b = <<"flag", TRUE>> /\ c = <<"sweep", Sites>> /\ d = <<"unlock">>
            /\ e = <<"lock", FALSE>> /\ f = <<"record", FALSE>> /\ g = <<"flag", FALSE>>
      OBVIOUS
    <3>2. /\ a[1] = "lock" /\ b[1] = "flag" /\ c[1] = "sweep" /\ d[1] = "unlock"
          /\ e[1] = "lock" /\ f[1] = "record" /\ g[1] = "flag"
      BY <3>1
    <3>3. S = {a, b, c, d, e, f, g}
      BY <3>1, Zenon
    <3>. HIDE DEF S
    <3>. QED
      BY <3>2, <3>3
  <2>2. \A st \in S : st[1] \notin Queries
    BY <2>1 DEF Queries
  <2>. HIDE DEF S
  <2>. QED
    BY <1>3, <2>2, PlainAsking
<1>4. ASSUME NEW native \in BOOLEAN, call = StartCommand(native) PROVE IsSeq(call) /\ Asking(call, 0)
  <2>. PICK x, l, u : x = StartSteps(native) /\ l = <<<<"lock", TRUE>>>> /\ u = <<<<"unlock">>>>
    OBVIOUS
  <2>1. call = (l \o x) \o u
    BY <1>4 DEF StartCommand
  <2>2. l \in Seq(S) /\ u \in Seq(S)
    OBVIOUS
  <2>3. IsSeq(l \o x) /\ Asking(l \o x, 0)
    BY <1>2, <1>3, <2>2, AskingBehind
  <2>. QED
    BY <1>3, <2>1, <2>2, <2>3, AskingBehind
<1>5. ASSUME NEW mode \in ProbeModes, call = StartData(mode) PROVE IsSeq(call) /\ Asking(call, 0)
  <2>. PICK x, y, l, w, u : /\ x = StartSteps(mode = "native") /\ y = CalibrateJava(mode)
                            /\ l = <<<<"lock", TRUE>>, <<"flag", TRUE>>>>
                            /\ w = ResetJava(1) /\ u = <<<<"unlock">>>>
    OBVIOUS
  <2>1. call = (((l \o w) \o x) \o y) \o u
    BY <1>5 DEF StartData
  <2>2. l \in Seq(S) /\ w \in Seq(S) /\ y \in Seq(S) /\ u \in Seq(S)
    <3>1. <<"sweep", Sites>> \in S /\ l \in Seq(S) /\ u \in Seq(S)
      OBVIOUS
    <3>. HIDE DEF S
    <3>. QED
      BY <3>1, JavaResets
  <2>3. IsSeq(l \o w) /\ Asking(l \o w, 0)
    BY <1>3, <2>2, AskingBehind
  <2>4. IsSeq((l \o w) \o x) /\ Asking((l \o w) \o x, 0)
    <3>1. (mode = "native") \in BOOLEAN
      OBVIOUS
    <3>2. IsSeq(x) /\ Asking(x, 0)
      BY <1>2, <3>1
    <3>. QED
      BY <2>3, <3>2, AskingBehind
  <2>5. IsSeq(((l \o w) \o x) \o y) /\ Asking(((l \o w) \o x) \o y, 0)
    BY <1>3, <2>2, <2>4, AskingBehind
  <2>. QED
    BY <1>3, <2>1, <2>2, <2>5, AskingBehind
<1>6. CASE call = StopCommand \/ call = StopData
  <2>1. StopCommand \in Seq(S) /\ StopData \in Seq(S)
    BY DEF StopCommand, StopData
  <2>. QED
    BY <1>3, <1>6, <2>1
<1>7. CASE call = MemoryCommand
  <2>. PICK a, b : a = <<"ask">> /\ b = <<"look", Sites, {}>>
    OBVIOUS
  <2>1. MemoryCommand \in Seq({a, b}) /\ Len(MemoryCommand) = 2 /\ MemoryCommand[1] = a /\ MemoryCommand[2] = b
    BY DEF MemoryCommand
  <2>2. a[1] = "ask" /\ b[1] = "look"
    OBVIOUS
  <2>3. IsSeq(call)
    BY <1>7, <2>1, IsSeqOf
  <2>4. \A i \in 1..2 : i = 1 \/ i = 2
    OBVIOUS
  <2>. QED
    BY <1>7, <2>1, <2>2, <2>3, <2>4 DEF Asking
<1>8. CASE call = Snapshot
  BY <1>1, <1>8, SnapshotParts DEF Calm
<1>. QED
  <2>1. \/ \E native \in BOOLEAN : call = StartCommand(native)
        \/ \E mode \in ProbeModes : call = StartData(mode)
        \/ call \in {StopCommand, StopData} \/ call = Snapshot \/ call = MemoryCommand
    BY Zenon DEF Commands
  <2>. QED
    BY <1>4, <1>5, <1>6, <1>7, <1>8, <2>1, Zenon

LEMMA PlansAsking ==
  ASSUME NEW calls, IsSeq(calls), ToSet(calls) \subseteq Commands
  PROVE  Asking(FlattenSeq(calls), 0)
<1>. PICK n \in Nat : n = Len(calls)
  BY IsSeqOf DEF IsSeq
<1>1. DOMAIN calls = 1..n /\ calls = [i \in 1..n |-> calls[i]]
  <2>1. DOMAIN calls = 1..Len(calls) /\ calls \in Seq(ToSet(calls))
    BY IsSeqOf DEF IsSeq
  <2>. QED
    BY <2>1
<1>2. \A i \in 1..n : IsSeq(calls[i]) /\ Asking(calls[i], 0)
  <2>1. \A i \in 1..n : calls[i] \in Commands
    BY <1>1 DEF ToSet
  <2>. QED
    BY <2>1, CommandsAsking
<1>3. CASE n = 0
  <2>1. calls = <<>> /\ FlattenSeq(calls) = <<>>
    BY <1>1, <1>3 DEF FlattenSeq
  <2>2. <<>> \in Seq({})
    OBVIOUS
  <2>. QED
    BY <2>1, <2>2, PlainAsking
<1>4. CASE n # 0
  <2>1. PICK S : \A i \in 1..n : calls[i] \in Seq(S)
    BY <1>2, OneAlphabet
  <2>2. PICK G : G = [i \in 1..n |-> {x \in Seq(S) : Asking(x, 0)}]
    OBVIOUS
  <2>3. calls[1] \in G[1]
    <3>1. 1 \in 1..n
      BY <1>4
    <3>. QED
      BY <1>2, <2>1, <2>2, <3>1
  <2>4. ASSUME NEW i \in 1..(n - 1), NEW x \in G[i] PROVE x \o calls[i + 1] \in G[i + 1]
    <3>1. i \in 1..n /\ i + 1 \in 1..n
      BY <1>4
    <3>2. PICK y : y = calls[i + 1]
      OBVIOUS
    <3>3. x \in Seq(S) /\ Asking(x, 0) /\ y \in Seq(S) /\ Asking(y, 0)
      BY <1>2, <2>1, <2>2, <3>1, <3>2
    <3>4. IsSeq(x) /\ IsSeq(y) /\ x \o y \in Seq(S)
      BY <3>3, IsSeqOf
    <3>5. Asking(x \o y, 0)
      BY <3>3, <3>4, AskingBehind
    <3>. QED
      BY <2>2, <3>1, <3>2, <3>4, <3>5
  <2>5. FlattenSeq(calls) \in G[n]
    <3>1. calls # <<>>
      BY <1>1, <1>4
    <3>2. PICK T : T = Seq(S)
      OBVIOUS
    <3>3. \A i \in 1..n : calls[i] \in T
      BY <2>1, <3>2
    <3>4. calls \in Seq(T)
      <4>1. calls \in [1..n -> T]
        BY <1>1, <3>3
      <4>. QED
        BY <4>1
    <3>. QED
      BY <2>3, <2>4, <3>1, <3>4, FlattenIn
  <2>6. n \in 1..n
    BY <1>4
  <2>. QED
    BY <2>2, <2>5, <2>6
<1>. QED
  BY <1>3, <1>4

\* No reply has begun: a look, if it is next, has all sites to go.
Whole(s) == s # <<>> => s[1][1] # "rows" /\ (s[1][1] = "look" => s[1] = <<"look", Sites, {}>>)

(* What a connection's step leaves of such a list, and what is next. *)
LEMMA AskingTaken ==
  ASSUME NEW s, IsSeq(s), s # <<>>, Asking(s, 1), NEW steps, Fits(s, steps), NEW u, u = steps \o Tail(s)
  PROVE  /\ Asking(u, 1)
         /\ Len(steps) = 0 => Whole(u)
         /\ s[1][1] = "ask" /\ Len(steps) = 0 => u # <<>> /\ u[1] = <<"look", Sites, {}>>
         /\ Len(steps) > 0 => u # <<>> /\ u[1] = steps[1]
<1>0. IsSeq(steps)
  BY DEF Fits
<1>1. PICK m \in Nat, n \in Nat \ {0} : m = Len(steps) /\ n = Len(s)
  BY <1>0, Taken
<1>2. Len(u) = m + n - 1 /\ IsSeq(u)
  BY <1>0, <1>1, Taken
<1>3. \A i \in 1..m : u[i] = steps[i]
  BY <1>0, <1>1, Taken
<1>4. \A k \in 2..n : u[k + (m - 1)] = s[k]
  BY <1>0, <1>1, Taken
<1>5. Asking(u, 1)
  <2>. SUFFICES ASSUME NEW i \in 1..(m + n - 1)
                PROVE  /\ i > 1 => u[i][1] # "rows" /\ (u[i][1] = "look" => u[i] = <<"look", Sites, {}>>)
                       /\ u[i][1] = "ask" => i + 1 \in 1..(m + n - 1) /\ u[i + 1][1] = "look"
    BY <1>2 DEF Asking
  <2>1. CASE i \in 1..m
    <3>1. u[i] = steps[i]
      BY <1>3, <2>1
    <3>2. u[i][1] # "ask" /\ (u[i][1] \in {"look", "rows"} => i = 1)
      BY <1>1, <2>1, <3>1 DEF Fits
    <3>3. i > 1 => i # 1
      OBVIOUS
    <3>. QED
      BY <3>2, <3>3
  <2>2. CASE i \notin 1..m
    <3>0. i - (m - 1) \in 2..n /\ i = (i - (m - 1)) + (m - 1)
      BY <2>2
    <3>1. PICK k \in 2..n : i = k + (m - 1) /\ k > 1 /\ k \in 1..n
      BY <3>0
    <3>2. u[i] = s[k]
      BY <1>4, <3>1
    <3>3. k + 1 \in 1..n => i + 1 \in 1..(m + n - 1) /\ u[i + 1] = s[k + 1]
      <4>1. k + 1 \in 1..n => i + 1 \in 1..(m + n - 1) /\ k + 1 \in 2..n /\ (k + 1) + (m - 1) = i + 1
        BY <3>1
      <4>. QED
        BY <1>4, <4>1
    <3>. QED
      BY <1>1, <3>1, <3>2, <3>3 DEF Asking
  <2>. QED
    BY <2>1, <2>2
<1>6. Len(steps) > 0 => u # <<>> /\ u[1] = steps[1]
  BY <1>0, HeadAfter
<1>7. Len(steps) = 0 /\ u # <<>> => 2 \in 1..Len(s) /\ u[1] = s[2]
  BY <1>0, HeadAfter
<1>8. Len(steps) = 0 => Whole(u)
  <2>1. 2 > 1
    OBVIOUS
  <2>. QED
    BY <1>7, <2>1 DEF Asking, Whole
<1>9. ASSUME s[1][1] = "ask", Len(steps) = 0 PROVE u # <<>> /\ u[1] = <<"look", Sites, {}>>
  <2>1. 1 \in 1..Len(s) /\ 1 + 1 = 2
    BY <1>1
  <2>2. 2 \in 1..Len(s) /\ s[2][1] = "look"
    BY <1>9, <2>1 DEF Asking
  <2>3. u # <<>>
    <3>1. Len(u) # 0
      BY <1>1, <1>2, <1>9, <2>2
    <3>2. u \in Seq(ToSet(u))
      BY <1>2 DEF IsSeq
    <3>. QED
      BY <3>1, <3>2, EmptySeq
  <2>4. u[1] = s[2]
    BY <1>7, <1>9, <2>3
  <2>. QED
    BY <1>8, <1>9, <2>2, <2>3, <2>4 DEF Whole
<1>. QED
  BY <1>5, <1>6, <1>8, <1>9

Begins(s, kind) == s # <<>> /\ s[1][1] = kind

\* The row of q may be appended as soon as the list's first step is taken.
Due(s, q) == (Begins(s, "rows") /\ q \in s[1][2]) \/ (Begins(s, "look") /\ Len(q) = 1)

\* q is among the keys, or still to be looked for.
Held(s, q) ==
  /\ Begins(s, "look") => q \in s[1][2] \cup s[1][3]
  /\ Begins(s, "rows") => q \in s[1][3]

\* When c's reply was asked for, o was recorded at q and at all sites above.
Tracked(c, o, q) == \E x \in asked[c].live : x[1] = o /\ q \in Prefixes(x[2]) \ {<<>>}

Shown(c, o, q) == q \in DOMAIN rows[c] /\ o \in rows[c][q]

(* An object that was recorded still is; while it lives, each of its sites *)
(* has its row, or is due, or waits for the row of the site above.         *)
Answers(c) ==
  /\ \A p \in DOMAIN rows[c] : rows[c][p] \cap asked[c].dead = {}
  /\ \A o \in Objects, q \in Sites : Tracked(c, o, q) =>
       /\ q \in DOMAIN allocationStats /\ o \in allocationStats[q]
       /\ Held(todo[c], q)
       /\ o \notin collected =>
            Shown(c, o, q) \/ Due(todo[c], q) \/ (Len(q) > 1 /\ ~Shown(c, o, Front(q)))

AskedType == asked \in [Connections -> [live : SUBSET (Objects \X Sites), dead : SUBSET collected]]

RepliesInv ==
  /\ rows = [c \in Connections |-> rows[c]] /\ AskedType
  /\ \A c \in Connections : Asking(todo[c], 1) /\ Answers(c)

LEMMA TrackedAt ==
  ASSUME AskedType, NEW c \in Connections, NEW o, NEW q, Tracked(c, o, q)
  PROVE  /\ o \in Objects /\ q \in Sites /\ Len(q) \in Nat \ {0}
         /\ Len(q) > 1 => Front(q) \in Sites /\ Tracked(c, o, Front(q)) /\ Len(Front(q)) = Len(q) - 1
<1>1. PICK x \in asked[c].live : x[1] = o /\ q \in Prefixes(x[2]) \ {<<>>}
  BY DEF Tracked
<1>2. x \in Objects \X Sites
  BY <1>1 DEF AskedType
<1>3. PICK p : p = x[2] /\ p \in Sites
  BY <1>2
<1>4. IsSeq(p) /\ Prefixes(p) \ {<<>>} \subseteq Sites
  BY <1>3, DataAssumption
<1>5. /\ IsSeq(q) /\ Len(q) \in 1..Len(p) /\ Len(p) \in Nat
      /\ Prefixes(q) \ {<<>>} \subseteq Prefixes(p) \ {<<>>}
  BY <1>1, <1>3, <1>4, Starts
<1>6. Len(q) > 1 => Front(q) \in Prefixes(q) \ {<<>>} /\ Len(Front(q)) = Len(q) - 1
  BY <1>5, FrontOf
<1>7. o \in Objects /\ q \in Sites
  BY <1>1, <1>2, <1>3, <1>4
<1>8. Len(q) > 1 => Front(q) \in Sites /\ Tracked(c, o, Front(q))
  BY <1>1, <1>3, <1>4, <1>5, <1>6 DEF Tracked
<1>. QED
  BY <1>5, <1>6, <1>7, <1>8

LEMMA AnswersKept ==
  ASSUME AskedType, NEW c \in Connections, Answers(c), rows'[c] = rows[c],
         asked'[c].dead = asked[c].dead, collected \subseteq collected',
         \/ asked'[c].live = {}
         \/ /\ asked'[c] = asked[c]
            /\ \A q \in DOMAIN allocationStats :
                 q \in DOMAIN allocationStats' /\ allocationStats[q] \subseteq allocationStats'[q]
            /\ \A q \in Sites : /\ Held(todo[c], q) => Held(todo'[c], q)
                                /\ Due(todo[c], q) => Due(todo'[c], q)
  PROVE  Answers(c)'
<1>1. \A p \in DOMAIN rows'[c] : rows'[c][p] \cap asked'[c].dead = {}
  BY DEF Answers
<1>2. ASSUME NEW o \in Objects, NEW q \in Sites, Tracked(c, o, q)'
      PROVE  /\ q \in DOMAIN allocationStats' /\ o \in allocationStats'[q]
             /\ Held(todo'[c], q)
             /\ o \notin collected' =>
                  Shown(c, o, q)' \/ Due(todo'[c], q) \/ (Len(q) > 1 /\ ~Shown(c, o, Front(q))')
  <2>1. asked'[c] = asked[c]
    BY <1>2 DEF Tracked
  <2>2. Tracked(c, o, q)
    BY <1>2, <2>1 DEF Tracked
  <2>3. /\ q \in DOMAIN allocationStats /\ o \in allocationStats[q] /\ Held(todo[c], q)
        /\ o \notin collected =>
             Shown(c, o, q) \/ Due(todo[c], q) \/ (Len(q) > 1 /\ ~Shown(c, o, Front(q)))
    BY <2>2 DEF Answers
  <2>4. \A r : Shown(c, o, r)' <=> Shown(c, o, r)
    BY DEF Shown
  <2>5. asked'[c].live # {}
    BY <1>2 DEF Tracked
  <2>. QED
    BY <2>3, <2>4, <2>5
<1>3. \A r, o : Held(todo[c], r)' = Held(todo'[c], r) /\ Due(todo[c], r)' = Due(todo'[c], r)
  BY DEF Held, Due, Begins
<1>. QED
  BY <1>1, <1>2, <1>3 DEF Answers

LEMMA InitReplies ==
  ASSUME DataInit
  PROVE  RepliesInv
<1>1. PICK plan \in Plans : todo = [a \in Actors |-> FlattenSeq(plan[a])]
  BY DEF DataInit, Init
<1>2. /\ \A a \in Actors : IsSeq(plan[a])
      /\ \A c \in Connections : ToSet(plan[c]) \subseteq Commands
  BY DataAssumption
<1>3. \A c \in Connections : Asking(todo[c], 0)
  BY <1>1, <1>2, PlansAsking DEF Actors
<1>4. \A s : Asking(s, 0) => Asking(s, 1)
  <2>1. \A s : \A i \in 1..Len(s) : i > 1 => i > 0
    OBVIOUS
  <2>. QED
    BY <2>1 DEF Asking
<1>5. /\ rows = [c \in Connections |-> <<>>] /\ asked = [c \in Connections |-> [live |-> {}, dead |-> {}]]
  BY DEF DataInit
<1>6. AskedType /\ \A c \in Connections : asked[c].live = {} /\ asked[c].dead = {} /\ rows[c] = <<>>
  BY <1>5 DEF AskedType
<1>7. \A c \in Connections : Answers(c)
  BY <1>6 DEF Answers, Tracked
<1>. QED
  BY <1>3, <1>4, <1>5, <1>6, <1>7 DEF RepliesInv

LEMMA WholeHeld ==
  ASSUME NEW s, Whole(s), NEW q \in Sites
  PROVE  Held(s, q) /\ (Due(s, q) <=> s # <<>> /\ s[1][1] = "look" /\ Len(q) = 1)
<1>1. s # <<>> => s[1][1] # "rows" /\ (s[1][1] = "look" => s[1][2] = Sites)
  BY DEF Whole
<1>. QED
  BY <1>1 DEF Held, Due, Begins

LEMMA StepNext ==
  ASSUME BaseInv, NEW c \in Connections, AnyStep(c), Asking(todo[c], 1)
  PROVE  /\ Asking(todo'[c], 1) /\ todo[c] # <<>> /\ IsSeq(todo[c])
         /\ todo[c][1][1] \notin {"look", "rows"} => Whole(todo'[c])
         /\ \A d \in Connections : d # c => todo'[d] = todo[d]
         /\ \A steps : Then(c, steps) => todo'[c] = steps \o Tail(todo[c])
<1>1. PICK steps : todo[c] # <<>> /\ Fits(todo[c], steps) /\ Then(c, steps)
  BY ConnectionKeeps DEF BaseInv, Moves
<1>2. PICK s, u : s = todo[c] /\ u = todo'[c]
  OBVIOUS
<1>3. IsSeq(s) /\ s # <<>> /\ IsSeq(steps)
  BY <1>1, <1>2 DEF BaseInv, ListsInv, Actors, Fits
<1>4. c \in Actors /\ todo = [a \in Actors |-> todo[a]] /\ \A d \in Connections : d \in Actors
  BY DEF BaseInv, ListsInv, Actors
<1>5. \A other : Then(c, other) => todo'[c] = other \o Tail(todo[c])
  BY <1>4, ThenIs
<1>6. u = steps \o Tail(s)
  BY <1>1, <1>2, <1>5
<1>7. Fits(s, steps) /\ Asking(s, 1)
  BY <1>1, <1>2
<1>8. Asking(u, 1)
  BY <1>3, <1>6, <1>7, AskingTaken
<1>9. Len(steps) = 0 => Whole(u)
  BY <1>3, <1>6, <1>7, AskingTaken
<1>10. Len(steps) > 0 => u[1] = steps[1]
  BY <1>3, <1>6, <1>7, AskingTaken
<1>11. ASSUME s[1][1] \notin {"look", "rows"} PROVE Whole(u)
  <2>1. PICK m \in Nat : m = Len(steps)
    BY <1>3, IsSeqOf DEF IsSeq
  <2>2. CASE m > 0
    <3>1. 1 \in 1..Len(steps)
      BY <2>1, <2>2
    <3>2. steps[1][1] \notin {"look", "rows"}
      BY <1>7, <1>11, <3>1 DEF Fits
    <3>. QED
      BY <1>10, <2>1, <2>2, <3>2 DEF Whole
  <2>3. CASE m = 0
    BY <1>9, <2>1, <2>3
  <2>. QED
    BY <2>2, <2>3
<1>12. \A d \in Connections : d # c => todo'[d] = todo[d]
  BY <1>1, <1>4, ThenIs
<1>. QED
  BY <1>1, <1>2, <1>3, <1>5, <1>8, <1>11, <1>12

(* What a connection's step does to what others were answered. *)
LEMMA StepAsked ==
  ASSUME RepliesInv, NEW c \in Connections, AnyStep(c)
  PROVE  /\ collected' = collected /\ AskedType'
         /\ rows' = [d \in Connections |-> rows'[d]]
         /\ \A d \in Connections :
              /\ ~(d = c /\ Ask(c)) => asked'[d].dead = asked[d].dead
              /\ ~(d = c /\ (Ask(c) \/ AppendRow(c))) => rows'[d] = rows[d]
              /\ Sweep(c) \/ (d = c /\ Ask(c)) \/ asked'[d] = asked[d]
              /\ Sweep(c) /\ ~(d = c /\ Ask(c)) => asked'[d].live = {}
<1>1. /\ rows = [d \in Connections |-> rows[d]] /\ DOMAIN rows = Connections
      /\ asked \in [Connections -> [live : SUBSET (Objects \X Sites), dead : SUBSET collected]]
  BY DEF RepliesInv, AskedType
<1>2. CASE Sweep(c)
  <2>1. asked' = [k \in Connections |-> [asked[k] EXCEPT !.live = {}]] /\ UNCHANGED <<collected, rows>>
    BY <1>2 DEF Sweep
  <2>2. \A k \in Connections : asked[k] \in [live : SUBSET (Objects \X Sites), dead : SUBSET collected]
    BY <1>1
  <2>3. \A k \in Connections : /\ asked'[k] \in [live : SUBSET (Objects \X Sites), dead : SUBSET collected]
                               /\ asked'[k].live = {} /\ asked'[k].dead = asked[k].dead
    BY <2>1, <2>2
  <2>4. AskedType'
    BY <2>1, <2>3 DEF AskedType
  <2>. QED
    BY <1>1, <1>2, <2>1, <2>3, <2>4
<1>3. CASE Ask(c)
  <2>1. PICK live, dead : /\ live = {x \in Objects \X Sites : RecordedAt(x[1], x[2])} /\ dead = collected
                          /\ asked' = [asked EXCEPT ![c] = [live |-> live, dead |-> dead]]
                          /\ rows' = [rows EXCEPT ![c] = <<>>] /\ collected' = collected
    BY <1>3 DEF Ask
  <2>2. live \subseteq Objects \X Sites
    BY <2>1
  <2>3. PICK r : r = [live |-> live, dead |-> dead]
    OBVIOUS
  <2>4. r \in [live : SUBSET (Objects \X Sites), dead : SUBSET collected]
    BY <2>1, <2>2, <2>3
  <2>5. asked' = [asked EXCEPT ![c] = r]
    BY <2>1, <2>3
  <2>6. AskedType'
    BY <1>1, <2>1, <2>4, <2>5 DEF AskedType
  <2>7. \A d \in Connections : d # c => asked'[d] = asked[d] /\ rows'[d] = rows[d]
    BY <1>1, <2>1, <2>5
  <2>8. rows' = [d \in Connections |-> rows'[d]]
    BY <1>1, <2>1
  <2>9. ~Sweep(c)
    <3>1. Takes(c, "ask") /\ (Sweep(c) => Takes(c, "sweep"))
      BY <1>3 DEF Ask, Sweep
    <3>. QED
      BY <3>1 DEF Takes
  <2>. QED
    BY <1>3, <2>1, <2>6, <2>7, <2>8, <2>9
<1>4. CASE AppendRow(c)
  <2>0. asked' = asked /\ collected' = collected
    BY <1>4 DEF AppendRow
  <2>1. PICK p \in Arg(c, 1) :
          rows' = IF LiveSamples(p) = {} THEN rows
                  ELSE [rows EXCEPT ![c] = [q \in DOMAIN @ \cup {p} |->
                                              IF q = p THEN LiveSamples(p) ELSE @[q]]]
    BY <1>4 DEF AppendRow
  <2>2. /\ rows' = [d \in Connections |-> rows'[d]]
        /\ \A d \in Connections : d # c => rows'[d] = rows[d]
    BY <1>1, <2>1
  <2>3. AskedType'
    BY <1>1, <2>0 DEF AskedType
  <2>4. ~Sweep(c) /\ ~Ask(c)
    <3>1. Takes(c, "rows") /\ (Sweep(c) => Takes(c, "sweep")) /\ (Ask(c) => Takes(c, "ask"))
      BY <1>4 DEF AppendRow, Sweep, Ask
    <3>. QED
      BY <3>1 DEF Takes
  <2>. QED
    BY <1>4, <2>0, <2>2, <2>3, <2>4
<1>5. CASE ~Sweep(c) /\ ~Ask(c) /\ ~AppendRow(c)
  <2>1. UNCHANGED <<rows, asked, collected>>
    <3>1. CASE DataStep(c)
      BY <1>5, <3>1 DEF DataStep, Flag, Look, Fallback, javaVars
    <3>2. CASE UNCHANGED javaVars
      BY <3>2 DEF javaVars
    <3>. QED
      BY <3>1, <3>2 DEF AnyStep
  <2>2. AskedType'
    BY <1>1, <2>1 DEF AskedType
  <2>. QED
    BY <1>1, <1>5, <2>1, <2>2
<1>. QED
  BY <1>2, <1>3, <1>4, <1>5

LEMMA AskAnswers ==
  ASSUME BaseInv, RepliesInv, NEW c \in Connections, Ask(c)
  PROVE  Answers(c)'
<1>1. Takes(c, "ask") /\ Then(c, <<>>)
  BY DEF Ask
<1>2. PICK s, u : s = todo[c] /\ u = todo'[c]
  OBVIOUS
<1>3. s # <<>> /\ s[1][1] = "ask" /\ IsSeq(s)
  BY <1>1, <1>2, TakesOf DEF BaseInv
<1>4. u = <<>> \o Tail(s)
  BY <1>1, <1>2, ThenIs DEF BaseInv, ListsInv, Actors
<1>5. u # <<>> /\ u[1] = <<"look", Sites, {}>>
  <2>1. Fits(s, <<>>) /\ Len(<<>>) = 0
    BY NoSteps
  <2>2. Asking(s, 1)
    BY <1>2 DEF RepliesInv
  <2>3. s[1][1] = "ask" /\ Len(<<>>) = 0 => u # <<>> /\ u[1] = <<"look", Sites, {}>>
    BY <1>3, <1>4, <2>1, <2>2, AskingTaken
  <2>. QED
    BY <1>3, <2>1, <2>3
<1>6. u[1][1] = "look" /\ u[1][2] = Sites
  BY <1>5
<1>7. /\ rows'[c] = <<>>
      /\ asked'[c].live = {x \in Objects \X Sites : RecordedAt(x[1], x[2])}
      /\ allocationStats' = allocationStats
  BY DEF Ask, RepliesInv, AskedType
<1>8. ASSUME NEW o \in Objects, NEW q \in Sites, Tracked(c, o, q)'
      PROVE  /\ q \in DOMAIN allocationStats' /\ o \in allocationStats'[q]
             /\ Held(u, q)
             /\ Due(u, q) \/ (Len(q) > 1 /\ ~Shown(c, o, Front(q))')
  <2>1. PICK x \in asked'[c].live : x[1] = o /\ q \in Prefixes(x[2]) \ {<<>>}
    BY <1>8 DEF Tracked
  <2>2. q \in DOMAIN allocationStats /\ o \in allocationStats[q]
    BY <1>7, <2>1 DEF RecordedAt
  <2>3. Held(u, q)
    BY <1>6 DEF Held, Begins
  <2>4. ~Shown(c, o, Front(q))'
    BY <1>7 DEF Shown
  <2>5. Len(q) = 1 \/ Len(q) > 1
    <3>1. IsSeq(q) /\ q # <<>>
      BY DataAssumption
    <3>2. q \in Seq(ToSet(q))
      BY <3>1 DEF IsSeq
    <3>3. PICK n \in Nat : n = Len(q) /\ n # 0
      BY <3>1, <3>2, EmptySeq, LenProperties
    <3>4. n = 1 \/ n > 1
      BY <3>3
    <3>. QED
      BY <3>3, <3>4
  <2>6. Len(q) = 1 => Due(u, q)
    BY <1>5, <1>6 DEF Due, Begins
  <2>. QED
    BY <1>7, <2>2, <2>3, <2>4, <2>5, <2>6
<1>9. \A q : Held(todo[c], q)' = Held(u, q) /\ Due(todo[c], q)' = Due(u, q)
  BY <1>2 DEF Held, Due, Begins
<1>10. \A p \in DOMAIN rows'[c] : rows'[c][p] \cap asked'[c].dead = {}
  BY <1>7
<1>. QED
  BY <1>8, <1>9, <1>10 DEF Answers

LEMMA LookAnswers ==
  ASSUME BaseInv, RepliesInv, NEW c \in Connections, Look(c)
  PROVE  Answers(c)'
<1>1. Takes(c, "look") /\ UNCHANGED <<allocationStats, collected, rows, asked>>
  BY DEF Look, javaVars
<1>2. PICK s, u : s = todo[c] /\ u = todo'[c]
  OBVIOUS
<1>3. /\ s # <<>> /\ s[1][1] = "look" /\ IsSeq(s)
      /\ Arg(c, 1) = s[1][1 + 1] /\ Arg(c, 2) = s[1][2 + 1]
  BY <1>1, <1>2, TakesOf DEF BaseInv
<1>4a. PICK bins \in (SUBSET Arg(c, 1)) \ {{}} :
         Then(c, IF Arg(c, 1) \ bins # {}
                 THEN <<<<"look", Arg(c, 1) \ bins, Arg(c, 2) \cup (bins \cap DOMAIN allocationStats)>>>>
                 ELSE <<<<"rows", {p \in Arg(c, 2) \cup (bins \cap DOMAIN allocationStats) : Len(p) = 1},
                          Arg(c, 2) \cup (bins \cap DOMAIN allocationStats)>>>>)
  BY DEF Look
<1>4b. PICK rest, keys : rest = Arg(c, 1) \ bins /\ keys = Arg(c, 2) \cup (bins \cap DOMAIN allocationStats)
  OBVIOUS
<1>4. Then(c, IF rest # {} THEN <<<<"look", rest, keys>>>>
              ELSE <<<<"rows", {p \in keys : Len(p) = 1}, keys>>>>)
  BY <1>4a, <1>4b, Zenon
<1>5. PICK now : now = IF rest # {} THEN <<"look", rest, keys>> ELSE <<"rows", {p \in keys : Len(p) = 1}, keys>>
  OBVIOUS
<1>6. Then(c, <<now>>)
  BY <1>4, <1>5
<1>7. u # <<>> /\ u[1] = now
  <2>1. PICK one : one = <<now>>
    OBVIOUS
  <2>2. one \in Seq({now}) /\ Len(one) = 1 /\ one[1] = now
    BY <2>1
  <2>3. IsSeq(one) /\ Len(one) > 0
    BY <2>2, IsSeqOf
  <2>4. u = one \o Tail(s)
    BY <1>2, <1>6, <2>1, ThenIs DEF BaseInv, ListsInv, Actors
  <2>. QED
    BY <1>3, <2>2, <2>3, <2>4, HeadAfter
<1>8. \A q : Held(todo[c], q)' = Held(u, q) /\ Due(todo[c], q)' = Due(u, q)
  BY <1>2 DEF Held, Due, Begins
<1>9. ASSUME NEW o \in Objects, NEW q \in Sites, Tracked(c, o, q)
      PROVE  Held(u, q) /\ (Due(s, q) => Due(u, q))
  <2>1. q \in DOMAIN allocationStats /\ Held(s, q)
    BY <1>2, <1>9 DEF RepliesInv, Answers
  <2>2. q \in s[1][2] \cup s[1][3]
    BY <1>3, <2>1 DEF Held, Begins
  <2>3. q \in rest \cup keys
    BY <1>3, <1>4b, <2>1, <2>2
  <2>4. Due(s, q) => Len(q) = 1
    BY <1>3 DEF Due, Begins
  <2>5. CASE rest # {}
    <3>1. u[1][1] = "look" /\ u[1][2] = rest /\ u[1][3] = keys
      BY <1>5, <1>7, <2>5
    <3>. QED
      BY <1>7, <2>3, <2>4, <3>1 DEF Held, Due, Begins
  <2>6. CASE rest = {}
    <3>1. u[1][1] = "rows" /\ u[1][2] = {p \in keys : Len(p) = 1} /\ u[1][3] = keys
      BY <1>5, <1>7, <2>6
    <3>. QED
      BY <1>7, <2>3, <2>4, <2>6, <3>1 DEF Held, Due, Begins
  <2>. QED
    BY <2>5, <2>6
<1>10. ASSUME NEW o \in Objects, NEW q \in Sites, Tracked(c, o, q)'
       PROVE  /\ q \in DOMAIN allocationStats' /\ o \in allocationStats'[q]
              /\ Held(todo[c], q)'
              /\ o \notin collected' =>
                   Shown(c, o, q)' \/ Due(todo[c], q)' \/ (Len(q) > 1 /\ ~Shown(c, o, Front(q))')
  <2>1. Tracked(c, o, q)
    BY <1>1, <1>10 DEF Tracked
  <2>2. /\ q \in DOMAIN allocationStats /\ o \in allocationStats[q]
        /\ o \notin collected =>
             Shown(c, o, q) \/ Due(s, q) \/ (Len(q) > 1 /\ ~Shown(c, o, Front(q)))
    BY <1>2, <2>1 DEF RepliesInv, Answers
  <2>3. \A r : Shown(c, o, r)' <=> Shown(c, o, r)
    BY <1>1 DEF Shown
  <2>4. Held(u, q) /\ (Due(s, q) => Due(u, q))
    BY <1>9, <2>1
  <2>. QED
    BY <1>1, <1>8, <2>2, <2>3, <2>4
<1>11. \A p \in DOMAIN rows'[c] : rows'[c][p] \cap asked'[c].dead = {}
  BY <1>1 DEF RepliesInv, Answers
<1>. QED
  BY <1>10, <1>11 DEF Answers

LEMMA AppendAnswers ==
  ASSUME BaseInv, RepliesInv, NEW c \in Connections, AppendRow(c)
  PROVE  Answers(c)'
<1>1. Takes(c, "rows") /\ UNCHANGED <<allocationStats, collected, asked>>
  BY DEF AppendRow
<1>2. PICK s, u : s = todo[c] /\ u = todo'[c]
  OBVIOUS
<1>3. /\ s # <<>> /\ s[1][1] = "rows" /\ IsSeq(s)
      /\ Arg(c, 1) = s[1][1 + 1] /\ Arg(c, 2) = s[1][2 + 1]
  BY <1>1, <1>2, TakesOf DEF BaseInv
<1>4a. PICK p \in Arg(c, 1) :
         /\ Then(c, <<<<"rows", (Arg(c, 1) \ {p})
                                 \cup (IF LiveSamples(p) = {} THEN {}
                                       ELSE {q \in Arg(c, 2) : Len(q) > 1 /\ Front(q) = p}), Arg(c, 2)>>>>)
         /\ rows' = IF LiveSamples(p) = {} THEN rows
                    ELSE [rows EXCEPT ![c] = [q \in DOMAIN @ \cup {p} |->
                                                IF q = p THEN LiveSamples(p) ELSE @[q]]]
  BY DEF AppendRow
<1>4b. PICK live, keys, due : /\ live = LiveSamples(p) /\ keys = Arg(c, 2)
                              /\ due = (Arg(c, 1) \ {p})
                                          \cup (IF live = {} THEN {} ELSE {q \in keys : Len(q) > 1 /\ Front(q) = p})
  OBVIOUS
<1>5. PICK now : now = <<"rows", due, keys>>
  OBVIOUS
<1>6. Then(c, <<now>>)
  BY <1>4a, <1>4b, <1>5
<1>7. u # <<>> /\ u[1] = now
  <2>1. PICK one : one = <<now>>
    OBVIOUS
  <2>2. one \in Seq({now}) /\ Len(one) = 1 /\ one[1] = now
    BY <2>1
  <2>3. IsSeq(one) /\ Len(one) > 0
    BY <2>2, IsSeqOf
  <2>4. u = one \o Tail(s)
    BY <1>2, <1>6, <2>1, ThenIs DEF BaseInv, ListsInv, Actors
  <2>. QED
    BY <1>3, <2>2, <2>3, <2>4, HeadAfter
<1>8. u[1][1] = "rows" /\ u[1][2] = due /\ u[1][3] = keys
  BY <1>5, <1>7
<1>9. \A q : /\ Held(todo[c], q)' <=> q \in keys
             /\ Due(todo[c], q)' <=> q \in due
  BY <1>2, <1>7, <1>8 DEF Held, Due, Begins
<1>10. \A q : /\ Held(s, q) => q \in keys
              /\ Due(s, q) => q \in Arg(c, 1)
  BY <1>3, <1>4b DEF Held, Due, Begins
<1>11. /\ live = {} => rows'[c] = rows[c]
       /\ live # {} => rows'[c] = [q \in DOMAIN rows[c] \cup {p} |-> IF q = p THEN live ELSE rows[c][q]]
  BY <1>4a, <1>4b DEF RepliesInv
<1>12. \A o, q : q # p => (Shown(c, o, q)' <=> Shown(c, o, q))
  BY <1>11 DEF Shown
<1>13. \A o : o \in live => Shown(c, o, p)'
  BY <1>11 DEF Shown
<1>14. ASSUME NEW r \in DOMAIN rows'[c] PROVE rows'[c][r] \cap asked'[c].dead = {}
  <2>1. \A q \in DOMAIN rows[c] : rows[c][q] \cap asked[c].dead = {}
    BY DEF RepliesInv, Answers
  <2>2. asked[c].dead \subseteq collected
    BY DEF RepliesInv, AskedType
  <2>3. live \cap collected = {}
    BY <1>4b DEF LiveSamples
  <2>4. CASE live = {}
    BY <1>1, <1>11, <1>14, <2>1, <2>4
  <2>5. CASE live # {}
    <3>1. r \in DOMAIN rows[c] \cup {p} /\ rows'[c][r] = IF r = p THEN live ELSE rows[c][r]
      BY <1>11, <1>14, <2>5
    <3>. QED
      BY <1>1, <2>1, <2>2, <2>3, <3>1
  <2>. QED
    BY <2>4, <2>5
<1>15. ASSUME NEW o \in Objects, Tracked(c, o, p), p \in Sites, o \notin collected PROVE o \in live
  <2>1. p \in DOMAIN allocationStats /\ o \in allocationStats[p]
    BY <1>15 DEF RepliesInv, Answers
  <2>. QED
    BY <1>4b, <1>15, <2>1 DEF LiveSamples
<1>16. ASSUME NEW o \in Objects, NEW q \in Sites, Tracked(c, o, q)'
       PROVE  /\ q \in DOMAIN allocationStats' /\ o \in allocationStats'[q]
              /\ Held(todo[c], q)'
              /\ o \notin collected' =>
                   Shown(c, o, q)' \/ Due(todo[c], q)' \/ (Len(q) > 1 /\ ~Shown(c, o, Front(q))')
  <2>1. Tracked(c, o, q)
    BY <1>1, <1>16 DEF Tracked
  <2>2. q \in DOMAIN allocationStats /\ o \in allocationStats[q] /\ Held(s, q)
    BY <1>2, <2>1 DEF RepliesInv, Answers
  <2>3. o \notin collected => Shown(c, o, q) \/ Due(s, q) \/ (Len(q) > 1 /\ ~Shown(c, o, Front(q)))
    BY <1>2, <2>1 DEF RepliesInv, Answers
  <2>4. q \in keys
    BY <1>10, <2>2
  <2>5. ASSUME o \notin collected
        PROVE  Shown(c, o, q)' \/ Due(todo[c], q)' \/ (Len(q) > 1 /\ ~Shown(c, o, Front(q))')
    <3>1. CASE q = p
      <4>1. o \in live
        BY <1>15, <2>1, <2>5, <3>1
      <4>. QED
        BY <1>13, <3>1, <4>1
    <3>2. CASE q # p /\ Shown(c, o, q)
      BY <1>12, <3>2
    <3>3. CASE q # p /\ Due(s, q)
      <4>1. q \in due
        BY <1>4b, <1>10, <3>3
      <4>. QED
        BY <1>9, <4>1
    <3>4. CASE q # p /\ Len(q) > 1 /\ ~Shown(c, o, Front(q))
      <4>1. CASE Front(q) = p
        <5>1. Tracked(c, o, p) /\ p \in Sites
          BY <2>1, <3>4, <4>1, TrackedAt DEF RepliesInv
        <5>2. o \in live
          BY <1>15, <2>5, <5>1
        <5>3. q \in due
          BY <1>4b, <2>4, <3>4, <4>1, <5>2
        <5>. QED
          BY <1>9, <5>3
      <4>2. CASE Front(q) # p
        BY <1>12, <3>4, <4>2
      <4>. QED
        BY <4>1, <4>2
    <3>. QED
      BY <2>3, <2>5, <3>1, <3>2, <3>3, <3>4
  <2>. QED
    BY <1>1, <1>9, <2>2, <2>4, <2>5
<1>. QED
  BY <1>14, <1>16 DEF Answers

(* All other steps of a connection leave what is due to be answered.  A    *)
(* fallback comes when no more rows are due.                               *)
LEMMA OtherAnswers ==
  ASSUME BaseInv, RepliesInv, NEW c \in Connections, AnyStep(c), ~Ask(c), ~Look(c), ~AppendRow(c)
  PROVE  Answers(c)'
<1>1. /\ Asking(todo[c], 1) /\ Answers(c) /\ AskedType
  BY DEF RepliesInv
<1>2. PICK s, u : s = todo[c] /\ u = todo'[c]
  OBVIOUS
<1>3. /\ s # <<>> /\ IsSeq(s)
      /\ s[1][1] \notin {"look", "rows"} => Whole(u)
      /\ \A steps : Then(c, steps) => u = steps \o Tail(s)
  BY <1>1, <1>2, StepNext
<1>4. /\ rows'[c] = rows[c] /\ asked'[c].dead = asked[c].dead /\ collected \subseteq collected'
      /\ Sweep(c) => asked'[c].live = {}
      /\ ~Sweep(c) => asked'[c] = asked[c]
  BY StepAsked
<1>5. CASE Sweep(c)
  BY <1>1, <1>4, <1>5, AnswersKept
<1>6. CASE ~Sweep(c)
  <2>1. allocationStats' = allocationStats
    BY <1>6, StepTables
  <2>2. Whole(u) /\ \A q : ~Due(s, q)
    <3>1. CASE Fallback(c)
      <4>1. Takes(c, "rows") /\ Arg(c, 1) = {}
        BY <3>1 DEF Fallback
      <4>2. s[1][1] = "rows" /\ Arg(c, 1) = s[1][1 + 1]
        BY <1>2, <4>1, TakesOf DEF BaseInv
      <4>3. \A q : ~Due(s, q)
        BY <4>1, <4>2 DEF Due, Begins
      <4>4. PICK steps : steps = (IF rows[c] = <<>> THEN Snapshot ELSE <<>>) /\ Then(c, steps)
        BY <3>1 DEF Fallback
      <4>5. u = steps \o Tail(s)
        BY <1>3, <4>4
      <4>6. CASE steps = Snapshot
        <5>1. IsSeq(steps)
          BY <4>6, SnapshotParts DEF Calm, Inner
        <5>2. Len(steps) > 0 /\ steps[1] = <<"freeze">>
          BY <4>6 DEF Snapshot
        <5>3. u[1] = <<"freeze">>
          BY <1>3, <4>5, <5>1, <5>2, HeadAfter
        <5>4. u[1][1] = "freeze"
          BY <5>3
        <5>. QED
          BY <4>3, <5>4 DEF Whole
      <4>7. CASE steps = <<>>
        <5>1. Fits(s, <<>>) /\ Len(<<>>) = 0
          BY NoSteps
        <5>2. Whole(u)
          BY <1>1, <1>2, <1>3, <4>5, <4>7, <5>1, AskingTaken
        <5>. QED
          BY <4>3, <5>2
      <4>. QED
        BY <4>4, <4>6, <4>7
    <3>2. CASE ~Fallback(c)
      <4>1. ASSUME NEW kind, kind \notin {"look", "rows"}, Takes(c, kind)
            PROVE  s[1][1] \notin {"look", "rows"}
        BY <1>2, <4>1, TakesOf DEF BaseInv
      <4>2. PICK kind \in {"lock", "unlock", "record", "clear", "freeze", "copy", "thaw", "forget",
                           "average", "divide", "flag", "enter", "exit", "add", "zero"} : Takes(c, kind)
        BY <1>6, <3>2 DEF AnyStep, QuietStep, DataStep, Lock, Unlock, Record, Clear, Freeze, Copy, Thaw,
                    Forget, Average, Divide, Flag, Enter, Exit, Add, Zero
      <4>3. s[1][1] \notin {"look", "rows"}
        BY <4>1, <4>2
      <4>. QED
        BY <1>3, <4>3 DEF Due, Begins
    <3>. QED
      BY <3>1, <3>2
  <2>3. \A q \in Sites : /\ Held(todo[c], q) => Held(todo'[c], q)
                         /\ Due(todo[c], q) => Due(todo'[c], q)
    BY <1>2, <2>2, WholeHeld
  <2>. QED
    BY <1>1, <1>4, <1>6, <2>1, <2>3, AnswersKept
<1>. QED
  BY <1>5, <1>6

LEMMA RepliesByConnection ==
  ASSUME BaseInv, RepliesInv, NEW c \in Connections, AnyStep(c)
  PROVE  RepliesInv'
<1>1. AskedType /\ \A d \in Connections : Asking(todo[d], 1) /\ Answers(d)
  BY DEF RepliesInv
<1>2. Asking(todo'[c], 1) /\ \A d \in Connections : d # c => todo'[d] = todo[d]
  BY <1>1, StepNext
<1>3. AskedType' /\ rows' = [d \in Connections |-> rows'[d]] /\ collected' = collected
  BY StepAsked
<1>4. Answers(c)'
  BY AskAnswers, LookAnswers, AppendAnswers, OtherAnswers
<1>5. ASSUME NEW d \in Connections, d # c PROVE Answers(d)'
  <2>1. /\ rows'[d] = rows[d] /\ asked'[d].dead = asked[d].dead
        /\ Sweep(c) => asked'[d].live = {}
        /\ ~Sweep(c) => asked'[d] = asked[d]
    BY <1>5, StepAsked
  <2>2. ~Sweep(c) => allocationStats' = allocationStats
    BY StepTables
  <2>3. todo'[d] = todo[d]
    BY <1>2, <1>5
  <2>4. CASE Sweep(c)
    BY <1>1, <1>3, <2>1, <2>4, AnswersKept
  <2>5. CASE ~Sweep(c)
    BY <1>1, <1>3, <2>1, <2>2, <2>3, <2>5, AnswersKept
  <2>. QED
    BY <2>4, <2>5
<1>6. \A d \in Connections : Asking(todo'[d], 1) /\ Answers(d)'
  BY <1>1, <1>2, <1>4, <1>5
<1>7. \A d \in Connections : Asking(todo[d], 1)' <=> Asking(todo'[d], 1)
  BY DEF Asking
<1>. QED
  BY <1>3, <1>6, <1>7 DEF RepliesInv

LEMMA RepliesUntouched ==
  ASSUME RepliesInv, UNCHANGED <<rows, asked>>, \A c \in Connections : todo'[c] = todo[c],
         collected \subseteq collected',
         \A q \in DOMAIN allocationStats :
           q \in DOMAIN allocationStats' /\ allocationStats[q] \subseteq allocationStats'[q]
  PROVE  RepliesInv'
<1>1. AskedType /\ \A d \in Connections : Asking(todo[d], 1) /\ Answers(d)
  BY DEF RepliesInv
<1>2. AskedType'
  <2>1. SUBSET collected \subseteq SUBSET collected'
    OBVIOUS
  <2>2. \A r \in [live : SUBSET (Objects \X Sites), dead : SUBSET collected] :
          r \in [live : SUBSET (Objects \X Sites), dead : SUBSET collected']
    BY <2>1
  <2>. QED
    BY <1>1, <2>2 DEF AskedType
<1>3. \A d \in Connections : Answers(d)'
  BY <1>1, AnswersKept
<1>4. \A d \in Connections : Asking(todo[d], 1)' <=> Asking(todo'[d], 1)
  BY DEF Asking
<1>. QED
  BY <1>1, <1>2, <1>3, <1>4 DEF RepliesInv

LEMMA RepliesKeep ==
  ASSUME BaseInv, RepliesInv, [DataNext]_<<vars, javaVars, met>>
  PROVE  RepliesInv'
<1>1. CASE DataNext
  <2>1. ASSUME NEW t \in Threads, ThreadStep(t) PROVE RepliesInv'
    <3>1. \A c \in Connections : todo'[c] = todo[c]
      BY <2>1, ThreadKeeps DEF BaseInv
    <3>2. UNCHANGED <<rows, asked, collected>>
      BY <2>1 DEF ThreadStep, New, Entry, Sample, javaVars
    <3>3. \A q \in DOMAIN allocationStats :
            q \in DOMAIN allocationStats' /\ allocationStats[q] \subseteq allocationStats'[q]
      <4>1. CASE Entry(t)
        BY <4>1 DEF Entry
      <4>2. CASE Sample(t)
        BY <4>2 DEF Sample
      <4>3. CASE ~Entry(t) /\ ~Sample(t)
        BY <2>1, <4>3 DEF ThreadStep, New, javaVars
      <4>. QED
        BY <4>1, <4>2, <4>3
    <3>. QED
      BY <3>1, <3>2, <3>3, RepliesUntouched
  <2>2. ASSUME NEW o \in Objects, Collect(o) PROVE RepliesInv'
    BY <2>2, RepliesUntouched DEF Collect
  <2>. QED
    BY <1>1, <2>1, <2>2, RepliesByConnection, StepCases
<1>2. CASE UNCHANGED <<vars, javaVars, met>>
  BY <1>2, RepliesUntouched DEF vars, javaVars
<1>. QED
  BY <1>1, <1>2

(* What a reply promised: each object that was recorded when the reply was *)
(* asked for and has not been collected is in the row of each of its       *)
(* sites, and no row has an object that had been collected by then, of any *)
(* number of threads recording and connections asking, starting and        *)
(* stopping, in whatever order the bins of the table are visited.          *)
THEOREM RepliesLiveHolds == DataSpec => []RepliesLive
<1>1. DataInit => BaseInv /\ RepliesInv
  BY InitLists, InitReplies DEF BaseInv
<1>2. BaseInv /\ RepliesInv /\ [DataNext]_<<vars, javaVars, met>> => BaseInv' /\ RepliesInv'
  BY BaseKeeps, RepliesKeep
<1>3. BaseInv /\ RepliesInv => RepliesLive
  <2>. SUFFICES ASSUME BaseInv, RepliesInv, NEW c \in Connections
                PROVE  /\ \A p \in DOMAIN rows[c] : rows[c][p] \cap asked[c].dead = {}
                       /\ ~Takes(c, "look") /\ ~Takes(c, "rows") =>
                            \A x \in asked[c].live :
                              x[1] \notin collected => x[2] \in DOMAIN rows[c] /\ x[1] \in rows[c][x[2]]
    BY DEF RepliesLive
  <2>1. Answers(c) /\ AskedType
    BY DEF RepliesInv
  <2>2. ASSUME ~Takes(c, "look"), ~Takes(c, "rows"), NEW x \in asked[c].live, x[1] \notin collected
        PROVE  x[2] \in DOMAIN rows[c] /\ x[1] \in rows[c][x[2]]
    <3>1. \A q : ~Due(todo[c], q)
      <4>1. PICK s : s = todo[c]
        OBVIOUS
      <4>2. IsSeq(s)
        BY <4>1 DEF BaseInv, ListsInv, Actors
      <4>3. s # <<>> => Head(s) = s[1]
        BY <4>2, HeadIs
      <4>. QED
        BY <2>2, <4>1, <4>3 DEF Takes, Due, Begins
    <3>2. PICK o, p : o = x[1] /\ p = x[2] /\ o \in Objects /\ p \in Sites
      BY <2>1 DEF AskedType
    <3> DEFINE Missing == {n \in Nat : \E q \in Sites : Tracked(c, o, q) /\ ~Shown(c, o, q) /\ Len(q) = n}
    <3>3. Missing = {}
      <4>. SUFFICES ASSUME Missing # {} PROVE FALSE
        OBVIOUS
      <4>1. PICK n \in Missing : \A m \in Missing : n <= m
        <5>1. Missing \in SUBSET Nat
          OBVIOUS
        <5>. QED
          BY <5>1, LeastElement
      <4>2. PICK q \in Sites : Tracked(c, o, q) /\ ~Shown(c, o, q) /\ Len(q) = n
        OBVIOUS
      <4>3. Len(q) > 1 /\ ~Shown(c, o, Front(q))
        BY <2>1, <2>2, <3>1, <3>2, <4>2 DEF Answers
      <4>4. Front(q) \in Sites /\ Tracked(c, o, Front(q)) /\ Len(Front(q)) = Len(q) - 1
        BY <2>1, <4>2, <4>3, TrackedAt
      <4>5. n - 1 \in Nat /\ n - 1 < n
        BY <4>2, <4>3
      <4>6. n - 1 \in Missing
        BY <4>2, <4>3, <4>4, <4>5
      <4>. QED
        BY <4>1, <4>5, <4>6
    <3>4. Tracked(c, o, p)
      <4>1. IsSeq(p) /\ p # <<>>
        BY <3>2, DataAssumption
      <4>2. p \in Prefixes(p)
        <5>1. p \in Seq(ToSet(p)) /\ Len(p) \in Nat
          BY <4>1, IsSeqOf DEF IsSeq
        <5>2. SubSeq(p, 1, Len(p)) = p
          BY <5>1
        <5>3. Len(p) \in 0..Len(p)
          BY <5>1
        <5>. QED
          BY <5>2, <5>3 DEF Prefixes
      <4>. QED
        BY <2>2, <3>2, <4>1, <4>2 DEF Tracked
    <3>5. Shown(c, o, p)
      <4>1. Len(p) \in Nat
        BY <2>1, <3>4, TrackedAt
      <4>. QED
        BY <3>2, <3>3, <3>4, <4>1
    <3>. QED
      BY <3>2, <3>5 DEF Shown
  <2>. QED
    BY <2>1, <2>2 DEF Answers
<1>. QED
  BY <1>1, <1>2, <1>3, PTL DEF DataSpec

----------------------------------------------------------------------------
(* The replies of the native agent.                                        *)

\* The rows of a tree of paths: a parent's comes before its children's.
Nodes(nodes) ==
  /\ IsSeq(nodes)
  /\ \A i \in 1..Len(nodes) :
       /\ nodes[i].id = i - 1 /\ nodes[i].size \in Nat
       /\ IsSeq(nodes[i].name) /\ Len(nodes[i].name) \in 1..DepthCap
       /\ IF Len(nodes[i].name) = 1 THEN nodes[i].parent = NoId
          ELSE /\ nodes[i].parent \in 0..(i - 2)
               /\ nodes[nodes[i].parent + 1].name = Front(nodes[i].name)

\* What Depth counts, if up is what it counts in a round less.
Ups(up, nodes) ==
  \A rounds \in 0..DepthCap, id \in Int :
    up[rounds][id] = IF id < 0 \/ rounds = 0 THEN 0
                     ELSE IF id >= Len(nodes) THEN 1
                     ELSE 1 + up[rounds - 1][nodes[id + 1].parent]

\* As many as the path has methods, if there are as many rounds.
Height(nodes) ==
  [rounds \in 0..DepthCap |->
     [id \in Int |-> IF id < 0 \/ rounds = 0 THEN 0
                     ELSE IF id >= Len(nodes) THEN 1
                     ELSE IF Len(nodes[id + 1].name) < rounds THEN Len(nodes[id + 1].name)
                     ELSE rounds]]

(* What is known of a node with an id, and of its parent. *)
LEMMA NodeOf ==
  ASSUME NEW nodes, Nodes(nodes), NEW id \in Int, ~(id < 0), ~(id >= Len(nodes))
  PROVE  LET n == Len(nodes[id + 1].name)
             p == nodes[id + 1].parent
         IN /\ Len(nodes) \in Nat /\ id + 1 \in 1..Len(nodes)
            /\ n \in 1..DepthCap /\ p \in Int
            /\ n = 1 => p < 0
            /\ n # 1 => ~(p < 0) /\ ~(p >= Len(nodes)) /\ Len(nodes[p + 1].name) = n - 1
<1>1. Len(nodes) \in Nat
  BY IsSeqOf DEF Nodes, IsSeq
<1>2. PICK i : i = id + 1
  OBVIOUS
<1>3. i \in 1..Len(nodes)
  BY <1>1, <1>2
<1>4. PICK r, n, p : r = nodes[i].name /\ n = Len(nodes[i].name) /\ p = nodes[i].parent
  OBVIOUS
<1>5. /\ n \in 1..DepthCap /\ IsSeq(r) /\ n = Len(r)
      /\ n = 1 => p = NoId
      /\ n # 1 => p \in 0..(i - 2) /\ nodes[p + 1].name = Front(r)
  BY <1>3, <1>4 DEF Nodes
<1>6. n = 1 => p = -1
  BY <1>5 DEF NoId
<1>7. ASSUME n # 1
      PROVE  p \in Int /\ ~(p < 0) /\ ~(p >= Len(nodes)) /\ Len(nodes[p + 1].name) = n - 1
  <2>1. DepthCap \in Nat
    BY DEF DepthCap
  <2>2. Len(r) > 1
    BY <1>5, <1>7, <2>1
  <2>3. Len(Front(r)) = Len(r) - 1
    BY <1>5, <2>2, FrontOf
  <2>. QED
    BY <1>1, <1>3, <1>5, <1>7, <2>3
<1>. QED
  BY <1>1, <1>2, <1>3, <1>4, <1>5, <1>6, <1>7

LEMMA HeightUps ==
  ASSUME NEW nodes, Nodes(nodes)
  PROVE  Ups(Height(nodes), nodes)
<1>1. DepthCap \in Nat
  BY DEF DepthCap
<1>2. PICK h : h = Height(nodes)
  OBVIOUS
<1>3. ASSUME NEW rounds \in 0..DepthCap, NEW id \in Int
      PROVE  h[rounds][id] = IF id < 0 \/ rounds = 0 THEN 0
                             ELSE IF id >= Len(nodes) THEN 1
                             ELSE IF Len(nodes[id + 1].name) < rounds THEN Len(nodes[id + 1].name)
                             ELSE rounds
  <2>1. PICK row : row = h[rounds]
    OBVIOUS
  <2>2. row = [n \in Int |-> IF n < 0 \/ rounds = 0 THEN 0
                     ELSE IF n >= Len(nodes) THEN 1
                     ELSE IF Len(nodes[n + 1].name) < rounds THEN Len(nodes[n + 1].name)
                     ELSE rounds]
    BY <1>2, <1>3, <2>1 DEF Height
  <2>. QED
    BY <2>1, <2>2
<1>4. ASSUME NEW rounds \in 0..DepthCap, NEW id \in Int,
             ~(id < 0), rounds # 0, ~(id >= Len(nodes))
      PROVE  h[rounds][id] = 1 + h[rounds - 1][nodes[id + 1].parent]
  <2>1. PICK n, p : n = Len(nodes[id + 1].name) /\ p = nodes[id + 1].parent
    OBVIOUS
  <2>2. /\ n \in 1..DepthCap /\ p \in Int
        /\ n = 1 => p < 0
        /\ n # 1 => ~(p < 0) /\ ~(p >= Len(nodes)) /\ Len(nodes[p + 1].name) = n - 1
    BY <1>4, <2>1, NodeOf
  <2>3. rounds - 1 \in 0..DepthCap
    BY <1>1, <1>4
  <2>4. h[rounds][id] = IF n < rounds THEN n ELSE rounds
    BY <1>3, <1>4, <2>1
  <2>5. h[rounds - 1][p] = IF p < 0 \/ rounds - 1 = 0 THEN 0
                           ELSE IF p >= Len(nodes) THEN 1
                           ELSE IF Len(nodes[p + 1].name) < rounds - 1 THEN Len(nodes[p + 1].name)
                           ELSE rounds - 1
    BY <1>3, <2>2, <2>3
  <2>6. PICK x, y : x = h[rounds][id] /\ y = h[rounds - 1][p]
    OBVIOUS
  <2>7. rounds \in Nat /\ rounds # 0 /\ n \in Nat /\ n # 0
    BY <1>1, <1>4, <2>2
  <2>8. CASE n = 1
    <3>1. y = 0
      BY <2>2, <2>5, <2>6, <2>8
    <3>. QED
      BY <2>1, <2>4, <2>6, <2>7, <2>8, <3>1
  <2>9. CASE n # 1
    <3>1. y = IF rounds - 1 = 0 THEN 0 ELSE IF n - 1 < rounds - 1 THEN n - 1 ELSE rounds - 1
      BY <2>2, <2>5, <2>6, <2>9
    <3>2. x = 1 + y
      BY <2>4, <2>6, <2>7, <2>9, <3>1
    <3>. QED
      BY <2>1, <2>6, <3>2
  <2>. QED
    BY <2>8, <2>9
<1>. QED
  BY <1>2, <1>3, <1>4 DEF Ups

(* There is one way up. *)
LEMMA OneUp ==
  ASSUME NEW nodes, Nodes(nodes), NEW f, NEW g, Ups(f, nodes), Ups(g, nodes)
  PROVE  \A rounds \in 0..DepthCap, id \in Int : f[rounds][id] = g[rounds][id]
<1>. DEFINE Bad == {n \in Nat : n <= DepthCap /\ \E id \in Int : f[n][id] # g[n][id]}
<1>1. DepthCap \in Nat
  BY DEF DepthCap
<1>2. Bad = {}
  <2>. SUFFICES ASSUME Bad # {} PROVE FALSE
    OBVIOUS
  <2>1. PICK n \in Bad : \A k \in Bad : n <= k
    <3>1. Bad \in SUBSET Nat
      OBVIOUS
    <3>. HIDE DEF Bad
    <3>. QED
      BY <3>1, LeastElement
  <2>2. PICK id \in Int : f[n][id] # g[n][id]
    BY <2>1
  <2>3. n \in Nat /\ n \in 0..DepthCap
    BY <1>1, <2>1
  <2>4. ~(id < 0) /\ n # 0 /\ ~(id >= Len(nodes))
    BY <2>2, <2>3 DEF Ups
  <2>5. PICK p : p = nodes[id + 1].parent
    OBVIOUS
  <2>6. p \in Int
    BY <2>2, <2>4, <2>5, NodeOf
  <2>7. f[n][id] = 1 + f[n - 1][p] /\ g[n][id] = 1 + g[n - 1][p]
    BY <2>2, <2>3, <2>4, <2>5 DEF Ups
  <2>8. n - 1 \in Nat /\ n - 1 <= DepthCap
    BY <1>1, <2>3, <2>4
  <2>9. n - 1 \in Bad
    BY <2>2, <2>6, <2>7, <2>8
  <2>10. n - 1 \notin Bad
    BY <2>1, <2>3, <2>8, Smaller
  <2>. QED
    BY <2>9, <2>10
<1>. QED
  BY <1>1, <1>2

(* The depth of a row is the number of methods above its own. *)
LEMMA DepthOf ==
  ASSUME NEW nodes, Nodes(nodes), NEW i \in 1..Len(nodes)
  PROVE  Depth(nodes[i].parent, nodes) = Len(nodes[i].name) - 1
<1>. DEFINE at(id) == {j \in 1..Len(nodes) : nodes[j].id = id}
            row(f, rounds) ==
              [id \in Int |-> IF id < 0 \/ rounds = 0 THEN 0
                              ELSE IF at(id) = {} THEN 1
                              ELSE 1 + f[rounds - 1][nodes[FirstOf(at(id))].parent]]
            up == CHOOSE f : f = [rounds \in 0..DepthCap |-> row(f, rounds)]
<1>1. Len(nodes) \in Nat /\ \A j \in 1..Len(nodes) : nodes[j].id = j - 1
  BY IsSeqOf DEF Nodes, IsSeq
<1>2. ASSUME NEW id \in Int, ~(id < 0), ~(id >= Len(nodes))
      PROVE  at(id) # {} /\ FirstOf(at(id)) = id + 1
  <2>1. at(id) = {id + 1}
    BY <1>1, <1>2
  <2>2. id + 1 <= id + 1
    BY <1>2
  <2>. QED
    BY <2>1, <2>2 DEF FirstOf
<1>3. ASSUME NEW id \in Int, id >= Len(nodes)  PROVE at(id) = {}
  BY <1>1, <1>3
<1>4. Depth(nodes[i].parent, nodes) = up[DepthCap][nodes[i].parent]
  BY Zenon DEF Depth
<1>. HIDE DEF at
<1>5. ASSUME NEW f, NEW rounds, NEW id \in Int
      PROVE  row(f, rounds)[id] = IF id < 0 \/ rounds = 0 THEN 0
                                  ELSE IF id >= Len(nodes) THEN 1
                                  ELSE 1 + f[rounds - 1][nodes[id + 1].parent]
  BY <1>2, <1>3
<1>6. ASSUME NEW f, NEW rounds
      PROVE  row(f, rounds) = [id \in Int |-> row(f, rounds)[id]]
  OBVIOUS
<1>. HIDE DEF row
<1>7. \E f : f = [rounds \in 0..DepthCap |-> row(f, rounds)]
  <2>1. PICK h : h = Height(nodes)
    OBVIOUS
  <2>2. Ups(h, nodes)
    BY <2>1, HeightUps
  <2>3. ASSUME NEW rounds \in 0..DepthCap  PROVE h[rounds] = row(h, rounds)
    <3>1. \A id \in Int : h[rounds][id] = row(h, rounds)[id]
      BY <1>5, <2>2 DEF Ups
    <3>2. h[rounds] = [id \in Int |-> h[rounds][id]]
      BY <2>1 DEF Height
    <3>3. PICK x, y : x = h[rounds] /\ y = row(h, rounds)
      OBVIOUS
    <3>4. x = [id \in Int |-> x[id]] /\ y = [id \in Int |-> y[id]] /\ \A id \in Int : x[id] = y[id]
      BY <1>6, <3>1, <3>2, <3>3
    <3>5. x = y
      BY <3>4
    <3>. QED
      BY <3>3, <3>5
  <2>4. h = [rounds \in 0..DepthCap |-> h[rounds]]
    BY <2>1 DEF Height
  <2>5. h = [rounds \in 0..DepthCap |-> row(h, rounds)]
    BY <2>3, <2>4
  <2>. QED
    BY <2>5
<1>8. up = [rounds \in 0..DepthCap |-> row(up, rounds)]
  BY <1>7
<1>. HIDE DEF up
<1>9. Ups(up, nodes)
  <2>1. \A rounds \in 0..DepthCap : up[rounds] = row(up, rounds)
    BY <1>8
  <2>. QED
    BY <1>5, <2>1 DEF Ups
<1>10. PICK id : id = i - 1
  OBVIOUS
<1>11. id \in Int /\ ~(id < 0) /\ ~(id >= Len(nodes)) /\ id + 1 = i
  BY <1>1, <1>10
<1>12. PICK p, n : p = nodes[i].parent /\ n = Len(nodes[i].name)
  OBVIOUS
<1>13. /\ n \in 1..DepthCap /\ p \in Int
       /\ n = 1 => p < 0
       /\ n # 1 => ~(p < 0) /\ ~(p >= Len(nodes)) /\ Len(nodes[p + 1].name) = n - 1
  <2>1. /\ Len(nodes[id + 1].name) \in 1..DepthCap /\ nodes[id + 1].parent \in Int
        /\ Len(nodes[id + 1].name) = 1 => nodes[id + 1].parent < 0
        /\ Len(nodes[id + 1].name) # 1 =>
             /\ ~(nodes[id + 1].parent < 0) /\ ~(nodes[id + 1].parent >= Len(nodes))
             /\ Len(nodes[nodes[id + 1].parent + 1].name) = Len(nodes[id + 1].name) - 1
    BY <1>11, NodeOf
  <2>. QED
    BY <1>11, <1>12, <2>1
<1>14. DepthCap \in Nat /\ DepthCap # 0 /\ DepthCap \in 0..DepthCap
  BY DEF DepthCap
<1>15. PICK h : h = Height(nodes)[DepthCap]
  OBVIOUS
<1>16. h = [k \in Int |-> IF k < 0 \/ DepthCap = 0 THEN 0
                          ELSE IF k >= Len(nodes) THEN 1
                          ELSE IF Len(nodes[k + 1].name) < DepthCap THEN Len(nodes[k + 1].name)
                          ELSE DepthCap]
  BY <1>14, <1>15 DEF Height
<1>17. h[p] = n - 1
  BY <1>13, <1>14, <1>16
<1>18. up[DepthCap][p] = h[p]
  BY <1>9, <1>13, <1>14, <1>15, HeightUps, OneUp
<1>. QED
  BY <1>4, <1>12, <1>17, <1>18

(* All nodes of a reply are shown, each at the depth of its path. *)
LEMMA NodesShown ==
  ASSUME NEW nodes, Nodes(nodes), NEW table, table = AllocationRows(nodes),
         NEW shown, shown = VisibleTree(table, {nodes[i].id : i \in 1..Len(nodes)})
  PROVE  /\ \A i \in 1..Len(nodes) :
              /\ table[i].depth = Len(nodes[i].name) - 1
              /\ nodes[i].parent # NoId =>
                   nodes[nodes[i].parent + 1].name = Front(nodes[i].name)
         /\ Len(shown) = Len(table) /\ ToSet(shown) = ToSet(table)
<1>1. Len(nodes) \in Nat
  BY IsSeqOf DEF Nodes, IsSeq
<1>2. /\ DOMAIN table = 1..Len(nodes) /\ Len(table) = Len(nodes)
      /\ \A i \in 1..Len(nodes) :
           /\ table[i].id = nodes[i].id /\ table[i].parent = nodes[i].parent
           /\ table[i].bytes = nodes[i].size /\ table[i].depth = Depth(nodes[i].parent, nodes)
  BY <1>1 DEF AllocationRows
<1>3. IsSeq(table) /\ ToSet(table) = {table[i] : i \in 1..Len(nodes)}
  <2>1. ToSet(table) = {table[i] : i \in 1..Len(nodes)}
    BY <1>2 DEF ToSet
  <2>2. table = [i \in 1..Len(nodes) |-> table[i]]
    BY DEF AllocationRows
  <2>3. table \in [1..Len(nodes) -> ToSet(table)]
    BY <2>1, <2>2
  <2>4. table \in Seq(ToSet(table))
    BY <1>1, <2>3
  <2>. QED
    BY <2>1, <2>4 DEF IsSeq
<1>4. \A i \in 1..Len(nodes) :
        /\ table[i].id = i - 1 /\ table[i].bytes \in Nat /\ table[i].parent \in Int
        /\ table[i].parent < table[i].id
        /\ table[i].parent = NoId \/ table[i].parent \in 0..(i - 2)
  <2>. SUFFICES ASSUME NEW i \in 1..Len(nodes)
                PROVE  /\ table[i].id = i - 1 /\ table[i].bytes \in Nat /\ table[i].parent \in Int
                       /\ table[i].parent < table[i].id
                       /\ table[i].parent = NoId \/ table[i].parent \in 0..(i - 2)
    OBVIOUS
  <2>1. /\ nodes[i].id = i - 1 /\ nodes[i].size \in Nat
        /\ nodes[i].parent = NoId \/ nodes[i].parent \in 0..(i - 2)
    BY DEF Nodes
  <2>2. PICK p : p = nodes[i].parent
    OBVIOUS
  <2>3. p \in Int /\ p < i - 1
    BY <1>1, <2>1, <2>2 DEF NoId
  <2>. QED
    BY <1>2, <2>1, <2>2, <2>3
<1>5. TreeRows(table)
  BY <1>3, <1>4 DEF TreeRows
<1>6. Numbered(table) /\ Distinct(table)
  <2>1. \A i, j \in 1..Len(nodes) : table[i].id = table[j].id => i = j
    BY <1>1, <1>4
  <2>2. \A i \in 1..Len(nodes) : table[i].id \in Nat
    BY <1>1, <1>4
  <2>. QED
    BY <1>2, <1>3, <2>1, <2>2 DEF Numbered, Distinct
<1>7. \A r \in ToSet(table) : r.parent = NoId \/ \E q \in ToSet(table) : q.id = r.parent
  <2>. SUFFICES ASSUME NEW i \in 1..Len(nodes), table[i].parent # NoId
                PROVE  \E j \in 1..Len(nodes) : table[j].id = table[i].parent
    BY <1>3
  <2>1. PICK j : j = table[i].parent + 1
    OBVIOUS
  <2>2. j \in 1..Len(nodes) /\ j - 1 = table[i].parent
    BY <1>1, <1>4, <2>1
  <2>. QED
    BY <1>4, <2>2
<1>8. PICK ids : ids = {nodes[i].id : i \in 1..Len(nodes)}
  OBVIOUS
<1>9. \A r \in ToSet(table) : r.id \in ids
  BY <1>2, <1>3, <1>8
<1>10. ToSet(shown) = ToSet(table) /\ Len(shown) = Len(table)
  <2>1. ToSet(VisibleTree(table, ids)) = ToSet(table) /\ Len(VisibleTree(table, ids)) = Len(table)
    BY <1>5, <1>6, <1>7, <1>9, TreeShowsAll
  <2>. QED
    BY <1>8, <2>1
<1>11. \A i \in 1..Len(nodes) : table[i].depth = Len(nodes[i].name) - 1
  BY <1>2, DepthOf
<1>12. \A i \in 1..Len(nodes) :
         nodes[i].parent # NoId => nodes[nodes[i].parent + 1].name = Front(nodes[i].name)
  BY DEF Nodes
<1>. QED
  BY <1>10, <1>11, <1>12

\* The paths of the table as a snapshot sorts them.
Ordered(order) ==
  /\ order \in SetToSeqs(DOMAIN allocations)
  /\ \A i, j \in 1..Len(order) : i < j => Precedes(order[i], order[j])

LEMMA OrderOf ==
  ASSUME Table(allocations), NEW order, Ordered(order)
  PROVE  /\ Len(order) \in Nat
         /\ \A i \in 1..Len(order) : order[i] \in DOMAIN allocations
         /\ \A i, j \in 1..Len(order) : order[i] = order[j] => i = j
         /\ \A q \in DOMAIN allocations : \E i \in 1..Len(order) : order[i] = q
         /\ \A i, j \in 1..Len(order) : Len(order[i]) < Len(order[j]) => i < j
<1>1. PICK D, n : D = DOMAIN allocations /\ n = Cardinality(D)
  OBVIOUS
<1>2. IsFiniteSet(D) /\ n \in Nat
  BY <1>1, FS_CardinalityType DEF Table
<1>3. order \in [1..n -> D] /\ \A i, j \in 1..n : i # j => order[i] # order[j]
  BY <1>1 DEF Ordered, SetToSeqs
<1>4. Len(order) = n
  BY <1>2, <1>3
<1>5. PICK S : S = 1..n
  OBVIOUS
<1>6. IsFiniteSet(S) /\ Cardinality(S) = n
  BY <1>2, <1>5, FS_Interval
<1>7. PICK T : T = {order[i] : i \in S}
  OBVIOUS
<1>8. Cardinality(T) = n
  <2>1. order \in [S -> T]
    BY <1>3, <1>5, <1>7
  <2>2. \A x, y \in S : order[x] = order[y] => x = y
    BY <1>3, <1>5
  <2>3. \A y \in T : \E x \in S : order[x] = y
    BY <1>7
  <2>. QED
    BY <1>6, <2>1, <2>2, <2>3, SameSize
<1>9. T = D
  <2>1. T \in SUBSET D
    BY <1>3, <1>5, <1>7
  <2>. QED
    BY <1>1, <1>2, <1>8, <2>1, FS_Subset
<1>10. \A i, j \in 1..n : Len(order[i]) < Len(order[j]) => i < j
  <2>. SUFFICES ASSUME NEW i \in 1..n, NEW j \in 1..n, Len(order[i]) < Len(order[j]), ~(i < j)
                PROVE  FALSE
    OBVIOUS
  <2>1. Len(order[i]) \in Nat /\ Len(order[j]) \in Nat
    <3>1. \A q \in D : Len(q) \in Nat
      BY <1>1, IsSeqOf DEF Table, Closed, IsSeq
    <3>. QED
      BY <1>3, <3>1
  <2>2. j < i
    BY <1>2, <2>1
  <2>3. Precedes(order[j], order[i])
    BY <1>4, <2>2 DEF Ordered
  <2>. QED
    BY <2>1, <2>3 DEF Precedes
<1>. QED
  BY <1>1, <1>2, <1>3, <1>4, <1>5, <1>7, <1>9, <1>10

(* The rows of a snapshot: of each path one, its parent that of the path   *)
(* with a method less.                                                     *)
LEMMA RowsOf ==
  ASSUME Table(allocations), NEW order, Ordered(order), NEW nodes, nodes = Rows(order)
  PROVE  /\ Nodes(nodes) /\ Len(nodes) = Len(order)
         /\ \A i \in 1..Len(nodes) :
              nodes[i].name = order[i] /\ nodes[i].size = allocations[order[i]].size
<1>. DEFINE parent(i) == IF Len(order[i]) > 1
                         THEN {j \in 1..(i - 1) : order[j] = Front(order[i])} ELSE {}
<1>1. /\ Len(order) \in Nat
      /\ \A i \in 1..Len(order) : order[i] \in DOMAIN allocations
      /\ \A i, j \in 1..Len(order) : order[i] = order[j] => i = j
      /\ \A q \in DOMAIN allocations : \E i \in 1..Len(order) : order[i] = q
      /\ \A i, j \in 1..Len(order) : Len(order[i]) < Len(order[j]) => i < j
  BY OrderOf
<1>. DEFINE row(i) == [id     |-> i - 1, name |-> order[i],
                       parent |-> IF parent(i) = {} THEN NoId ELSE FirstOf(parent(i)) - 1,
                       size   |-> allocations[order[i]].size,
                       count  |-> allocations[order[i]].count]
<1>2. nodes = [i \in 1..Len(order) |-> row(i)]
  BY Zenon DEF Rows
<1>3. ASSUME NEW i \in 1..Len(order)
      PROVE  /\ row(i).id = i - 1 /\ row(i).name = order[i]
             /\ row(i).parent = IF parent(i) = {} THEN NoId ELSE FirstOf(parent(i)) - 1
             /\ row(i).size = allocations[order[i]].size
  <2>. HIDE DEF parent
  <2>. QED
    OBVIOUS
<1>. HIDE DEF row
<1>4. /\ DOMAIN nodes = 1..Len(order) /\ Len(nodes) = Len(order)
      /\ nodes = [i \in 1..Len(order) |-> nodes[i]]
      /\ \A i \in 1..Len(order) :
           /\ nodes[i].id = i - 1 /\ nodes[i].name = order[i]
           /\ nodes[i].parent = IF parent(i) = {} THEN NoId ELSE FirstOf(parent(i)) - 1
           /\ nodes[i].size = allocations[order[i]].size
  <2>. HIDE DEF parent
  <2>1. \A i \in 1..Len(order) : nodes[i] = row(i)
    BY <1>2
  <2>2. DOMAIN nodes = 1..Len(order) /\ Len(nodes) = Len(order)
        /\ nodes = [i \in 1..Len(order) |-> nodes[i]]
    BY <1>1, <1>2
  <2>. QED
    BY <1>3, <2>1, <2>2
<1>5. IsSeq(nodes)
  <2>1. ToSet(nodes) = {nodes[i] : i \in 1..Len(order)}
    BY <1>4 DEF ToSet
  <2>2. nodes \in [1..Len(order) -> ToSet(nodes)]
    BY <1>4, <2>1
  <2>3. nodes \in Seq(ToSet(nodes))
    BY <1>1, <2>2
  <2>. QED
    BY <2>3 DEF IsSeq
<1>6. ASSUME NEW i \in 1..Len(order)
      PROVE  /\ nodes[i].size \in Nat /\ IsSeq(order[i]) /\ Len(order[i]) \in 1..DepthCap
             /\ IF Len(order[i]) = 1 THEN nodes[i].parent = NoId
                ELSE /\ nodes[i].parent \in 0..(i - 2)
                     /\ nodes[nodes[i].parent + 1].name = Front(order[i])
  <2>1. PICK r : r = order[i] /\ r \in DOMAIN allocations
    BY <1>1
  <2>2. /\ IsSeq(r) /\ Prefixes(r) \ {<<>>} \subseteq DOMAIN allocations
        /\ Len(r) \in 1..MaxFrames /\ allocations[r].size \in Nat
    BY <2>1 DEF Table, Closed
  <2>3. Len(r) \in 1..DepthCap
    <3>1. MaxFrames \in 1..DepthCap /\ DepthCap \in Nat
      BY NativeAssumption DEF DepthCap
    <3>. QED
      BY <2>2, <3>1
  <2>4. CASE Len(r) = 1
    <3>1. parent(i) = {}
      BY <2>1, <2>4
    <3>. QED
      BY <1>4, <2>1, <2>2, <2>3, <2>4, <3>1
  <2>5. CASE Len(r) # 1
    <3>1. DepthCap \in Nat
      BY DEF DepthCap
    <3>2. Len(r) > 1
      <4>1. PICK n : n = Len(r)
        OBVIOUS
      <4>2. n \in 1..DepthCap /\ n # 1
        BY <2>3, <2>5, <4>1
      <4>3. n > 1
        BY <3>1, <4>2
      <4>. QED
        BY <4>1, <4>3
    <3>3. Front(r) \in Prefixes(r) \ {<<>>} /\ Len(Front(r)) = Len(r) - 1 /\ Len(r) \in Nat
      BY <2>2, <3>2, FrontOf
    <3>4. PICK j \in 1..Len(order) : order[j] = Front(r)
      BY <1>1, <2>2, <3>3
    <3>5. j < i
      <4>1. Len(order[j]) < Len(order[i])
        BY <2>1, <3>3, <3>4
      <4>. QED
        BY <1>1, <4>1
    <3>6. j \in 1..(i - 1)
      BY <1>1, <3>5
    <3>7. \A k \in 1..(i - 1) : order[k] = Front(r) => k = j
      <4>1. \A k \in 1..(i - 1) : k \in 1..Len(order)
        BY <1>1
      <4>. QED
        BY <1>1, <3>4, <4>1
    <3>8. parent(i) = {j}
      BY <2>1, <3>2, <3>4, <3>6, <3>7
    <3>9. FirstOf({j}) = j
      <4>1. j <= j
        BY <1>1
      <4>. QED
        BY <4>1 DEF FirstOf
    <3>10. nodes[i].parent = j - 1
      <4>1. PICK here : here = parent(i)
        OBVIOUS
      <4>2. here = {j} /\ here # {}
        BY <3>8, <4>1
      <4>. HIDE DEF parent
      <4>3. nodes[i].parent = IF parent(i) = {} THEN NoId ELSE FirstOf(parent(i)) - 1
        BY <1>4, Zenon
      <4>4. FirstOf(here) = j /\ here # {}
        BY <3>9, <4>2
      <4>. QED
        BY <4>1, <4>3, <4>4
    <3>11. j - 1 \in 0..(i - 2) /\ (j - 1) + 1 = j
      BY <1>1, <3>6
    <3>12. nodes[j].name = Front(r)
      BY <1>4, <3>4
    <3>13. nodes[i].parent \in 0..(i - 2) /\ nodes[nodes[i].parent + 1].name = Front(r)
      BY <3>10, <3>11, <3>12
    <3>14. nodes[i].size \in Nat
      BY <1>4, <2>1, <2>2
    <3>. QED
      BY <2>1, <2>2, <2>3, <2>5, <3>13, <3>14
  <2>. QED
    BY <2>4, <2>5
<1>. HIDE DEF parent
<1>7. \A i \in 1..Len(nodes) : nodes[i].id = i - 1 /\ nodes[i].name = order[i] /\ i \in 1..Len(order)
  BY <1>4
<1>8. Nodes(nodes)
  <2>. SUFFICES ASSUME NEW i \in 1..Len(nodes)
                PROVE  /\ nodes[i].id = i - 1 /\ nodes[i].size \in Nat
                       /\ IsSeq(nodes[i].name) /\ Len(nodes[i].name) \in 1..DepthCap
                       /\ IF Len(nodes[i].name) = 1 THEN nodes[i].parent = NoId
                          ELSE /\ nodes[i].parent \in 0..(i - 2)
                               /\ nodes[nodes[i].parent + 1].name = Front(nodes[i].name)
    BY <1>5 DEF Nodes
  <2>1. PICK r : r = order[i] /\ r = nodes[i].name
    BY <1>7
  <2>2. /\ nodes[i].size \in Nat /\ IsSeq(r) /\ Len(r) \in 1..DepthCap
        /\ IF Len(r) = 1 THEN nodes[i].parent = NoId
           ELSE /\ nodes[i].parent \in 0..(i - 2)
                /\ nodes[nodes[i].parent + 1].name = Front(r)
    BY <1>6, <1>7, <2>1
  <2>. QED
    BY <1>7, <2>1, <2>2
<1>. QED
  BY <1>4, <1>7, <1>8

\* What the rows in places S add up to.
SizeOf(nodes, S) == MapThenSumSet(LAMBDA j : nodes[j].size, S)

LEMMA SizeOfTotal ==
  ASSUME NEW nodes, NEW S
  PROVE  SizeOf(nodes, S) = Total([j \in S |-> nodes[j].size], S)
BY DEF SizeOf, Total, SumsOf, Sums, Choice, MapThenSumSet, MapThenFoldSet

(* No row is smaller than those below it together. *)
LEMMA RowsCover ==
  ASSUME Table(allocations), NEW order, Ordered(order), NEW nodes, nodes = Rows(order),
         NEW i \in 1..Len(nodes)
  PROVE  SizeOf(nodes, {j \in 1..Len(nodes) : nodes[j].parent = nodes[i].id}) <= nodes[i].size
<1>1. PICK below : below = {j \in 1..Len(nodes) : nodes[j].parent = nodes[i].id}
  OBVIOUS
<1>2. /\ Nodes(nodes) /\ Len(nodes) = Len(order)
      /\ \A j \in 1..Len(nodes) :
           nodes[j].name = order[j] /\ nodes[j].size = allocations[order[j]].size
  BY RowsOf
<1>3. /\ Len(order) \in Nat
      /\ \A j \in 1..Len(order) : order[j] \in DOMAIN allocations
      /\ \A j, k \in 1..Len(order) : order[j] = order[k] => j = k
      /\ \A q \in DOMAIN allocations : \E j \in 1..Len(order) : order[j] = q
  BY OrderOf
<1>4. PICK T, q : T = Longer(DOMAIN allocations, q) /\ q = order[i]
  OBVIOUS
<1>5. PICK g : g = [j \in below |-> nodes[j].size]
  OBVIOUS
<1>6. SizeOf(nodes, below) = Total(g, below)
  BY <1>5, SizeOfTotal
<1>7. ASSUME NEW j \in 1..Len(nodes)
      PROVE  /\ j \in below <=> Len(order[j]) > 1 /\ Front(order[j]) = q
             /\ nodes[j].size \in Nat
  <2>1. /\ nodes[j].size \in Nat /\ nodes[i].id = i - 1 /\ Len(order[j]) \in 1..DepthCap
        /\ IF Len(order[j]) = 1 THEN nodes[j].parent = NoId
           ELSE /\ nodes[j].parent \in 0..(j - 2)
                /\ nodes[nodes[j].parent + 1].name = Front(order[j])
    <3>1. PICK r : r = nodes[j].name
      OBVIOUS
    <3>2. /\ nodes[j].size \in Nat /\ nodes[i].id = i - 1 /\ Len(r) \in 1..DepthCap
          /\ IF Len(r) = 1 THEN nodes[j].parent = NoId
             ELSE /\ nodes[j].parent \in 0..(j - 2)
                  /\ nodes[nodes[j].parent + 1].name = Front(r)
      BY <1>2, <3>1 DEF Nodes
    <3>3. r = order[j]
      BY <1>2, <3>1
    <3>. QED
      BY <3>2, <3>3
  <2>2. PICK p : p = nodes[j].parent
    OBVIOUS
  <2>3. CASE Len(order[j]) = 1
    <3>1. p = -1 /\ i - 1 # -1
      BY <1>2, <1>3, <2>1, <2>2, <2>3 DEF NoId
    <3>2. j \notin below
      BY <1>1, <2>1, <2>2, <3>1
    <3>. QED
      BY <2>1, <2>3, <3>2
  <2>4. CASE Len(order[j]) # 1
    <3>1. p \in 0..(j - 2) /\ nodes[p + 1].name = Front(order[j])
      BY <2>1, <2>2, <2>4
    <3>2. PICK k : k = p + 1
      OBVIOUS
    <3>3. k \in 1..Len(order) /\ p = k - 1
      BY <1>2, <1>3, <3>1, <3>2
    <3>4. order[k] = Front(order[j])
      BY <1>2, <3>1, <3>2, <3>3
    <3>5. p = i - 1 <=> order[k] = q
      BY <1>2, <1>3, <1>4, <3>3
    <3>6. Len(order[j]) > 1
      <4>1. DepthCap \in Nat
        BY DEF DepthCap
      <4>2. PICK n : n = Len(order[j])
        OBVIOUS
      <4>3. n \in 1..DepthCap /\ n # 1
        BY <2>1, <2>4, <4>2
      <4>4. n > 1
        BY <4>1, <4>3
      <4>. QED
        BY <4>2, <4>4
    <3>7. j \in below <=> p = i - 1
      BY <1>1, <2>1, <2>2
    <3>. QED
      BY <2>1, <3>4, <3>5, <3>6, <3>7
  <2>. QED
    BY <2>3, <2>4
<1>8. IsFiniteSet(below)
  <2>1. PICK n \in Nat : n = Len(nodes)
    BY <1>2, <1>3
  <2>2. IsFiniteSet(1..n)
    BY FS_Interval
  <2>3. below \in SUBSET (1..n)
    BY <1>1, <2>1
  <2>. QED
    BY <2>2, <2>3, FS_Subset
<1>9. PICK f : f = [j \in below |-> order[j]]
  OBVIOUS
<1>10. /\ f \in [below -> T]
       /\ \A x, y \in below : f[x] = f[y] => x = y
       /\ \A y \in T : \E x \in below : f[x] = y
  <2>1. \A j \in below : j \in 1..Len(nodes) /\ order[j] \in T
    BY <1>1, <1>2, <1>3, <1>4, <1>7 DEF Longer
  <2>2. \A y \in T : \E x \in below : order[x] = y
    <3>. SUFFICES ASSUME NEW y \in T PROVE \E x \in below : order[x] = y
      OBVIOUS
    <3>1. y \in DOMAIN allocations /\ Len(y) > 1 /\ Front(y) = q
      BY <1>4 DEF Longer
    <3>2. PICK x \in 1..Len(order) : order[x] = y
      BY <1>3, <3>1
    <3>. QED
      BY <1>2, <1>7, <3>1, <3>2
  <2>3. \A x, y \in below : order[x] = order[y] => x = y
    BY <1>1, <1>2, <1>3
  <2>. QED
    BY <1>9, <2>1, <2>2, <2>3
<1>11. PICK h : h = Sizes(allocations)
  OBVIOUS
<1>12. \A j \in below : g[j] \in Int /\ h[f[j]] = g[j]
  <2>. SUFFICES ASSUME NEW j \in below PROVE g[j] \in Int /\ h[f[j]] = g[j]
    OBVIOUS
  <2>1. j \in 1..Len(nodes) /\ order[j] \in DOMAIN allocations
    BY <1>1, <1>2, <1>3
  <2>2. h[order[j]] = allocations[order[j]].size
    BY <1>11, <2>1 DEF Sizes
  <2>3. f[j] = order[j] /\ g[j] = nodes[j].size
    BY <1>5, <1>9
  <2>4. nodes[j].size = allocations[order[j]].size /\ nodes[j].size \in Nat
    BY <1>2, <1>7, <2>1
  <2>. QED
    BY <2>2, <2>3, <2>4
<1>13. Total(h, T) = Total(g, below)
  <2>1. Renames(f, below, T)
    BY <1>10 DEF Renames
  <2>. QED
    BY <1>8, <1>12, <2>1, TotalRenamed
<1>14. Total(h, T) <= h[q]
  BY <1>2, <1>3, <1>4, <1>11 DEF Table, Covers
<1>15. h[q] = nodes[i].size
  BY <1>2, <1>3, <1>4, <1>11 DEF Sizes
<1>. QED
  BY <1>1, <1>6, <1>13, <1>14, <1>15

\* What ReplyIsTree says of one reply.
Tree(nodes) ==
  LET table  == AllocationRows(nodes)
      ids   == {nodes[i].id : i \in 1..Len(nodes)}
      shown == VisibleTree(table, ids)
      below(i) == {j \in 1..Len(nodes) : nodes[j].parent = nodes[i].id}
  IN /\ \A i \in 1..Len(nodes) :
          /\ table[i].depth = Len(nodes[i].name) - 1
          /\ nodes[i].parent # NoId =>
               nodes[nodes[i].parent + 1].name = Front(nodes[i].name)
          /\ SizeOf(nodes, below(i)) <= nodes[i].size
     /\ Len(shown) = Len(table) /\ ToSet(shown) = ToSet(table)

LEMMA SnapshotTree ==
  ASSUME Table(allocations), NEW order, Ordered(order)
  PROVE  Tree(Rows(order))
<1>1. PICK nodes : nodes = Rows(order)
  OBVIOUS
<1>2. PICK table : table = AllocationRows(nodes)
  OBVIOUS
<1>3. PICK shown : shown = VisibleTree(table, {nodes[i].id : i \in 1..Len(nodes)})
  OBVIOUS
<1>4. Nodes(nodes)
  BY <1>1, RowsOf
<1>5. /\ \A i \in 1..Len(nodes) :
           /\ table[i].depth = Len(nodes[i].name) - 1
           /\ nodes[i].parent # NoId =>
                nodes[nodes[i].parent + 1].name = Front(nodes[i].name)
      /\ Len(shown) = Len(table) /\ ToSet(shown) = ToSet(table)
  BY <1>2, <1>3, <1>4, NodesShown
<1>6. \A i \in 1..Len(nodes) :
        SizeOf(nodes, {j \in 1..Len(nodes) : nodes[j].parent = nodes[i].id}) <= nodes[i].size
  BY <1>1, RowsCover
<1>. QED
  BY <1>1, <1>2, <1>3, <1>5, <1>6 DEF Tree

LEMMA NoReplyTree == Tree(<<>>)
<1>1. PICK nodes : nodes = <<>>
  OBVIOUS
<1>2. Len(nodes) = 0 /\ IsSeq(nodes)
  BY <1>1 DEF IsSeq
<1>3. Nodes(nodes) /\ \A i \in 1..Len(nodes) : FALSE
  BY <1>2 DEF Nodes
<1>4. PICK table : table = AllocationRows(nodes)
  OBVIOUS
<1>5. PICK shown : shown = VisibleTree(table, {nodes[i].id : i \in 1..Len(nodes)})
  OBVIOUS
<1>6. Len(shown) = Len(table) /\ ToSet(shown) = ToSet(table)
  BY <1>3, <1>4, <1>5, NodesShown
<1>. QED
  BY <1>1, <1>3, <1>4, <1>5, <1>6 DEF Tree

TreesInv == DOMAIN reply = Connections /\ \A c \in Connections : Tree(reply[c])

LEMMA TreesKeep ==
  ASSUME TableInv, TreesInv, [DataNext]_<<vars, javaVars, met>>
  PROVE  TreesInv'
<1>1. CASE UNCHANGED reply
  BY <1>1 DEF TreesInv
<1>2. ASSUME NEW c \in Connections, Copy(c)  PROVE TreesInv'
  <2>1. PICK order : Ordered(order) /\ reply' = [reply EXCEPT ![c] = Rows(order)]
    BY <1>2 DEF Copy, Ordered
  <2>2. Tree(Rows(order))
    BY <2>1, SnapshotTree DEF TableInv
  <2>. QED
    BY <2>1, <2>2 DEF TreesInv
<1>3. ASSUME NEW t \in Threads, ThreadStep(t)  PROVE UNCHANGED reply
  BY <1>3 DEF ThreadStep, Allocate, Merge, memory, nativeVars
<1>4. ASSUME NEW c \in Connections, AnyStep(c), ~Copy(c)  PROVE UNCHANGED reply
  <2>1. CASE DataStep(c) \/ Enter(c) \/ Exit(c) \/ Add(c) \/ Zero(c)
    BY <2>1 DEF DataStep, Enter, Exit, Add, Zero, memory, nativeVars
  <2>2. CASE Lock(c) \/ Unlock(c) \/ Record(c) \/ Clear(c) \/ Freeze(c) \/ Thaw(c)
    BY <2>2 DEF Lock, Unlock, Record, Clear, Freeze, Thaw, memory
  <2>3. CASE Forget(c) \/ Average(c) \/ Divide(c)
    BY <2>3 DEF Forget, Average, Divide, memory
  <2>. QED
    BY <1>4, <2>1, <2>2, <2>3 DEF AnyStep, QuietStep
<1>5. CASE DataNext
  <2>1. CASE (\E o \in Objects : Collect(o)) /\ UNCHANGED nativeVars
    BY <1>1, <2>1 DEF nativeVars, memory
  <2>. QED
    BY <1>1, <1>2, <1>3, <1>4, <1>5, <2>1, StepCases
<1>6. CASE UNCHANGED <<vars, javaVars, met>>
  BY <1>1, <1>6 DEF vars, memory
<1>. QED
  BY <1>5, <1>6

(* Whatever is merged or cleared while a snapshot is taken, its rows are a *)
(* tree as the TUI reads it: for any number of threads and connections,    *)
(* any stacks and sizes, and any order the sort leaves equal paths in.     *)
THEOREM ReplyIsTreeHolds == DataSpec => []ReplyIsTree
<1>1. DataInit => TreesInv
  BY NoReplyTree DEF DataInit, Init, TreesInv
<1>2. TableInv /\ TreesInv /\ [DataNext]_<<vars, javaVars, met>> => TreesInv'
  BY TreesKeep
<1>3. TreesInv => ReplyIsTree
  BY DEF TreesInv, ReplyIsTree, Tree, SizeOf
<1>. QED
  BY <1>1, <1>2, <1>3, TableHolds, PTL DEF DataSpec
=============================================================================
