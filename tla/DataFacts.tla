----------------------------- MODULE DataFacts -----------------------------
(***************************************************************************)
(* Facts about data that the proofs of several modules rest on: sums over  *)
(* finite sets, what threads, methods or paths hold together; lists made   *)
(* of lists; rows that are picked, sorted or drawn as a tree.  What these  *)
(* are made of is recursive, so the facts are inductions, each stated as   *)
(* "there is no least counterexample".                                     *)
(***************************************************************************)
EXTENDS HotSpotTables, FiniteSetTheorems, SequenceTheorems, WellFoundedInduction, TLAPS

(* A set of natural numbers that is not empty has a least element. *)
LEMMA LeastElement ==
  ASSUME NEW T \in SUBSET Nat, T # {}
  PROVE  \E n \in T : \A k \in T : n <= k
<1>1. PICK n \in T : \A k \in T : ~ (<<k, n>> \in OpToRel(<, Nat))
  BY NatLessThanWellFounded, WFMin
<1>2. \A k \in T : k < n => <<k, n>> \in OpToRel(<, Nat)
  <2> SUFFICES ASSUME NEW k \in T, k < n PROVE <<k, n>> \in OpToRel(<, Nat)
    OBVIOUS
  <2>1. <<k, n>> \in Nat \X Nat /\ <<k, n>>[1] = k /\ <<k, n>>[2] = n
    OBVIOUS
  <2>2. <<k, n>> \in {ss \in Nat \X Nat : ss[1] < ss[2]}
    BY <2>1
  <2> QED BY <2>2 DEF OpToRel
<1>3. \A k \in T : ~ (k < n)
  BY <1>1, <1>2
<1>4. \A k \in T : n <= k
  BY <1>3
<1> QED BY <1>4

(* Below the least element there is none. *)
LEMMA Smaller ==
  ASSUME NEW T, NEW n \in Nat, \A k \in T : n <= k, n - 1 \in Nat
  PROVE  n - 1 \notin T
OBVIOUS

Choice(s) == CHOOSE x \in s : TRUE

\* it is the sum of g over the members of sets, a set of subsets of S.
Sums(it, g, sets) ==
  it = [s \in sets |-> IF s = {} THEN 0 ELSE g[Choice(s)] + it[s \ {Choice(s)}]]

SumsOf(g, S) == CHOOSE it : Sums(it, g, SUBSET S)

Total(g, S) == SumsOf(g, S)[S]

Small(S, n) == {s \in SUBSET S : Cardinality(s) <= n}

(* A nonempty subset is one element larger than what its choice leaves. *)
LEMMA ChoiceLeaves ==
  ASSUME NEW S, IsFiniteSet(S), NEW s \in SUBSET S, s # {}
  PROVE  /\ Choice(s) \in s
         /\ s \ {Choice(s)} \in SUBSET S
         /\ Cardinality(s) \in Nat
         /\ Cardinality(s \ {Choice(s)}) = Cardinality(s) - 1
<1>1. Choice(s) \in s
  BY DEF Choice
<1>2. IsFiniteSet(s)
  BY FS_Subset
<1>3. Cardinality(s) \in Nat
  BY <1>2, FS_CardinalityType
<1>4. Cardinality(s \ {Choice(s)}) = Cardinality(s) - 1
  BY <1>1, <1>2, FS_RemoveElement
<1> QED
  BY <1>1, <1>3, <1>4

(* Sums exist, for sets as large as one likes. *)
LEMMA SmallSums ==
  ASSUME NEW S, IsFiniteSet(S), NEW g, NEW n \in Nat
  PROVE  \E it : Sums(it, g, Small(S, n))
<1> DEFINE Missing == {k \in Nat : ~ \E it : Sums(it, g, Small(S, k))}
<1> SUFFICES ASSUME Missing # {} PROVE FALSE
  OBVIOUS
<1>1. PICK k \in Missing : \A j \in Missing : k <= j
  <2>1. Missing \in SUBSET Nat
    OBVIOUS
  <2> QED BY <2>1, LeastElement
<1>2. CASE k = 0
  <2>1. \A s \in Small(S, 0) : s = {}
    <3> SUFFICES ASSUME NEW s \in Small(S, 0) PROVE s = {}
      OBVIOUS
    <3>1. IsFiniteSet(s) /\ Cardinality(s) <= 0
      BY FS_Subset DEF Small
    <3>2. Cardinality(s) \in Nat
      BY <3>1, FS_CardinalityType
    <3>3. Cardinality(s) = 0
      BY <3>1, <3>2
    <3> QED BY <3>1, <3>3, FS_EmptySet
  <2>2. PICK it : it = [s \in Small(S, 0) |-> 0]
    OBVIOUS
  <2>3. it = [s \in Small(S, 0) |-> IF s = {} THEN 0 ELSE g[Choice(s)] + it[s \ {Choice(s)}]]
    BY <2>1, <2>2
  <2> QED BY <1>1, <1>2, <2>3 DEF Sums
<1>3. CASE k # 0
  <2>1. k \in Nat /\ k - 1 \in Nat
    BY <1>1, <1>3
  <2>2. k - 1 \notin Missing
    BY <1>1, <2>1
  <2>3. PICK it : Sums(it, g, Small(S, k - 1))
    BY <2>1, <2>2
  <2>4. PICK jt : jt = [s \in Small(S, k) |->
                          IF s = {} THEN 0 ELSE g[Choice(s)] + it[s \ {Choice(s)}]]
    OBVIOUS
  <2>5. \A u \in Small(S, k - 1) : u \in Small(S, k) /\ jt[u] = it[u]
    <3> SUFFICES ASSUME NEW u \in Small(S, k - 1) PROVE u \in Small(S, k) /\ jt[u] = it[u]
      OBVIOUS
    <3>1. u \in SUBSET S /\ Cardinality(u) <= k - 1
      BY DEF Small
    <3>2. Cardinality(u) \in Nat
      BY <3>1, FS_Subset, FS_CardinalityType
    <3>3. u \in Small(S, k)
      BY <3>1, <3>2, <2>1 DEF Small
    <3>4. it[u] = IF u = {} THEN 0 ELSE g[Choice(u)] + it[u \ {Choice(u)}]
      BY <2>3 DEF Sums
    <3> QED BY <2>4, <3>3, <3>4
  <2>6. \A s \in Small(S, k) : s # {} => jt[s \ {Choice(s)}] = it[s \ {Choice(s)}]
    <3> SUFFICES ASSUME NEW s \in Small(S, k), s # {}
                 PROVE  s \ {Choice(s)} \in Small(S, k - 1)
      BY <2>5
    <3>1. s \in SUBSET S /\ Cardinality(s) <= k
      BY DEF Small
    <3> QED BY <3>1, <2>1, ChoiceLeaves DEF Small
  <2>7. jt = [s \in Small(S, k) |-> IF s = {} THEN 0 ELSE g[Choice(s)] + jt[s \ {Choice(s)}]]
    BY <2>4, <2>6
  <2> QED BY <1>1, <2>7 DEF Sums
<1> QED BY <1>2, <1>3

(* Sums over the subsets of a finite set exist. *)
LEMMA SumsExist ==
  ASSUME NEW S, IsFiniteSet(S), NEW g
  PROVE  Sums(SumsOf(g, S), g, SUBSET S)
<1>1. Cardinality(S) \in Nat
  BY FS_CardinalityType
<1>2. Small(S, Cardinality(S)) = SUBSET S
  BY FS_Subset DEF Small
<1>3. \E it : Sums(it, g, SUBSET S)
  BY <1>1, <1>2, SmallSums
<1> QED BY <1>3 DEF SumsOf

(* The sum over one more element. *)
LEMMA SumStep ==
  ASSUME NEW S, IsFiniteSet(S), NEW g, NEW s \in SUBSET S
  PROVE  SumsOf(g, S)[s] =
           IF s = {} THEN 0 ELSE g[Choice(s)] + SumsOf(g, S)[s \ {Choice(s)}]
<1> DEFINE it == SumsOf(g, S)
<1>1. it = [u \in SUBSET S |-> IF u = {} THEN 0 ELSE g[Choice(u)] + it[u \ {Choice(u)}]]
  BY SumsExist DEF Sums
<1> HIDE DEF it
<1>2. it[s] = IF s = {} THEN 0 ELSE g[Choice(s)] + it[s \ {Choice(s)}]
  BY <1>1
<1> QED BY <1>2 DEF it

(* A sum of integers is an integer. *)
LEMMA SumType ==
  ASSUME NEW S, IsFiniteSet(S), NEW g, \A x \in S : g[x] \in Int, NEW s \in SUBSET S
  PROVE  SumsOf(g, S)[s] \in Int
<1> DEFINE Wrong == {n \in Nat : \E u \in SUBSET S : Cardinality(u) = n /\ SumsOf(g, S)[u] \notin Int}
<1>1. Wrong = {}
  <2> SUFFICES ASSUME Wrong # {} PROVE FALSE
    OBVIOUS
  <2>1. PICK n \in Wrong : \A k \in Wrong : n <= k
    <3>1. Wrong \in SUBSET Nat
      OBVIOUS
    <3> QED BY <3>1, LeastElement
  <2>2. PICK u \in SUBSET S : Cardinality(u) = n /\ SumsOf(g, S)[u] \notin Int
    BY <2>1
  <2>3. u # {}
    <3>1. u = {} => SumsOf(g, S)[u] = 0
      BY SumStep
    <3> QED BY <3>1, <2>2
  <2>4. /\ Choice(u) \in u /\ u \ {Choice(u)} \in SUBSET S
        /\ Cardinality(u) \in Nat
        /\ Cardinality(u \ {Choice(u)}) = Cardinality(u) - 1
    BY <2>3, ChoiceLeaves
  <2>5. Cardinality(u \ {Choice(u)}) \in Nat
    BY <2>4, FS_Subset, FS_CardinalityType
  <2>6. SumsOf(g, S)[u \ {Choice(u)}] \in Int
    <3>1. Cardinality(u \ {Choice(u)}) \notin Wrong
      BY <2>1, <2>2, <2>4, <2>5, Smaller, ZenonT(40)
    <3> QED BY <3>1, <2>4, <2>5
  <2>7. g[Choice(u)] \in Int
    BY <2>4
  <2>8. SumsOf(g, S)[u] = g[Choice(u)] + SumsOf(g, S)[u \ {Choice(u)}]
    BY <2>3, SumStep
  <2> QED BY <2>2, <2>6, <2>7, <2>8
<1>2. Cardinality(s) \in Nat
  BY FS_Subset, FS_CardinalityType
<1> QED BY <1>1, <1>2

(* Any element may be taken out first. *)
LEMMA SumOut ==
  ASSUME NEW S, IsFiniteSet(S), NEW g, \A b \in S : g[b] \in Int, NEW s \in SUBSET S, NEW x \in s
  PROVE  SumsOf(g, S)[s] = g[x] + SumsOf(g, S)[s \ {x}]
<1> DEFINE it == SumsOf(g, S)
<1> DEFINE Wrong == {n \in Nat : \E u \in SUBSET S : \E y \in u :
                       Cardinality(u) = n /\ it[u] # g[y] + it[u \ {y}]}
<1>1. Wrong = {}
  <2> SUFFICES ASSUME Wrong # {} PROVE FALSE
    OBVIOUS
  <2>1. PICK n \in Wrong : \A k \in Wrong : n <= k
    <3>1. Wrong \in SUBSET Nat
      OBVIOUS
    <3> QED BY <3>1, LeastElement
  <2>2. PICK u \in SUBSET S : \E y \in u : Cardinality(u) = n /\ it[u] # g[y] + it[u \ {y}]
    BY <2>1
  <2>3. PICK y \in u : Cardinality(u) = n /\ it[u] # g[y] + it[u \ {y}]
    BY <2>2
  <2> DEFINE c == Choice(u)
  <2>4. c \in u /\ u \ {c} \in SUBSET S /\ Cardinality(u) \in Nat
        /\ Cardinality(u \ {c}) = Cardinality(u) - 1
    BY <2>3, ChoiceLeaves
  <2>5. it[u] = g[c] + it[u \ {c}]
    BY <2>3, SumStep, ZenonT(40)
  <2>6. y # c
    BY <2>3, <2>5
  <2>7. IsFiniteSet(u)
    BY FS_Subset
  <2>8. Cardinality(u \ {y}) = Cardinality(u) - 1
    BY <2>7, FS_RemoveElement
  <2>9. Cardinality(u \ {c}) \in Nat /\ Cardinality(u \ {c}) \notin Wrong
    <3>1. Cardinality(u \ {c}) \in Nat
      BY <2>4, FS_Subset, FS_CardinalityType
    <3>2. Cardinality(u \ {c}) = n - 1
      BY <2>3, <2>4
    <3>3. n - 1 \notin Wrong
      BY <3>1, <3>2, <2>1, Smaller
    <3> QED BY <3>1, <3>2, <3>3
  <2>10. it[u \ {c}] = g[y] + it[(u \ {c}) \ {y}]
    BY <2>9, <2>4, <2>6
  <2>11. Cardinality(u \ {y}) \in Nat /\ Cardinality(u \ {y}) \notin Wrong
    <3>1. Cardinality(u \ {y}) = Cardinality(u \ {c})
      BY <2>8, <2>4
    <3> QED BY <3>1, <2>9
  <2>12. it[u \ {y}] = g[c] + it[(u \ {y}) \ {c}]
    BY <2>11, <2>4, <2>6
  <2>13. (u \ {y}) \ {c} = (u \ {c}) \ {y}
    OBVIOUS
  <2>14. it[(u \ {c}) \ {y}] \in Int
    BY SumType
  <2>15. g[y] \in Int /\ g[c] \in Int
    BY <2>4
  <2> DEFINE rest == it[(u \ {c}) \ {y}]
  <2>16. it[u \ {y}] = g[c] + rest
    BY <2>12, <2>13
  <2>17. it[u] = g[c] + (g[y] + rest)
    BY <2>5, <2>10
  <2>18. g[c] + (g[y] + rest) = g[y] + (g[c] + rest)
    <3> HIDE DEF rest, it, c
    <3>1. g[y] \in Int /\ g[c] \in Int /\ rest \in Int
      BY <2>14, <2>15 DEF rest
    <3> QED BY <3>1
  <2> QED BY <2>3, <2>16, <2>17, <2>18
<1>2. Cardinality(s) \in Nat
  BY FS_Subset, FS_CardinalityType
<1> QED BY <1>1, <1>2

(* The sum depends on the elements summed only. *)
LEMMA SumSame ==
  ASSUME NEW S, IsFiniteSet(S), NEW g, NEW h, NEW s \in SUBSET S, \A x \in s : g[x] = h[x]
  PROVE  SumsOf(g, S)[s] = SumsOf(h, S)[s]
<1> DEFINE Wrong == {n \in Nat : \E u \in SUBSET S :
                       /\ Cardinality(u) = n /\ \A x \in u : g[x] = h[x]
                       /\ SumsOf(g, S)[u] # SumsOf(h, S)[u]}
<1>1. Wrong = {}
  <2> SUFFICES ASSUME Wrong # {} PROVE FALSE
    OBVIOUS
  <2>1. PICK n \in Wrong : \A k \in Wrong : n <= k
    <3>1. Wrong \in SUBSET Nat
      OBVIOUS
    <3> QED BY <3>1, LeastElement
  <2>2. PICK u \in SUBSET S :
           /\ Cardinality(u) = n /\ \A x \in u : g[x] = h[x]
           /\ SumsOf(g, S)[u] # SumsOf(h, S)[u]
    BY <2>1
  <2>3. u # {}
    BY <2>2, SumStep, ZenonT(40)
  <2>4. /\ Choice(u) \in u /\ u \ {Choice(u)} \in SUBSET S
        /\ Cardinality(u) \in Nat
        /\ Cardinality(u \ {Choice(u)}) = Cardinality(u) - 1
    BY <2>3, ChoiceLeaves
  <2>5. Cardinality(u \ {Choice(u)}) \in Nat /\ Cardinality(u \ {Choice(u)}) \notin Wrong
    <3>1. Cardinality(u \ {Choice(u)}) \in Nat
      BY <2>4, FS_Subset, FS_CardinalityType
    <3>2. Cardinality(u \ {Choice(u)}) \notin Wrong
      <4>1. Cardinality(u \ {Choice(u)}) = n - 1 /\ n \in Nat /\ \A k \in Wrong : n <= k
        BY <2>1, <2>2, <2>4
      <4> HIDE DEF Wrong
      <4> QED BY <3>1, <4>1, Smaller
    <3> QED BY <3>1, <3>2
  <2>6. SumsOf(g, S)[u \ {Choice(u)}] = SumsOf(h, S)[u \ {Choice(u)}]
    BY <2>2, <2>4, <2>5
  <2>7. g[Choice(u)] = h[Choice(u)]
    BY <2>2, <2>4
  <2>8. SumsOf(g, S)[u] = g[Choice(u)] + SumsOf(g, S)[u \ {Choice(u)}]
    BY <2>3, SumStep
  <2>9. SumsOf(h, S)[u] = h[Choice(u)] + SumsOf(h, S)[u \ {Choice(u)}]
    BY <2>3, SumStep
  <2> QED BY <2>2, <2>6, <2>7, <2>8, <2>9
<1>2. Cardinality(s) \in Nat
  BY FS_Subset, FS_CardinalityType
<1> QED BY <1>1, <1>2

(* What one summand changes by, the total changes by. *)
LEMMA TotalChange ==
  ASSUME NEW S, IsFiniteSet(S), NEW g, NEW h, NEW a \in S,
         \A b \in S : g[b] \in Int /\ h[b] \in Int,
         \A b \in S : b # a => h[b] = g[b]
  PROVE  /\ Total(g, S) \in Int
         /\ Total(h, S) \in Int
         /\ Total(h, S) - h[a] = Total(g, S) - g[a]
<1>1. Total(g, S) \in Int /\ Total(h, S) \in Int
  BY SumType DEF Total
<1>2. Total(g, S) = g[a] + SumsOf(g, S)[S \ {a}]
  BY SumOut DEF Total
<1>3. Total(h, S) = h[a] + SumsOf(h, S)[S \ {a}]
  BY SumOut DEF Total
<1>4. SumsOf(h, S)[S \ {a}] = SumsOf(g, S)[S \ {a}]
  BY SumSame
<1>5. SumsOf(g, S)[S \ {a}] \in Int /\ g[a] \in Int /\ h[a] \in Int
  BY SumType
<1> QED BY <1>1, <1>2, <1>3, <1>4, <1>5

LEMMA TotalMoves ==
  ASSUME NEW S, IsFiniteSet(S), NEW a \in S, NEW g, NEW h,
         \A b \in S : g[b] \in Int /\ h[b] \in Int,
         \A b \in S : b # a => h[b] = g[b]
  PROVE  Total(h, S) - h[a] = Total(g, S) - g[a]
BY TotalChange

(* Equal summands, equal totals. *)
LEMMA TotalSame ==
  ASSUME NEW S, IsFiniteSet(S), NEW g, NEW h, \A a \in S : g[a] = h[a]
  PROVE  Total(g, S) = Total(h, S)
BY SumSame DEF Total

(* A sum over a part is the same, whatever it is a part of. *)
LEMMA SumOfPart ==
  ASSUME NEW S, IsFiniteSet(S), NEW g, NEW T \in SUBSET S
  PROVE  SumsOf(g, S)[T] = Total(g, T)
<1> DEFINE Wrong == {n \in Nat : \E u \in SUBSET T :
                       Cardinality(u) = n /\ SumsOf(g, S)[u] # SumsOf(g, T)[u]}
<1>f. IsFiniteSet(T)
  BY FS_Subset
<1>1. Wrong = {}
  <2> SUFFICES ASSUME Wrong # {} PROVE FALSE
    OBVIOUS
  <2>1. PICK n \in Wrong : \A k \in Wrong : n <= k
    <3>1. Wrong \in SUBSET Nat
      OBVIOUS
    <3> QED BY <3>1, LeastElement
  <2>2. PICK u \in SUBSET T : Cardinality(u) = n /\ SumsOf(g, S)[u] # SumsOf(g, T)[u]
    BY <2>1
  <2>3. u \in SUBSET S
    OBVIOUS
  <2>4. u # {}
    BY <1>f, <2>2, <2>3, SumStep, ZenonT(40)
  <2>5. /\ Choice(u) \in u /\ u \ {Choice(u)} \in SUBSET T
        /\ Cardinality(u) \in Nat
        /\ Cardinality(u \ {Choice(u)}) = Cardinality(u) - 1
    BY <1>f, <2>4, ChoiceLeaves
  <2>6. Cardinality(u \ {Choice(u)}) \in Nat /\ Cardinality(u \ {Choice(u)}) \notin Wrong
    <3>1. Cardinality(u \ {Choice(u)}) \in Nat
      BY <1>f, <2>5, FS_Subset, FS_CardinalityType
    <3>2. Cardinality(u \ {Choice(u)}) \notin Wrong
      BY <3>1, <2>1, <2>2, <2>5, Smaller
    <3> QED BY <3>1, <3>2
  <2>7. SumsOf(g, S)[u \ {Choice(u)}] = SumsOf(g, T)[u \ {Choice(u)}]
    BY <2>5, <2>6
  <2>8. SumsOf(g, S)[u] = g[Choice(u)] + SumsOf(g, S)[u \ {Choice(u)}]
    BY <2>3, <2>4, SumStep
  <2>9. SumsOf(g, T)[u] = g[Choice(u)] + SumsOf(g, T)[u \ {Choice(u)}]
    BY <1>f, <2>4, SumStep
  <2> QED BY <2>2, <2>7, <2>8, <2>9
<1>2. Cardinality(T) \in Nat
  BY <1>f, FS_CardinalityType
<1> QED BY <1>1, <1>2 DEF Total

(* Nothing adds up to zero. *)
LEMMA TotalEmpty ==
  ASSUME NEW g
  PROVE  Total(g, {}) = 0
BY SumStep, FS_EmptySet DEF Total

(* One more summand. *)
LEMMA TotalAdd ==
  ASSUME NEW S, IsFiniteSet(S), NEW x, x \notin S, NEW g, \A b \in S \cup {x} : g[b] \in Int
  PROVE  /\ Total(g, S) \in Int
         /\ Total(g, S \cup {x}) = g[x] + Total(g, S)
<1>1. IsFiniteSet(S \cup {x})
  BY FS_AddElement
<1>2. SumsOf(g, S \cup {x})[S \cup {x}] = g[x] + SumsOf(g, S \cup {x})[(S \cup {x}) \ {x}]
  BY <1>1, SumOut
<1>3. (S \cup {x}) \ {x} = S
  OBVIOUS
<1>4. SumsOf(g, S \cup {x})[S] = Total(g, S)
  BY <1>1, SumOfPart
<1>5. Total(g, S) \in Int
  BY SumType DEF Total
<1> QED BY <1>2, <1>3, <1>4, <1>5 DEF Total

(* One summand less. *)
LEMMA TotalRemove ==
  ASSUME NEW S, IsFiniteSet(S), NEW x \in S, NEW g, \A b \in S : g[b] \in Int
  PROVE  /\ Total(g, S \ {x}) \in Int
         /\ Total(g, S) = g[x] + Total(g, S \ {x})
<1>1. IsFiniteSet(S \ {x}) /\ x \notin S \ {x} /\ S = (S \ {x}) \cup {x}
  BY FS_Subset
<1> QED BY <1>1, TotalAdd

(* Zeros add up to zero. *)
LEMMA TotalZero ==
  ASSUME NEW S, IsFiniteSet(S), NEW g, \A x \in S : g[x] = 0
  PROVE  Total(g, S) = 0
<1> DEFINE Wrong == {n \in Nat : \E u \in SUBSET S : Cardinality(u) = n /\ SumsOf(g, S)[u] # 0}
<1>1. Wrong = {}
  <2> SUFFICES ASSUME Wrong # {} PROVE FALSE
    OBVIOUS
  <2>1. PICK n \in Wrong : \A k \in Wrong : n <= k
    <3>1. Wrong \in SUBSET Nat
      OBVIOUS
    <3> QED BY <3>1, LeastElement
  <2>2. PICK u \in SUBSET S : Cardinality(u) = n /\ SumsOf(g, S)[u] # 0
    BY <2>1
  <2>3. u # {}
    BY <2>2, SumStep
  <2>4. /\ Choice(u) \in u /\ u \ {Choice(u)} \in SUBSET S
        /\ Cardinality(u) \in Nat
        /\ Cardinality(u \ {Choice(u)}) = Cardinality(u) - 1
    BY <2>3, ChoiceLeaves
  <2>5. Cardinality(u \ {Choice(u)}) \in Nat /\ Cardinality(u \ {Choice(u)}) \notin Wrong
    <3>1. Cardinality(u \ {Choice(u)}) \in Nat
      BY <2>4, FS_Subset, FS_CardinalityType
    <3>2. Cardinality(u \ {Choice(u)}) \notin Wrong
      <4>1. Cardinality(u \ {Choice(u)}) = n - 1 /\ n \in Nat /\ \A k \in Wrong : n <= k
        BY <2>1, <2>2, <2>4
      <4> HIDE DEF Wrong
      <4> QED BY <3>1, <4>1, Smaller
    <3> QED BY <3>1, <3>2
  <2>6. SumsOf(g, S)[u \ {Choice(u)}] = 0 /\ g[Choice(u)] = 0
    BY <2>4, <2>5
  <2>7. SumsOf(g, S)[u] = g[Choice(u)] + SumsOf(g, S)[u \ {Choice(u)}]
    BY <2>3, SumStep
  <2> QED BY <2>2, <2>6, <2>7
<1>2. Cardinality(S) \in Nat
  BY FS_CardinalityType
<1> QED BY <1>1, <1>2 DEF Total

(* Natural numbers add up to one. *)
LEMMA TotalNat ==
  ASSUME NEW S, IsFiniteSet(S), NEW g, \A x \in S : g[x] \in Nat
  PROVE  Total(g, S) \in Nat
<1> DEFINE Wrong == {n \in Nat : \E u \in SUBSET S : Cardinality(u) = n /\ SumsOf(g, S)[u] \notin Nat}
<1>1. Wrong = {}
  <2> SUFFICES ASSUME Wrong # {} PROVE FALSE
    OBVIOUS
  <2>1. PICK n \in Wrong : \A k \in Wrong : n <= k
    <3>1. Wrong \in SUBSET Nat
      OBVIOUS
    <3> QED BY <3>1, LeastElement
  <2>2. PICK u \in SUBSET S : Cardinality(u) = n /\ SumsOf(g, S)[u] \notin Nat
    BY <2>1
  <2>3. u # {}
    <3>1. u = {} => SumsOf(g, S)[u] = 0
      BY SumStep
    <3> QED BY <3>1, <2>2
  <2>4. /\ Choice(u) \in u /\ u \ {Choice(u)} \in SUBSET S
        /\ Cardinality(u) \in Nat
        /\ Cardinality(u \ {Choice(u)}) = Cardinality(u) - 1
    BY <2>3, ChoiceLeaves
  <2>5. Cardinality(u \ {Choice(u)}) \in Nat /\ Cardinality(u \ {Choice(u)}) \notin Wrong
    <3>1. Cardinality(u \ {Choice(u)}) \in Nat
      BY <2>4, FS_Subset, FS_CardinalityType
    <3>2. Cardinality(u \ {Choice(u)}) \notin Wrong
      <4>1. Cardinality(u \ {Choice(u)}) = n - 1 /\ n \in Nat /\ \A k \in Wrong : n <= k
        BY <2>1, <2>2, <2>4
      <4> HIDE DEF Wrong
      <4> QED BY <3>1, <4>1, Smaller
    <3> QED BY <3>1, <3>2
  <2>6. SumsOf(g, S)[u \ {Choice(u)}] \in Nat /\ g[Choice(u)] \in Nat
    BY <2>4, <2>5
  <2>7. SumsOf(g, S)[u] = g[Choice(u)] + SumsOf(g, S)[u \ {Choice(u)}]
    BY <2>3, SumStep
  <2> QED BY <2>2, <2>6, <2>7
<1>2. Cardinality(S) \in Nat
  BY FS_CardinalityType
<1> QED BY <1>1, <1>2 DEF Total
----------------------------------------------------------------------------
(* Lists of lists.                                                         *)

\* it[i] is what the first i of the sequences make together.
Flattened(it, seqs, n) ==
  it = [i \in 1..n |-> IF i = 1 THEN seqs[i] ELSE it[i - 1] \o seqs[i]]

LEMMA FlattenedExists ==
  ASSUME NEW seqs, NEW n \in Nat
  PROVE  \E it : Flattened(it, seqs, n)
<1> DEFINE Missing == {k \in Nat : ~ \E it : Flattened(it, seqs, k)}
<1>. SUFFICES ASSUME Missing # {} PROVE FALSE
  OBVIOUS
<1>1. PICK k \in Missing : \A j \in Missing : k <= j
  <2>1. Missing \in SUBSET Nat
    OBVIOUS
  <2>. QED
    BY <2>1, LeastElement
<1>2. CASE k = 0
  <2>1. PICK it : it = [i \in 1..0 |-> 0]
    OBVIOUS
  <2>2. it = [i \in 1..0 |-> IF i = 1 THEN seqs[i] ELSE it[i - 1] \o seqs[i]]
    BY <2>1
  <2>. QED
    BY <1>1, <1>2, <2>2 DEF Flattened
<1>3. CASE k # 0
  <2>1. k \in Nat /\ k - 1 \in Nat
    BY <1>1, <1>3
  <2>2. k - 1 \notin Missing
    BY <1>1, <2>1, Smaller
  <2>3. PICK it : it = [i \in 1..(k - 1) |-> IF i = 1 THEN seqs[i] ELSE it[i - 1] \o seqs[i]]
    BY <2>1, <2>2 DEF Flattened
  <2>4. PICK jt : jt = [i \in 1..k |-> IF i = 1 THEN seqs[i] ELSE it[i - 1] \o seqs[i]]
    OBVIOUS
  <2>5. \A i \in 1..(k - 1) : i \in 1..k /\ jt[i] = it[i]
    <3>. SUFFICES ASSUME NEW i \in 1..(k - 1) PROVE i \in 1..k /\ jt[i] = it[i]
      OBVIOUS
    <3>1. i \in 1..k
      BY <2>1
    <3>2. it[i] = IF i = 1 THEN seqs[i] ELSE it[i - 1] \o seqs[i]
      BY <2>3
    <3>3. jt[i] = IF i = 1 THEN seqs[i] ELSE it[i - 1] \o seqs[i]
      BY <2>4, <3>1
    <3>. QED
      BY <3>1, <3>2, <3>3
  <2>6. \A i \in 1..k : i # 1 => i - 1 \in 1..(k - 1)
    BY <2>1
  <2>7. jt = [i \in 1..k |-> IF i = 1 THEN seqs[i] ELSE jt[i - 1] \o seqs[i]]
    BY <2>4, <2>5, <2>6
  <2>. QED
    BY <1>1, <2>7 DEF Flattened
<1>. QED
  BY <1>2, <1>3

(* What holds of the first sequence and is kept by each that is put behind *)
(* holds of all together.                                                  *)
LEMMA FlattenIn ==
  ASSUME NEW S, NEW seqs \in Seq(S), seqs # <<>>, NEW G,
         seqs[1] \in G[1],
         \A i \in 1..(Len(seqs) - 1) : \A x \in G[i] : x \o seqs[i + 1] \in G[i + 1]
  PROVE  FlattenSeq(seqs) \in G[Len(seqs)]
<1> DEFINE n == Len(seqs)
           it == CHOOSE it : Flattened(it, seqs, n)
           Wrong == {i \in 1..n : it[i] \notin G[i]}
<1>1. n \in Nat \ {0}
  BY EmptySeq, LenProperties
<1>2. Flattened(it, seqs, n)
  BY <1>1, FlattenedExists
<1>3. FlattenSeq(seqs) = it[n]
  BY <1>1 DEF FlattenSeq, Flattened
<1>. HIDE DEF it, n
<1>4. \A i \in 1..n : it[i] = IF i = 1 THEN seqs[i] ELSE it[i - 1] \o seqs[i]
  BY <1>2 DEF Flattened
<1>5. Wrong = {}
  <2>. SUFFICES ASSUME Wrong # {} PROVE FALSE
    OBVIOUS
  <2>1. PICK i \in Wrong : \A j \in Wrong : i <= j
    <3>1. Wrong \in SUBSET Nat
      BY <1>1
    <3>. QED
      BY <3>1, LeastElement
  <2>2. i \in 1..n /\ it[i] \notin G[i]
    BY <2>1
  <2>3. i # 1
    BY <1>4, <2>2
  <2>4. i - 1 \in 1..(n - 1) /\ i - 1 \in 1..n /\ i - 1 \notin Wrong /\ (i - 1) + 1 = i
    BY <1>1, <2>1, <2>2, <2>3
  <2>5. it[i - 1] \in G[i - 1]
    BY <2>4
  <2>6. it[i - 1] \o seqs[i] \in G[i]
    BY <2>4, <2>5 DEF n
  <2>. QED
    BY <1>4, <2>2, <2>3, <2>6
<1>. QED
  BY <1>1, <1>3, <1>5 DEF n

LEMMA IsSeqOf ==
  ASSUME NEW S, NEW s \in Seq(S)
  PROVE  /\ IsSeq(s) /\ ToSet(s) \subseteq S
         /\ Len(s) \in Nat /\ DOMAIN s = 1..Len(s)
<1>1. Len(s) \in Nat /\ DOMAIN s = 1..Len(s) /\ \A i \in 1..Len(s) : s[i] \in S
  BY LenProperties, ElementOfSeq
<1>2. \A i \in 1..Len(s) : s[i] \in ToSet(s)
  BY <1>1 DEF ToSet
<1>3. s = [i \in 1..Len(s) |-> s[i]]
  BY <1>1
<1>4. s \in Seq(ToSet(s))
  BY <1>1, <1>2, <1>3
<1>. QED
  BY <1>1, <1>4 DEF IsSeq, ToSet

(* Two lists behind one another. *)
LEMMA Behind ==
  ASSUME NEW x, IsSeq(x), NEW y, IsSeq(y)
  PROVE  /\ IsSeq(x \o y)
         /\ Len(x) \in Nat /\ Len(y) \in Nat /\ Len(x \o y) = Len(x) + Len(y)
         /\ \A i \in 1..Len(x) : (x \o y)[i] = x[i]
         /\ \A i \in 1..Len(y) : (x \o y)[Len(x) + i] = y[i]
         /\ ToSet(x \o y) = ToSet(x) \cup ToSet(y)
<1> DEFINE S == ToSet(x) \cup ToSet(y)
<1>1. x \in Seq(S) /\ y \in Seq(S)
  <2>1. /\ x \in Seq(ToSet(x)) /\ Len(x) \in Nat /\ DOMAIN x = 1..Len(x)
        /\ y \in Seq(ToSet(y)) /\ Len(y) \in Nat /\ DOMAIN y = 1..Len(y)
    BY IsSeqOf DEF IsSeq
  <2>2. /\ \A i \in 1..Len(x) : x[i] \in S
        /\ \A i \in 1..Len(y) : y[i] \in S
    BY <2>1 DEF ToSet
  <2>3. x = [i \in 1..Len(x) |-> x[i]] /\ y = [i \in 1..Len(y) |-> y[i]]
    BY <2>1
  <2>. QED
    BY <2>1, <2>2, <2>3
<1>. HIDE DEF S
<1>2. /\ x \o y \in Seq(S) /\ Len(x \o y) = Len(x) + Len(y)
      /\ \A i \in 1..(Len(x) + Len(y)) :
           (x \o y)[i] = IF i <= Len(x) THEN x[i] ELSE y[i - Len(x)]
  BY <1>1, ConcatProperties
<1>3. /\ Len(x) \in Nat /\ DOMAIN x = 1..Len(x) /\ Len(y) \in Nat /\ DOMAIN y = 1..Len(y)
      /\ IsSeq(x \o y) /\ DOMAIN (x \o y) = 1..(Len(x) + Len(y))
  BY <1>1, <1>2, IsSeqOf
<1>4. \A i \in 1..Len(x) : i \in 1..(Len(x) + Len(y)) /\ (x \o y)[i] = x[i]
  BY <1>2, <1>3
<1>5. \A i \in 1..Len(y) : Len(x) + i \in 1..(Len(x) + Len(y)) /\ (x \o y)[Len(x) + i] = y[i]
  BY <1>2, <1>3
<1>6. \A i \in 1..(Len(x) + Len(y)) :
        i \in 1..Len(x) \/ (i - Len(x) \in 1..Len(y) /\ Len(x) + (i - Len(x)) = i)
  BY <1>3
<1>7. ToSet(x \o y) = ToSet(x) \cup ToSet(y)
  <2>1. ToSet(x) \subseteq ToSet(x \o y)
    BY <1>3, <1>4 DEF ToSet
  <2>2. ToSet(y) \subseteq ToSet(x \o y)
    BY <1>3, <1>5 DEF ToSet
  <2>3. ASSUME NEW i \in 1..(Len(x) + Len(y))
        PROVE  (x \o y)[i] \in ToSet(x) \cup ToSet(y)
    <3>1. CASE i \in 1..Len(x)
      BY <1>3, <1>4, <3>1 DEF ToSet
    <3>2. CASE i - Len(x) \in 1..Len(y)
      <4>1. (x \o y)[i] = y[i - Len(x)]
        BY <1>5, <1>6, <2>3, <3>2
      <4>. QED
        BY <1>3, <3>2, <4>1 DEF ToSet
    <3>. QED
      BY <1>6, <3>1, <3>2
  <2>4. ToSet(x \o y) \subseteq ToSet(x) \cup ToSet(y)
    BY <1>3, <2>3 DEF ToSet
  <2>. QED
    BY <2>1, <2>2, <2>4
<1>. QED
  BY <1>2, <1>3, <1>4, <1>5, <1>7

Distinct(s) == \A i, j \in 1..Len(s) : s[i] = s[j] => i = j

LEMMA BehindDistinct ==
  ASSUME NEW x, IsSeq(x), Distinct(x), NEW y, IsSeq(y), Distinct(y), ToSet(x) \cap ToSet(y) = {}
  PROVE  Distinct(x \o y)
<1>1. /\ Len(x) \in Nat /\ Len(y) \in Nat /\ Len(x \o y) = Len(x) + Len(y)
      /\ \A i \in 1..Len(x) : (x \o y)[i] = x[i]
      /\ \A i \in 1..Len(y) : (x \o y)[Len(x) + i] = y[i]
  BY Behind
<1>2. \A i \in 1..(Len(x) + Len(y)) :
        i \in 1..Len(x) \/ \E j \in 1..Len(y) : i = Len(x) + j
  <2>1. \A i \in 1..(Len(x) + Len(y)) :
          i \in 1..Len(x) \/ (i - Len(x) \in 1..Len(y) /\ i = Len(x) + (i - Len(x)))
    BY <1>1
  <2>. QED
    BY <2>1
<1>3. (\A i \in 1..Len(x) : x[i] \in ToSet(x)) /\ (\A i \in 1..Len(y) : y[i] \in ToSet(y))
  BY IsSeqOf DEF IsSeq, ToSet
<1>4. SUFFICES ASSUME NEW i \in 1..(Len(x) + Len(y)), NEW j \in 1..(Len(x) + Len(y)),
                      (x \o y)[i] = (x \o y)[j]
               PROVE  i = j
  BY <1>1 DEF Distinct
<1>5. CASE i \in 1..Len(x) /\ j \in 1..Len(x)
  BY <1>1, <1>4, <1>5 DEF Distinct
<1>6. CASE i \in 1..Len(x) /\ \E k \in 1..Len(y) : j = Len(x) + k
  BY <1>1, <1>3, <1>4, <1>6
<1>7. CASE j \in 1..Len(x) /\ \E k \in 1..Len(y) : i = Len(x) + k
  BY <1>1, <1>3, <1>4, <1>7
<1>8. CASE (\E k \in 1..Len(y) : i = Len(x) + k) /\ (\E k \in 1..Len(y) : j = Len(x) + k)
  BY <1>1, <1>4, <1>8 DEF Distinct
<1>. QED
  BY <1>2, <1>5, <1>6, <1>7, <1>8

(* Flattened lists hold what the lists hold; nothing is there twice if no  *)
(* list holds anything twice and no two share anything.                    *)
LEMMA FlattenRows ==
  ASSUME NEW seqs, IsSeq(seqs), \A i \in 1..Len(seqs) : IsSeq(seqs[i])
  PROVE  /\ IsSeq(FlattenSeq(seqs))
         /\ ToSet(FlattenSeq(seqs)) = UNION {ToSet(seqs[i]) : i \in 1..Len(seqs)}
         /\ /\ \A i \in 1..Len(seqs) : Distinct(seqs[i])
            /\ \A i, j \in 1..Len(seqs) : i # j => ToSet(seqs[i]) \cap ToSet(seqs[j]) = {}
            => Distinct(FlattenSeq(seqs))
<1>. DEFINE n == Len(seqs)
            upto(i) == UNION {ToSet(seqs[j]) : j \in 1..i}
            apart == /\ \A i \in 1..n : Distinct(seqs[i])
                     /\ \A i, j \in 1..n : i # j => ToSet(seqs[i]) \cap ToSet(seqs[j]) = {}
            G == [i \in 1..n |-> {x \in Seq(upto(n)) : /\ IsSeq(x) /\ ToSet(x) = upto(i)
                                                       /\ apart => Distinct(x)}]
<1>1. n \in Nat /\ seqs \in Seq(ToSet(seqs))
  BY IsSeqOf DEF IsSeq
<1>2. CASE n = 0
  <2>1. seqs = <<>> /\ FlattenSeq(seqs) = seqs /\ ToSet(seqs) = {}
    BY <1>1, <1>2 DEF FlattenSeq, ToSet
  <2>2. UNION {ToSet(seqs[i]) : i \in 1..n} = {}
    BY <1>2
  <2>. QED
    BY <1>2, <2>1, <2>2 DEF Distinct
<1>3. CASE n # 0
  <2>. DEFINE made(i, x) == IsSeq(x) /\ ToSet(x) = upto(i) /\ (apart => Distinct(x))
  <2>. HIDE DEF apart
  <2>1. 1 \in 1..n /\ n \in 1..n /\ seqs # <<>>
    BY <1>1, <1>3
  <2>2. \A i \in 1..n : upto(i) \subseteq upto(n)
    BY <1>1
  <2>3. ASSUME NEW i \in 1..n, NEW x  PROVE made(i, x) => x \in G[i]
    <3>1. SUFFICES ASSUME made(i, x) PROVE x \in Seq(upto(n))
      BY DEF G
    <3>2. x \in Seq(upto(i))
      BY <3>1 DEF IsSeq
    <3>3. Len(x) \in Nat /\ x \in [1..Len(x) -> upto(i)]
      BY <3>2
    <3>4. x \in [1..Len(x) -> upto(n)]
      BY <2>2, <3>3
    <3>. HIDE DEF upto
    <3>. QED
      BY <3>3, <3>4
  <2>4. ASSUME NEW i \in 1..n, NEW x \in G[i]  PROVE made(i, x)
    BY <2>4
  <2>. HIDE DEF G
  <2>5. made(1, seqs[1])
    <3>1. upto(1) = ToSet(seqs[1])
      OBVIOUS
    <3>. QED
      BY <2>1, <3>1 DEF apart
  <2>6. ASSUME NEW i \in 1..(n - 1), NEW x \in G[i]  PROVE made(i + 1, x \o seqs[i + 1])
    <3>1. i \in 1..n /\ i + 1 \in 1..n
      BY <1>1
    <3>2. made(i, x)
      BY <2>4, <3>1
    <3>3. IsSeq(x \o seqs[i + 1]) /\ ToSet(x \o seqs[i + 1]) = ToSet(x) \cup ToSet(seqs[i + 1])
      <4>1. IsSeq(x) /\ IsSeq(seqs[i + 1])
        BY <3>1, <3>2
      <4>2. IsSeq(x \o seqs[i + 1])
        BY <4>1, Behind
      <4>. QED
        BY <4>1, <4>2, Behind
    <3>4. upto(i + 1) = upto(i) \cup ToSet(seqs[i + 1])
      <4>1. \A j : j \in 1..(i + 1) <=> j \in 1..i \/ j = i + 1
        BY <1>1
      <4>. QED
        BY <4>1
    <3>5. ASSUME apart  PROVE Distinct(x \o seqs[i + 1])
      <4>1. \A j \in 1..i : j \in 1..n /\ j # i + 1
        BY <1>1
      <4>2. \A j \in 1..i : ToSet(seqs[j]) \cap ToSet(seqs[i + 1]) = {}
        BY <3>1, <3>5, <4>1 DEF apart
      <4>3. ToSet(x) \cap ToSet(seqs[i + 1]) = {}
        BY <3>2, <4>2
      <4>4. Distinct(x) /\ Distinct(seqs[i + 1]) /\ IsSeq(x) /\ IsSeq(seqs[i + 1])
        BY <3>1, <3>2, <3>5 DEF apart
      <4>. QED
        BY <4>3, <4>4, BehindDistinct, Zenon
    <3>. QED
      BY <3>2, <3>3, <3>4, <3>5
  <2>. HIDE DEF made, upto
  <2>7. seqs[1] \in G[1] /\ \A i \in 1..(n - 1) : \A x \in G[i] : x \o seqs[i + 1] \in G[i + 1]
    <3>1. \A i \in 1..(n - 1) : i + 1 \in 1..n
      BY <1>1
    <3>. QED
      BY <2>1, <2>3, <2>5, <2>6, <3>1
  <2>8. FlattenSeq(seqs) \in G[n]
    <3>1. PICK S : seqs \in Seq(S)
      BY <1>1
    <3>. QED
      BY <2>1, <2>7, <3>1, FlattenIn
  <2>9. made(n, FlattenSeq(seqs))
    BY <2>1, <2>4, <2>8
  <2>. QED
    BY <2>9 DEF made, upto, apart
<1>. QED
  BY <1>2, <1>3

----------------------------------------------------------------------------
(* Rows that are picked and sorted.                                        *)

\* How many of the places are no later than i.
Upto(places, i) == Cardinality({j \in places : j <= i})

LEMMA UptoSteps ==
  ASSUME NEW m \in Nat, NEW places \in SUBSET (1..m)
  PROVE  /\ IsFiniteSet(places) /\ Cardinality(places) \in Nat /\ Cardinality(places) <= m
         /\ \A i \in Nat : Upto(places, i) \in Nat
         /\ Upto(places, 0) = 0 /\ Upto(places, m) = Cardinality(places)
         /\ \A i \in Nat : Upto(places, i + 1) =
                             IF i + 1 \in places THEN Upto(places, i) + 1 ELSE Upto(places, i)
         /\ \A i, k \in Nat : i <= k => Upto(places, i) <= Upto(places, k)
         /\ \A i \in Nat, k \in places : i < k => Upto(places, i) < Upto(places, k)
<1>0. \A j \in places : j \in Nat /\ 1 <= j /\ j <= m
  OBVIOUS
<1>1. IsFiniteSet(places) /\ Cardinality(places) \in Nat /\ Cardinality(places) <= m
  <2>1. IsFiniteSet(1..m) /\ Cardinality(1..m) = m
    BY FS_Interval
  <2>. QED
    BY <2>1, FS_Subset, FS_CardinalityType
<1>2. ASSUME NEW i \in Nat
      PROVE  IsFiniteSet({j \in places : j <= i}) /\ Upto(places, i) \in Nat
  <2>1. {j \in places : j <= i} \in SUBSET places
    OBVIOUS
  <2>2. IsFiniteSet({j \in places : j <= i})
    BY <1>1, <2>1, FS_Subset
  <2>. QED
    BY <2>2, FS_CardinalityType DEF Upto
<1>3. Upto(places, 0) = 0
  <2>1. \A j \in places : ~(j <= 0)
    BY <1>0
  <2>2. {j \in places : j <= 0} = {}
    BY <2>1
  <2>. QED
    BY <2>2, FS_EmptySet DEF Upto
<1>4. Upto(places, m) = Cardinality(places)
  <2>1. {j \in places : j <= m} = places
    BY <1>0
  <2>. QED
    BY <2>1 DEF Upto
<1>5. ASSUME NEW i \in Nat
      PROVE  Upto(places, i + 1) =
               IF i + 1 \in places THEN Upto(places, i) + 1 ELSE Upto(places, i)
  <2>. DEFINE T == {j \in places : j <= i}
  <2>1. IsFiniteSet(T)
    BY <1>2
  <2>2. CASE i + 1 \in places
    <3>1. {j \in places : j <= i + 1} = T \cup {i + 1} /\ i + 1 \notin T
      <4>1. \A j \in places : j <= i + 1 <=> j <= i \/ j = i + 1
        BY <1>0
      <4>2. i + 1 \notin T
        OBVIOUS
      <4>3. \A j : j \in {k \in places : k <= i + 1} <=> j \in T \cup {i + 1}
        BY <2>2, <4>1, Zenon
      <4>. QED
        BY <4>2, <4>3
    <3>2. Cardinality(T \cup {i + 1}) = Cardinality(T) + 1
      <4>. HIDE DEF T
      <4>. QED
        BY <2>1, <3>1, FS_AddElement
    <3>. QED
      BY <2>2, <3>1, <3>2 DEF Upto
  <2>3. CASE i + 1 \notin places
    <3>1. {j \in places : j <= i + 1} = T
      <4>1. \A j \in places : j <= i + 1 <=> j <= i
        BY <1>0, <2>3
      <4>. QED
        BY <4>1
    <3>. QED
      BY <2>3, <3>1 DEF Upto
  <2>. QED
    BY <2>2, <2>3
<1>6. ASSUME NEW i \in Nat, NEW k \in Nat, i <= k
      PROVE  Upto(places, i) <= Upto(places, k)
  <2>1. \A j \in places : j <= i => j <= k
    BY <1>0, <1>6
  <2>. QED
    <3>1. {j \in places : j <= i} \in SUBSET {j \in places : j <= k}
      BY <2>1
    <3>. QED
      BY <1>2, <3>1, FS_Subset DEF Upto
<1>7. ASSUME NEW i \in Nat, NEW k \in places, i < k
      PROVE  Upto(places, i) < Upto(places, k)
  <2>1. k \in Nat /\ k - 1 \in Nat /\ (k - 1) + 1 = k /\ i <= k - 1
    BY <1>0, <1>7
  <2>2. Upto(places, k) = Upto(places, k - 1) + 1
    BY <1>5, <2>1
  <2>3. Upto(places, i) <= Upto(places, k - 1)
    BY <1>6, <2>1
  <2>4. Upto(places, i) \in Nat /\ Upto(places, k - 1) \in Nat
    BY <1>2, <2>1
  <2>. QED
    BY <2>2, <2>3, <2>4
<1>. QED
  BY <1>1, <1>2, <1>3, <1>4, <1>5, <1>6, <1>7

(* At a place of At stands what s has at the one of places that has as     *)
(* many up to it.                                                          *)
LEMMA AtPlaces ==
  ASSUME NEW s, NEW m \in Nat, NEW places \in SUBSET (1..m)
  PROVE  /\ Cardinality(places) \in Nat /\ Cardinality(places) <= m
         /\ Len(At(s, places)) = Cardinality(places)
         /\ DOMAIN At(s, places) = 1..Cardinality(places)
         /\ \A i \in places : /\ Upto(places, i) \in 1..Cardinality(places)
                              /\ At(s, places)[Upto(places, i)] = s[i]
         /\ \A n \in 1..Cardinality(places) :
              \E i \in places : Upto(places, i) = n /\ At(s, places)[n] = s[i]
         /\ IsSeq(At(s, places)) /\ ToSet(At(s, places)) = {s[i] : i \in places}
<1>. DEFINE c == Cardinality(places)
            nth(n) == CHOOSE i \in places : Upto(places, i) = n
<1>1. c \in Nat /\ c <= m
  BY UptoSteps
<1>2. At(s, places) = [n \in 1..c |-> s[nth(n)]]
  BY DEF At, Upto
<1>3. Len(At(s, places)) = c /\ DOMAIN At(s, places) = 1..c
  BY <1>1, <1>2
<1>4. ASSUME NEW i \in places  PROVE Upto(places, i) \in 1..c
  <2>1. i \in Nat /\ 0 < i /\ i <= m /\ 0 \in Nat /\ m \in Nat
    OBVIOUS
  <2>2. Upto(places, 0) = 0 /\ Upto(places, m) = c
    BY UptoSteps
  <2>3. Upto(places, i) \in Nat
    BY <2>1, UptoSteps
  <2>4. Upto(places, 0) < Upto(places, i)
    BY <2>1, UptoSteps
  <2>5. Upto(places, i) <= Upto(places, m)
    BY <2>1, UptoSteps
  <2>. QED
    BY <1>1, <2>2, <2>3, <2>4, <2>5
<1>5. ASSUME NEW i \in places, NEW k \in places, Upto(places, i) = Upto(places, k)
      PROVE  i = k
  <2>1. i \in Nat /\ k \in Nat
    OBVIOUS
  <2>2. Upto(places, i) \in Nat
    BY <2>1, UptoSteps
  <2>3. ~(i < k) /\ ~(k < i)
    <3>1. i < k => Upto(places, i) < Upto(places, k)
      BY <2>1, UptoSteps
    <3>2. k < i => Upto(places, k) < Upto(places, i)
      BY <2>1, UptoSteps
    <3>. QED
      BY <1>5, <2>2, <3>1, <3>2
  <2>. QED
    BY <2>1, <2>3
<1>6. ASSUME NEW n \in 1..c  PROVE \E i \in places : Upto(places, i) = n
  <2>. DEFINE Far == {i \in Nat : Upto(places, i) >= n}
  <2>1. PICK i \in Far : \A j \in Far : i <= j
    <3>1. Far \in SUBSET Nat
      OBVIOUS
    <3>2. Upto(places, m) = c /\ m \in Far
      BY <1>1, UptoSteps
    <3>3. Far # {}
      BY <3>2
    <3>. HIDE DEF Far
    <3>. QED
      BY <3>1, <3>3, LeastElement
  <2>2. i \in Nat /\ Upto(places, i) >= n /\ Upto(places, i) \in Nat
    BY <2>1, UptoSteps
  <2>3. i # 0
    BY <1>1, <2>2, UptoSteps
  <2>4. i - 1 \in Nat /\ (i - 1) + 1 = i /\ ~(i <= i - 1)
    BY <2>2, <2>3
  <2>5. ~(Upto(places, i - 1) >= n) /\ Upto(places, i - 1) \in Nat
    BY <2>1, <2>4, UptoSteps
  <2>6. Upto(places, i) = IF i \in places THEN Upto(places, i - 1) + 1
                          ELSE Upto(places, i - 1)
    BY <2>4, UptoSteps
  <2>. QED
    BY <1>1, <2>2, <2>5, <2>6
<1>7. ASSUME NEW i \in places  PROVE At(s, places)[Upto(places, i)] = s[i]
  <2>1. nth(Upto(places, i)) = i
    BY <1>5
  <2>. HIDE DEF nth
  <2>. QED
    BY <1>2, <1>4, <2>1
<1>8. ASSUME NEW n \in 1..c
      PROVE  \E i \in places : Upto(places, i) = n /\ At(s, places)[n] = s[i]
  BY <1>6, <1>7
<1>9. ToSet(At(s, places)) = {s[i] : i \in places}
  <2>1. ToSet(At(s, places)) = {At(s, places)[n] : n \in 1..c}
    BY <1>3 DEF ToSet
  <2>2. {At(s, places)[n] : n \in 1..c} \subseteq {s[i] : i \in places}
    BY <1>8
  <2>3. {s[i] : i \in places} \subseteq {At(s, places)[n] : n \in 1..c}
    BY <1>4, <1>7
  <2>. QED
    BY <2>1, <2>2, <2>3
<1>10. IsSeq(At(s, places))
  <2>1. \A n \in 1..c : At(s, places)[n] \in ToSet(At(s, places))
    BY <1>3 DEF ToSet
  <2>2. At(s, places) = [n \in 1..c |-> At(s, places)[n]]
    BY <1>2
  <2>3. At(s, places) \in [1..c -> ToSet(At(s, places))]
    BY <2>1, <2>2
  <2>. QED
    BY <1>1, <2>3 DEF IsSeq
<1>. QED
  BY <1>1, <1>3, <1>4, <1>7, <1>8, <1>9, <1>10

(* Ahead is a strict order in which any two places are compared. *)
LEMMA AheadOrders ==
  ASSUME NEW n \in Nat, NEW key, \A i \in 1..n : key[i] \in Int
  PROVE  /\ \A i \in 1..n : ~Ahead(key, i, i)
         /\ \A i, j \in 1..n : i # j => Ahead(key, i, j) \/ Ahead(key, j, i)
         /\ \A i, j, k \in 1..n : Ahead(key, i, j) /\ Ahead(key, j, k) => Ahead(key, i, k)
BY DEF Ahead

\* How many of the places are ahead of i.
CountAhead(key, places, i) == Cardinality({j \in places : Ahead(key, j, i)})

(* Of a set of places no two have as many ahead, and those ahead have      *)
(* fewer.                                                                  *)
LEMMA AheadCounts ==
  ASSUME NEW n \in Nat, NEW key, \A i \in 1..n : key[i] \in Int, NEW T \in SUBSET (1..n)
  PROVE  /\ \A i \in 1..n : CountAhead(key, T, i) \in Nat /\ CountAhead(key, T, i) < n
         /\ \A i \in T, k \in 1..n :
              Ahead(key, i, k) => CountAhead(key, T, i) < CountAhead(key, T, k)
<1>. DEFINE A(i) == {j \in T : Ahead(key, j, i)}
<1>1. IsFiniteSet(1..n) /\ Cardinality(1..n) = n
  BY FS_Interval
<1>2. ASSUME NEW i \in 1..n
      PROVE  /\ IsFiniteSet(A(i)) /\ Cardinality(A(i)) \in Nat /\ Cardinality(A(i)) <= n
             /\ i \notin A(i) /\ Cardinality(A(i) \cup {i}) = Cardinality(A(i)) + 1
             /\ Cardinality(A(i) \cup {i}) <= n
  <2>1. A(i) \in SUBSET (1..n) /\ A(i) \cup {i} \in SUBSET (1..n)
    OBVIOUS
  <2>2. i \notin A(i)
    BY AheadOrders
  <2>. HIDE DEF A
  <2>3. IsFiniteSet(A(i)) /\ Cardinality(A(i)) <= Cardinality(1..n)
    BY <1>1, <2>1, FS_Subset
  <2>4. Cardinality(A(i) \cup {i}) <= Cardinality(1..n)
    BY <1>1, <2>1, FS_Subset
  <2>5. Cardinality(A(i)) \in Nat
    BY <2>3, FS_CardinalityType
  <2>6. Cardinality(A(i) \cup {i}) = Cardinality(A(i)) + 1
    BY <2>2, <2>3, FS_AddElement
  <2>. QED
    BY <1>1, <2>2, <2>3, <2>4, <2>5, <2>6
<1>3. ASSUME NEW i \in T, NEW k \in 1..n, Ahead(key, i, k)
      PROVE  Cardinality(A(i)) < Cardinality(A(k))
  <2>1. i \in 1..n
    OBVIOUS
  <2>2. \A j \in T : Ahead(key, j, i) => Ahead(key, j, k)
    BY <1>3, <2>1, AheadOrders
  <2>3. A(i) \cup {i} \in SUBSET A(k)
    BY <1>3, <2>2
  <2>4. IsFiniteSet(A(k)) /\ Cardinality(A(k)) \in Nat
    BY <1>2
  <2>5. Cardinality(A(i)) \in Nat /\ Cardinality(A(i) \cup {i}) = Cardinality(A(i)) + 1
    BY <1>2, <2>1
  <2>. HIDE DEF A
  <2>6. Cardinality(A(i) \cup {i}) <= Cardinality(A(k))
    BY <2>3, <2>4, FS_Subset
  <2>. QED
    BY <2>4, <2>5, <2>6
<1>4. \A i \in 1..n : CountAhead(key, T, i) \in Nat /\ CountAhead(key, T, i) < n
  <2>1. \A i \in 1..n : /\ Cardinality(A(i)) \in Nat
                        /\ Cardinality(A(i)) + 1 <= n
    BY <1>2
  <2>. QED
    BY <2>1 DEF CountAhead
<1>. QED
  BY <1>3, <1>4 DEF CountAhead

(* Sorting by whole numbers rearranges a list: each element has one place, *)
(* and those ahead come first.                                             *)
LEMMA RanksPermute ==
  ASSUME NEW n \in Nat, NEW key, \A i \in 1..n : key[i] \in Int
  PROVE  /\ Ranks(key, n) \in [1..n -> 1..n]
         /\ \A i, j \in 1..n : Ranks(key, n)[i] = Ranks(key, n)[j] => i = j
         /\ \A i, j \in 1..n : Ahead(key, i, j) <=> Ranks(key, n)[i] < Ranks(key, n)[j]
         /\ \A k \in 1..n : \E i \in 1..n : Ranks(key, n)[i] = k
<1>. DEFINE A(i) == CountAhead(key, 1..n, i)
            rank == Ranks(key, n)
<1>1. rank = [i \in 1..n |-> 1 + A(i)]
  BY DEF Ranks, CountAhead
<1>2. /\ \A i \in 1..n : A(i) \in Nat /\ A(i) < n
      /\ \A i, k \in 1..n : Ahead(key, i, k) => A(i) < A(k)
  <2>1. 1..n \in SUBSET (1..n)
    OBVIOUS
  <2>. QED
    BY <2>1, AheadCounts, Zenon
<1>. HIDE DEF A, rank
<1>4. \A i \in 1..n : rank[i] \in 1..n /\ rank[i] = 1 + A(i)
  BY <1>1, <1>2
<1>5. rank \in [1..n -> 1..n]
  BY <1>1, <1>4
<1>6. ASSUME NEW i \in 1..n, NEW j \in 1..n  PROVE Ahead(key, i, j) <=> rank[i] < rank[j]
  <2>1. Ahead(key, i, j) => rank[i] < rank[j]
    BY <1>2, <1>4
  <2>2. Ahead(key, j, i) => rank[j] < rank[i]
    BY <1>2, <1>4
  <2>3. rank[i] \in Int /\ rank[j] \in Int
    BY <1>4
  <2>4. i # j => Ahead(key, i, j) \/ Ahead(key, j, i)
    BY AheadOrders
  <2>5. i = j => rank[i] = rank[j]
    OBVIOUS
  <2>. QED
    BY <2>1, <2>2, <2>3, <2>4, <2>5
<1>7. ASSUME NEW i \in 1..n, NEW j \in 1..n, rank[i] = rank[j]  PROVE i = j
  <2>1. ~(rank[i] < rank[j]) /\ ~(rank[j] < rank[i])
    BY <1>4, <1>7
  <2>. QED
    BY <1>6, <2>1, AheadOrders
<1>8. rank \in Injection(1..n, 1..n)
  BY <1>5, <1>7 DEF Injection, IsInjective
<1>9. rank \in Surjection(1..n, 1..n)
  BY <1>8, FS_Interval, FS_Injection
<1>10. \A k \in 1..n : \E i \in 1..n : rank[i] = k
  BY <1>9 DEF Surjection
<1>. QED
  BY <1>5, <1>6, <1>7, <1>10 DEF rank

LEMMA SortedRows ==
  ASSUME NEW s, Len(s) \in Nat, NEW key, \A i \in 1..Len(s) : key[i] \in Int
  PROVE  /\ Len(Sorted(s, key)) = Len(s) /\ DOMAIN Sorted(s, key) = 1..Len(s)
         /\ \A i \in 1..Len(s) : Sorted(s, key)[Ranks(key, Len(s))[i]] = s[i]
         /\ \A k \in 1..Len(s) : \E i \in 1..Len(s) :
              Ranks(key, Len(s))[i] = k /\ Sorted(s, key)[k] = s[i]
         /\ IsSeq(s) => IsSeq(Sorted(s, key)) /\ ToSet(Sorted(s, key)) = ToSet(s)
<1>. DEFINE n == Len(s)
            rank == Ranks(key, n)
            nth(k) == CHOOSE i \in 1..n : rank[i] = k
<1>1. /\ rank \in [1..n -> 1..n]
      /\ \A i, j \in 1..n : rank[i] = rank[j] => i = j
      /\ \A k \in 1..n : \E i \in 1..n : rank[i] = k
  BY RanksPermute
<1>2. Sorted(s, key) = [k \in 1..n |-> s[nth(k)]]
  BY DEF Sorted
<1>. HIDE DEF rank
<1>3. Len(Sorted(s, key)) = n /\ DOMAIN Sorted(s, key) = 1..n
  BY <1>2
<1>4. ASSUME NEW i \in 1..n  PROVE rank[i] \in 1..n /\ Sorted(s, key)[rank[i]] = s[i]
  <2>1. nth(rank[i]) = i /\ rank[i] \in 1..n
    BY <1>1
  <2>. HIDE DEF nth
  <2>. QED
    BY <1>2, <2>1
<1>5. ASSUME NEW k \in 1..n  PROVE \E i \in 1..n : rank[i] = k /\ Sorted(s, key)[k] = s[i]
  <2>1. PICK i \in 1..n : rank[i] = k
    BY <1>1
  <2>2. Sorted(s, key)[rank[i]] = s[i]
    BY <1>4
  <2>. QED
    BY <2>1, <2>2
<1>6. ASSUME IsSeq(s)  PROVE IsSeq(Sorted(s, key)) /\ ToSet(Sorted(s, key)) = ToSet(s)
  <2>1. DOMAIN s = 1..n
    BY <1>6, IsSeqOf DEF IsSeq
  <2>2. ToSet(Sorted(s, key)) = {Sorted(s, key)[k] : k \in 1..n} /\ ToSet(s) = {s[i] : i \in 1..n}
    BY <1>3, <2>1 DEF ToSet
  <2>3. ToSet(Sorted(s, key)) = ToSet(s)
    <3>1. \A k \in 1..n : Sorted(s, key)[k] \in ToSet(s)
      BY <1>5, <2>2
    <3>2. \A i \in 1..n : s[i] \in ToSet(Sorted(s, key))
      BY <1>4, <2>2
    <3>. QED
      BY <2>2, <3>1, <3>2
  <2>4. Sorted(s, key) \in [1..n -> ToSet(s)]
    BY <1>2, <1>5, <2>2
  <2>. QED
    BY <2>3, <2>4 DEF IsSeq
<1>. QED
  BY <1>3, <1>4, <1>5, <1>6 DEF rank

(* Rows that pass a test, as the tables pick them: the places are those of *)
(* the rows that do.                                                       *)
LEMMA PickedRows ==
  ASSUME NEW s, IsSeq(s), NEW places \in SUBSET (1..Len(s))
  PROVE  /\ IsSeq(At(s, places)) /\ ToSet(At(s, places)) = {s[i] : i \in places}
         /\ Len(At(s, places)) \in Nat /\ Len(At(s, places)) <= Len(s)
         /\ Distinct(s) => Distinct(At(s, places))
<1>. DEFINE c == Cardinality(places)
<1>1. Len(s) \in Nat
  BY IsSeqOf DEF IsSeq
<1>2. /\ c \in Nat /\ c <= Len(s) /\ Len(At(s, places)) = c
      /\ \A n \in 1..c : \E i \in places : Upto(places, i) = n /\ At(s, places)[n] = s[i]
      /\ IsSeq(At(s, places)) /\ ToSet(At(s, places)) = {s[i] : i \in places}
  <2>1. PICK m \in Nat : m = Len(s)
    BY <1>1
  <2>2. places \in SUBSET (1..m)
    BY <2>1
  <2>3. /\ c \in Nat /\ c <= m /\ Len(At(s, places)) = c
        /\ \A n \in 1..c : \E i \in places : Upto(places, i) = n /\ At(s, places)[n] = s[i]
        /\ IsSeq(At(s, places)) /\ ToSet(At(s, places)) = {s[i] : i \in places}
    <3>1. c \in Nat /\ c <= m
      BY <2>2, AtPlaces, Zenon
    <3>2. Len(At(s, places)) = c
      BY <2>2, AtPlaces, Zenon
    <3>3. \A n \in 1..c : \E i \in places : Upto(places, i) = n /\ At(s, places)[n] = s[i]
      BY <2>2, AtPlaces, Zenon
    <3>4. IsSeq(At(s, places))
      BY <2>2, AtPlaces, Zenon
    <3>5. ToSet(At(s, places)) = {s[i] : i \in places}
      BY <2>2, AtPlaces, SMT
    <3>. QED
      BY <3>1, <3>2, <3>3, <3>4, <3>5
  <2>. QED
    BY <2>1, <2>3
<1>3. ASSUME Distinct(s)  PROVE Distinct(At(s, places))
  <2>1. SUFFICES ASSUME NEW n \in 1..c, NEW l \in 1..c, At(s, places)[n] = At(s, places)[l]
                 PROVE  n = l
    BY <1>2 DEF Distinct
  <2>2. PICK i \in places : Upto(places, i) = n /\ At(s, places)[n] = s[i]
    BY <1>2
  <2>3. PICK k \in places : Upto(places, k) = l /\ At(s, places)[l] = s[k]
    BY <1>2
  <2>4. i = k
    BY <1>3, <2>1, <2>2, <2>3 DEF Distinct
  <2>. QED
    BY <2>2, <2>3, <2>4
<1>. QED
  BY <1>2, <1>3

LEMMA SortedDistinct ==
  ASSUME NEW s, Len(s) \in Nat, Distinct(s), NEW key, \A i \in 1..Len(s) : key[i] \in Int
  PROVE  Distinct(Sorted(s, key))
<1>. DEFINE t == Sorted(s, key)
<1>1. /\ Len(t) = Len(s)
      /\ \A k \in 1..Len(s) : \E i \in 1..Len(s) :
           Ranks(key, Len(s))[i] = k /\ t[k] = s[i]
  BY SortedRows
<1>. HIDE DEF t
<1>2. SUFFICES ASSUME NEW k \in 1..Len(s), NEW l \in 1..Len(s), t[k] = t[l]
               PROVE  k = l
  BY <1>1 DEF Distinct, t
<1>3. PICK i \in 1..Len(s) : Ranks(key, Len(s))[i] = k /\ t[k] = s[i]
  BY <1>1
<1>4. PICK j \in 1..Len(s) : Ranks(key, Len(s))[j] = l /\ t[l] = s[j]
  BY <1>1
<1>5. i = j
  BY <1>2, <1>3, <1>4 DEF Distinct
<1>. QED
  BY <1>3, <1>4, <1>5

LEMMA SameSize ==
  ASSUME NEW S, IsFiniteSet(S), NEW T, NEW f \in [S -> T],
         \A x, y \in S : f[x] = f[y] => x = y,
         \A y \in T : \E x \in S : f[x] = y
  PROVE  IsFiniteSet(T) /\ Cardinality(T) = Cardinality(S)
<1>1. f \in Surjection(S, T)
  BY DEF Surjection
<1>2. f \in Injection(S, T)
  BY DEF Injection, IsInjective
<1>. QED
  BY <1>1, <1>2, FS_Surjection

\* f gives each member of S a name of its own, and they are the members of T.
Renames(f, S, T) ==
  /\ f \in [S -> T]
  /\ \A x, y \in S : f[x] = f[y] => x = y
  /\ \A y \in T : \E x \in S : f[x] = y

(* A sum is the same under other names of its members. *)
LEMMA TotalRenamed ==
  ASSUME NEW S, IsFiniteSet(S), NEW T, NEW f, Renames(f, S, T),
         NEW g, NEW h, \A x \in S : g[x] \in Int /\ h[f[x]] = g[x]
  PROVE  Total(h, T) = Total(g, S)
<1>. USE DEF Renames
<1>. DEFINE Image(u) == {f[x] : x \in u}
            Wrong == {n \in Nat : \E u \in SUBSET S :
                        Cardinality(u) = n /\ SumsOf(h, T)[Image(u)] # SumsOf(g, S)[u]}
<1>1. IsFiniteSet(T)
  BY SameSize
<1>2. (\A y \in T : h[y] \in Int) /\ \A x \in S : g[x] \in Int
  OBVIOUS
<1>3. Wrong = {}
  <2>. SUFFICES ASSUME Wrong # {} PROVE FALSE
    OBVIOUS
  <2>1. PICK n \in Wrong : \A k \in Wrong : n <= k
    <3>1. Wrong \in SUBSET Nat
      OBVIOUS
    <3>. HIDE DEF Wrong
    <3>. QED
      BY <3>1, LeastElement
  <2>2. PICK u \in SUBSET S : Cardinality(u) = n /\ SumsOf(h, T)[Image(u)] # SumsOf(g, S)[u]
    BY <2>1
  <2>3. IsFiniteSet(u) /\ Image(u) \in SUBSET T /\ n \in Nat
    BY <2>1, FS_Subset
  <2>4. u # {}
    <3>. SUFFICES ASSUME u = {} PROVE FALSE
      OBVIOUS
    <3>1. Image(u) = {}
      OBVIOUS
    <3>2. SumsOf(h, T)[{}] = 0 /\ SumsOf(g, S)[{}] = 0
      BY <1>1, SumStep
    <3>. QED
      BY <2>2, <3>1, <3>2
  <2>5. PICK x \in u : TRUE
    BY <2>4
  <2>6. PICK v : v = u \ {x}
    OBVIOUS
  <2>7. Image(v) = Image(u) \ {f[x]} /\ f[x] \in Image(u) /\ v \in SUBSET S
    BY <2>6
  <2>8. SumsOf(g, S)[u] = g[x] + SumsOf(g, S)[v]
    BY <1>2, <2>6, SumOut
  <2>9. SumsOf(h, T)[Image(u)] = h[f[x]] + SumsOf(h, T)[Image(v)]
    <3>1. PICK w, y : w = Image(u) /\ y = f[x] /\ w \in SUBSET T /\ y \in w
      BY <2>3, <2>7
    <3>2. SumsOf(h, T)[w] = h[y] + SumsOf(h, T)[w \ {y}]
      BY <1>1, <1>2, <3>1, SumOut
    <3>. QED
      BY <2>7, <3>1, <3>2
  <2>10. Cardinality(v) = n - 1 /\ n - 1 \in Nat
    <3>1. Cardinality(v) = Cardinality(u) - 1 /\ Cardinality(v) \in Nat
      BY <2>3, <2>6, FS_RemoveElement, FS_Subset, FS_CardinalityType
    <3>. QED
      BY <2>2, <2>3, <3>1
  <2>11. n - 1 \notin Wrong
    BY <2>1, <2>3, <2>10, Smaller
  <2>12. SumsOf(h, T)[Image(v)] = SumsOf(g, S)[v]
    BY <2>7, <2>10, <2>11
  <2>. QED
    BY <2>2, <2>8, <2>9, <2>12
<1>4. Image(S) = T
  OBVIOUS
<1>5. Cardinality(S) \in Nat
  BY FS_CardinalityType
<1>6. SumsOf(h, T)[Image(S)] = SumsOf(g, S)[S]
  BY <1>3, <1>5
<1>. QED
  BY <1>4, <1>6 DEF Total


(* Picking commutes with sorting, since equal elements stay in their       *)
(* order: one of the places in T has as many of them before it when all    *)
(* are sorted as when only those in T are.                                 *)
LEMMA PartRanks ==
  ASSUME NEW n \in Nat, NEW key, \A i \in 1..n : key[i] \in Int, NEW T \in SUBSET (1..n),
         NEW i \in T
  PROVE  /\ Upto({Ranks(key, n)[t] : t \in T}, Ranks(key, n)[i]) = 1 + CountAhead(key, T, i)
         /\ \A part : (\A t \in T : part[Upto(T, t)] = key[t]) =>
              Ranks(part, Cardinality(T))[Upto(T, i)] = 1 + CountAhead(key, T, i)
<1>. PICK rank : rank = Ranks(key, n)
  OBVIOUS
<1>. DEFINE A == {t \in T : Ahead(key, t, i)}
            R == {rank[t] : t \in T}
            c == Cardinality(T)
<1>1. /\ rank \in [1..n -> 1..n]
      /\ \A t, u \in 1..n : rank[t] = rank[u] => t = u
      /\ \A t, u \in 1..n : Ahead(key, t, u) <=> rank[t] < rank[u]
  BY RanksPermute
<1>2. i \in 1..n /\ i \notin A
  BY AheadOrders
<1>3. IsFiniteSet(A) /\ Cardinality(A) = CountAhead(key, T, i)
  <2>1. A \in SUBSET (1..n) /\ IsFiniteSet(1..n)
    <3>1. A \in SUBSET (1..n)
      OBVIOUS
    <3>. QED
      BY <3>1, FS_Interval
  <2>2. Cardinality(A) = CountAhead(key, T, i)
    BY DEF CountAhead
  <2>. HIDE DEF A
  <2>. QED
    BY <2>1, <2>2, FS_Subset
<1>4. Upto(R, rank[i]) = 1 + CountAhead(key, T, i)
  <2>. DEFINE S == A \cup {i}
              V == {j \in R : j <= rank[i]}
              f == [t \in S |-> rank[t]]
  <2>1. IsFiniteSet(S) /\ Cardinality(S) = Cardinality(A) + 1
    <3>. HIDE DEF A
    <3>. QED
      BY <1>2, <1>3, FS_AddElement
  <2>2. S \subseteq T /\ T \subseteq 1..n
    OBVIOUS
  <2>3. f \in [S -> V]
    <3>1. \A t \in S : rank[t] \in R
      BY <1>2
    <3>2. rank[i] <= rank[i]
      BY <1>1, <1>2
    <3>3. \A t \in A : rank[t] <= rank[i]
      <4>1. \A t \in A : t \in 1..n /\ Ahead(key, t, i)
        OBVIOUS
      <4>. HIDE DEF A
      <4>2. \A t \in A : rank[t] < rank[i] /\ rank[t] \in Int
        BY <1>1, <1>2, <4>1
      <4>3. rank[i] \in Int
        BY <1>1, <1>2
      <4>. QED
        BY <4>2, <4>3
    <3>. QED
      BY <3>1, <3>2, <3>3
  <2>4. \A x, y \in S : f[x] = f[y] => x = y
    BY <1>1, <2>2
  <2>5. ASSUME NEW y \in V  PROVE \E x \in S : f[x] = y
    <3>1. PICK t \in T : y = rank[t] /\ rank[t] <= rank[i]
      OBVIOUS
    <3>2. t \in S
      <4>1. CASE rank[t] = rank[i]
        BY <1>1, <1>2, <4>1
      <4>2. CASE rank[t] # rank[i]
        <5>1. rank[t] < rank[i]
          BY <1>1, <1>2, <3>1, <4>2
        <5>. QED
          BY <1>1, <1>2, <5>1
      <4>. QED
        BY <4>1, <4>2
    <3>. QED
      BY <3>1, <3>2
  <2>6. Cardinality(V) = Cardinality(S)
    <3>. HIDE DEF S, V, f
    <3>. QED
      BY <2>1, <2>3, <2>4, <2>5, SameSize, Zenon
  <2>7. Cardinality(A) \in Nat
    BY <1>3, FS_CardinalityType
  <2>. QED
    BY <1>3, <2>1, <2>6, <2>7 DEF Upto
<1>5. ASSUME NEW part, \A t \in T : part[Upto(T, t)] = key[t]
      PROVE  Ranks(part, c)[Upto(T, i)] = 1 + CountAhead(key, T, i)
  <2>. PICK p : p = Upto(T, i)
    OBVIOUS
  <2>. DEFINE B == {q \in 1..c : Ahead(part, q, p)}
              g == [t \in A |-> Upto(T, t)]
  <2>1. c \in Nat /\ p \in 1..c /\ \A t \in T : Upto(T, t) \in 1..c
    <3>1. c \in Nat
      BY UptoSteps
    <3>2. \A t \in T : Upto(T, t) \in 1..c
      BY AtPlaces, Zenon
    <3>. QED
      BY <3>1, <3>2
  <2>2. \A t, u \in T : t < u => Upto(T, t) < Upto(T, u)
    <3>1. \A t \in T : t \in Nat
      OBVIOUS
    <3>. QED
      BY <3>1, UptoSteps
  <2>3. \A t, u \in T : t < u <=> Upto(T, t) < Upto(T, u)
    <3>1. \A t, u \in T : t < u \/ t = u \/ u < t
      OBVIOUS
    <3>2. \A t \in T : Upto(T, t) \in Int
      BY <2>1
    <3>. QED
      BY <2>2, <3>1, <3>2
  <2>4. \A t \in T : Ahead(part, Upto(T, t), p) <=> Ahead(key, t, i)
    BY <1>5, <2>3 DEF Ahead
  <2>5. \A q \in 1..c : \E t \in T : Upto(T, t) = q
    <3>1. \A s : \A q \in 1..c : \E t \in T : Upto(T, t) = q /\ At(s, T)[q] = s[t]
      BY AtPlaces, Zenon
    <3>. QED
      BY <3>1
  <2>6. g \in [A -> B]
    BY <2>1, <2>4
  <2>7. \A x, y \in A : g[x] = g[y] => x = y
    <3>1. SUFFICES ASSUME NEW x \in A, NEW y \in A, Upto(T, x) = Upto(T, y)  PROVE x = y
      OBVIOUS
    <3>2. ~(Upto(T, x) < Upto(T, y)) /\ ~(Upto(T, y) < Upto(T, x))
      BY <2>1, <3>1
    <3>3. ~(x < y) /\ ~(y < x)
      BY <2>3, <3>2
    <3>. QED
      BY <3>3
  <2>8. ASSUME NEW q \in B  PROVE \E x \in A : g[x] = q
    BY <2>4, <2>5
  <2>9. Cardinality(B) = Cardinality(A)
    <3>. HIDE DEF A, B, g
    <3>. QED
      BY <1>3, <2>6, <2>7, <2>8, SameSize, Zenon
  <2>10. Ranks(part, c)[p] = 1 + Cardinality(B)
    <3>. HIDE DEF c
    <3>. QED
      BY <2>1 DEF Ranks
  <2>. QED
    BY <1>3, <2>9, <2>10
<1>. QED
  BY <1>4, <1>5

----------------------------------------------------------------------------
(* Trees of rows.                                                          *)

\* Rows numbered so that each comes after its parent.
TreeRows(rows) ==
  /\ IsSeq(rows)
  /\ \A r \in ToSet(rows) : /\ r.id \in Int /\ r.parent \in Int /\ r.parent < r.id
                            /\ r.bytes \in Int

LEMMA ChildrenOf ==
  ASSUME NEW rows, TreeRows(rows), NEW id
  PROVE  /\ IsSeq(ChildRows(rows, id))
         /\ ToSet(ChildRows(rows, id)) = {r \in ToSet(rows) : r.parent = id}
         /\ Distinct(rows) => Distinct(ChildRows(rows, id))
<1>. DEFINE places == {i \in 1..Len(rows) : rows[i].parent = id}
            those == At(rows, places)
            key == [i \in 1..Len(those) |-> those[i].bytes]
<1>1. IsSeq(rows) /\ Len(rows) \in Nat /\ DOMAIN rows = 1..Len(rows)
  BY IsSeqOf DEF IsSeq, TreeRows
<1>2. /\ IsSeq(those) /\ ToSet(those) = {rows[i] : i \in places} /\ Len(those) \in Nat
      /\ Distinct(rows) => Distinct(those)
  <2>1. places \in SUBSET (1..Len(rows))
    OBVIOUS
  <2>. HIDE DEF places
  <2>. QED
    BY <1>1, <2>1, PickedRows, Zenon
<1>3. ChildRows(rows, id) = Sorted(those, key)
  BY Zenon DEF ChildRows, Those, LargestFirst
<1>4. {rows[i] : i \in places} = {r \in ToSet(rows) : r.parent = id}
  BY <1>1 DEF ToSet
<1>. HIDE DEF places, those
<1>5. \A i \in 1..Len(those) : key[i] \in Int
  <2>1. \A i \in 1..Len(those) : those[i] \in ToSet(those)
    BY <1>2, IsSeqOf DEF IsSeq, ToSet
  <2>. QED
    BY <1>2, <1>4, <2>1 DEF TreeRows
<1>. HIDE DEF key
<1>6. IsSeq(Sorted(those, key)) /\ ToSet(Sorted(those, key)) = ToSet(those)
  BY <1>2, <1>5, SortedRows, Zenon
<1>7. Distinct(rows) => Distinct(Sorted(those, key))
  BY <1>2, <1>5, SortedDistinct, Zenon
<1>. QED
  BY <1>2, <1>3, <1>4, <1>6, <1>7

\* How many rows have an id greater than this one.
Later(rows, id) == Cardinality({i \in 1..Len(rows) : rows[i].id > id})

LEMMA LaterChild ==
  ASSUME NEW rows, TreeRows(rows)
  PROVE  /\ Len(rows) \in Nat
         /\ \A id \in Int : Later(rows, id) \in Nat /\ Later(rows, id) <= Len(rows)
         /\ \A id \in Int, r \in ToSet(rows) :
              r.parent = id => r.id \in Int /\ Later(rows, r.id) < Later(rows, id)
<1>. DEFINE A(id) == {i \in 1..Len(rows) : rows[i].id > id}
<1>1. Len(rows) \in Nat /\ DOMAIN rows = 1..Len(rows) /\ ToSet(rows) = {rows[i] : i \in 1..Len(rows)}
  <2>1. Len(rows) \in Nat /\ DOMAIN rows = 1..Len(rows)
    BY IsSeqOf DEF IsSeq, TreeRows
  <2>. QED
    BY <2>1 DEF ToSet
<1>2. IsFiniteSet(1..Len(rows)) /\ Cardinality(1..Len(rows)) = Len(rows)
  <2>1. PICK n \in Nat : n = Len(rows)
    BY <1>1
  <2>2. IsFiniteSet(1..n) /\ Cardinality(1..n) = n
    BY FS_Interval
  <2>. QED
    BY <2>1, <2>2
<1>3. ASSUME NEW id
      PROVE  IsFiniteSet(A(id)) /\ Cardinality(A(id)) \in Nat /\ Cardinality(A(id)) <= Len(rows)
  <2>1. A(id) \in SUBSET (1..Len(rows))
    OBVIOUS
  <2>. HIDE DEF A
  <2>. QED
    BY <1>2, <2>1, FS_Subset, FS_CardinalityType
<1>4. ASSUME NEW id \in Int, NEW r \in ToSet(rows), r.parent = id
      PROVE  r.id \in Int /\ Cardinality(A(r.id)) < Cardinality(A(id))
  <2>1. PICK i \in 1..Len(rows) : r = rows[i]
    BY <1>1
  <2>2. r.id \in Int /\ id < r.id
    BY <1>4 DEF TreeRows
  <2>3. \A j \in 1..Len(rows) : rows[j].id \in Int
    BY <1>1 DEF TreeRows
  <2>4. \A j \in 1..Len(rows) : rows[j].id > r.id => rows[j].id > id
    BY <2>2, <2>3
  <2>5. i \in A(id) /\ i \notin A(r.id)
    BY <2>1, <2>2
  <2>6. A(r.id) \in SUBSET A(id)
    BY <2>4
  <2>7. IsFiniteSet(A(id)) /\ Cardinality(A(id)) \in Nat
    BY <1>3
  <2>8. Cardinality(A(r.id)) \in Nat
    BY <1>3
  <2>. HIDE DEF A
  <2>9. /\ Cardinality(A(r.id)) <= Cardinality(A(id))
        /\ Cardinality(A(id)) = Cardinality(A(r.id)) => A(id) = A(r.id)
    BY <2>6, <2>7, FS_Subset
  <2>. QED
    BY <2>2, <2>5, <2>7, <2>8, <2>9
<1>. QED
  BY <1>1, <1>3, <1>4 DEF Later

(* An induction from the last rows up.                                     *)
LEMMA LastOfBad ==
  ASSUME NEW rows, TreeRows(rows), NEW Bad \in SUBSET Int, Bad # {}
  PROVE  \E id \in Bad : \A r \in ToSet(rows) : r.parent = id => r.id \notin Bad
<1>. DEFINE T == {Later(rows, id) : id \in Bad}
<1>1. T \in SUBSET Nat /\ T # {}
  BY LaterChild
<1>2. PICK n \in T : \A k \in T : n <= k
  BY <1>1, LeastElement
<1>3. PICK id \in Bad : n = Later(rows, id)
  BY <1>2
<1>4. ASSUME NEW r \in ToSet(rows), r.parent = id, r.id \in Bad  PROVE FALSE
  <2>1. Later(rows, r.id) < Later(rows, id) /\ Later(rows, r.id) \in Nat /\ n \in Nat
    BY <1>1, <1>4, LaterChild
  <2>2. Later(rows, r.id) \in T
    BY <1>4
  <2>. QED
    BY <1>2, <1>3, <2>1, <2>2
<1>. QED
  BY <1>4

\* What VisibleTree puts under an id, if f is what it puts under those of its children.
Beneath(f, rows, expanded, id) ==
  LET those == ChildRows(rows, id)
      below(r) == IF r.id \in expanded THEN f[r.id] ELSE <<>>
  IN FlattenSeq([i \in 1..Len(those) |-> <<those[i]>> \o below(those[i])])

LEMMA BeneathSame ==
  ASSUME NEW rows, TreeRows(rows), NEW expanded, NEW id, NEW f, NEW g,
         \A r \in ToSet(rows) : r.parent = id => f[r.id] = g[r.id]
  PROVE  Beneath(f, rows, expanded, id) = Beneath(g, rows, expanded, id)
<1>. DEFINE those == ChildRows(rows, id)
            with(h, i) == <<those[i]>> \o (IF those[i].id \in expanded THEN h[those[i].id] ELSE <<>>)
<1>1. IsSeq(those) /\ ToSet(those) = {r \in ToSet(rows) : r.parent = id}
  BY ChildrenOf, Zenon
<1>. HIDE DEF those
<1>2. \A i \in 1..Len(those) : those[i] \in ToSet(rows) /\ those[i].parent = id
  <2>1. DOMAIN those = 1..Len(those)
    BY <1>1, IsSeqOf DEF IsSeq
  <2>2. \A i \in 1..Len(those) : those[i] \in ToSet(those)
    BY <2>1 DEF ToSet
  <2>. QED
    BY <1>1, <2>2
<1>3. \A i \in 1..Len(those) : f[those[i].id] = g[those[i].id]
  BY <1>2
<1>4. [i \in 1..Len(those) |-> with(f, i)] = [i \in 1..Len(those) |-> with(g, i)]
  BY <1>3
<1>. QED
  BY <1>4 DEF Beneath, those

LEMMA UnderExists ==
  ASSUME NEW rows, TreeRows(rows), NEW expanded
  PROVE  \E f : f = [id \in Int |-> Beneath(f, rows, expanded, id)]
<1>. DEFINE rank(id) == Later(rows, id)
            Right(f, n) == \A id \in Int : rank(id) < n => f[id] = Beneath(f, rows, expanded, id)
            Missing == {n \in Nat : ~ \E f : Right(f, n)}
<1>1. /\ Len(rows) \in Nat
      /\ \A id \in Int : rank(id) \in Nat /\ rank(id) <= Len(rows)
      /\ \A id \in Int, r \in ToSet(rows) : r.parent = id => r.id \in Int /\ rank(r.id) < rank(id)
  BY LaterChild
<1>. HIDE DEF rank
<1>2. ASSUME NEW n \in Nat, NEW f, Right(f, n)  PROVE \E g : Right(g, n + 1)
  <2>1. PICK g : g = [id \in Int |-> Beneath(f, rows, expanded, id)]
    OBVIOUS
  <2>2. \A id \in Int : rank(id) < n => g[id] = f[id]
    BY <1>2, <2>1
  <2>3. ASSUME NEW id \in Int, rank(id) < n + 1
        PROVE  g[id] = Beneath(g, rows, expanded, id)
    <3>1. \A r \in ToSet(rows) : r.parent = id => r.id \in Int /\ rank(r.id) < n
      <4>1. SUFFICES ASSUME NEW r \in ToSet(rows), r.parent = id
                     PROVE  r.id \in Int /\ rank(r.id) < n
        OBVIOUS
      <4>2. r.id \in Int /\ rank(r.id) < rank(id)
        BY <1>1, <4>1
      <4>3. rank(id) \in Nat /\ rank(r.id) \in Nat
        BY <1>1, <4>2
      <4>. QED
        BY <2>3, <4>2, <4>3
    <3>2. \A r \in ToSet(rows) : r.parent = id => f[r.id] = g[r.id]
      BY <2>2, <3>1
    <3>3. Beneath(f, rows, expanded, id) = Beneath(g, rows, expanded, id)
      BY <3>2, BeneathSame, Zenon
    <3>. QED
      BY <2>1, <3>3
  <2>. QED
    BY <2>3
<1>3. Missing = {}
  <2>1. SUFFICES ASSUME Missing # {} PROVE FALSE
    OBVIOUS
  <2>2. PICK n \in Missing : \A k \in Missing : n <= k
    <3>1. Missing \in SUBSET Nat
      OBVIOUS
    <3>. HIDE DEF Missing
    <3>. QED
      BY <2>1, <3>1, LeastElement
  <2>3. n \in Nat /\ ~ \E f : Right(f, n)
    BY <2>2
  <2>4. n # 0
    <3>1. SUFFICES ASSUME n = 0 PROVE Right(0, n)
      BY <2>3
    <3>2. \A id \in Int : ~(rank(id) < 0)
      BY <1>1
    <3>. QED
      BY <3>1, <3>2
  <2>5. n - 1 \in Nat /\ (n - 1) + 1 = n
    BY <2>3, <2>4
  <2>6. n - 1 \notin Missing
    BY <2>2, <2>3, <2>5, Smaller
  <2>7. \E f : Right(f, n - 1)
    BY <2>5, <2>6
  <2>. HIDE DEF Right
  <2>8. \E f : Right(f, (n - 1) + 1)
    BY <1>2, <2>5, <2>7
  <2>. QED
    BY <2>3, <2>5, <2>8
<1>4. PICK f : Right(f, Len(rows) + 1)
  <2>1. Len(rows) + 1 \in Nat
    BY <1>1
  <2>. QED
    BY <1>3, <2>1
<1>5. \A id \in Int : f[id] = Beneath(f, rows, expanded, id)
  BY <1>1, <1>4
<1>6. PICK g : g = [id \in Int |-> Beneath(f, rows, expanded, id)]
  OBVIOUS
<1>7. \A id \in Int : g[id] = f[id]
  BY <1>5, <1>6
<1>8. \A id \in Int : Beneath(f, rows, expanded, id) = Beneath(g, rows, expanded, id)
  <2>1. SUFFICES ASSUME NEW id \in Int
                 PROVE  Beneath(f, rows, expanded, id) = Beneath(g, rows, expanded, id)
    OBVIOUS
  <2>2. \A r \in ToSet(rows) : r.parent = id => f[r.id] = g[r.id]
    BY <1>1, <1>7
  <2>. QED
    BY <2>2, BeneathSame, Zenon
<1>9. g = [id \in Int |-> Beneath(g, rows, expanded, id)]
  BY <1>6, <1>8
<1>. QED
  BY <1>9

(* What VisibleTree shows is what it has under the roots.                  *)
LEMMA TreeUnder ==
  ASSUME NEW rows, TreeRows(rows), NEW expanded
  PROVE  \E f : /\ \A id \in Int : f[id] = Beneath(f, rows, expanded, id)
                /\ VisibleTree(rows, expanded) = f[NoId]
<1>. DEFINE under == CHOOSE f : f = [id \in Int |-> Beneath(f, rows, expanded, id)]
<1>1. under = [id \in Int |-> Beneath(under, rows, expanded, id)]
  BY UnderExists
<1>2. VisibleTree(rows, expanded) = under[NoId]
  BY DEF VisibleTree, Beneath
<1>. HIDE DEF under
<1>3. \A id \in Int : under[id] = Beneath(under, rows, expanded, id)
  BY <1>1
<1>. QED
  BY <1>2, <1>3

(* A tree shows rows, whichever are expanded.                              *)
LEMMA TreeShows ==
  ASSUME NEW rows, TreeRows(rows), NEW expanded
  PROVE  IsSeq(VisibleTree(rows, expanded)) /\ ToSet(VisibleTree(rows, expanded)) \subseteq ToSet(rows)
<1>1. PICK f : /\ \A id \in Int : f[id] = Beneath(f, rows, expanded, id)
               /\ VisibleTree(rows, expanded) = f[NoId]
  BY TreeUnder, Zenon
<1>. DEFINE Bad == {id \in Int : ~(IsSeq(f[id]) /\ ToSet(f[id]) \subseteq ToSet(rows))}
<1>2. Bad = {}
  <2>1. SUFFICES ASSUME Bad # {} PROVE FALSE
    OBVIOUS
  <2>2. PICK id \in Bad : \A r \in ToSet(rows) : r.parent = id => r.id \notin Bad
    <3>1. Bad \in SUBSET Int
      OBVIOUS
    <3>. HIDE DEF Bad
    <3>. QED
      BY <2>1, <3>1, LastOfBad
  <2>. DEFINE those == ChildRows(rows, id)
              below(r) == IF r.id \in expanded THEN f[r.id] ELSE <<>>
              part(i) == <<those[i]>> \o below(those[i])
              parts == [i \in 1..Len(those) |-> part(i)]
  <2>3. f[id] = FlattenSeq(parts)
    BY <1>1, <2>2, Zenon DEF Beneath
  <2>4. IsSeq(those) /\ ToSet(those) = {r \in ToSet(rows) : r.parent = id}
    BY ChildrenOf, Zenon
  <2>5. Len(those) \in Nat /\ \A i \in 1..Len(those) : those[i] \in ToSet(rows) /\ those[i].parent = id
    <3>1. Len(those) \in Nat /\ DOMAIN those = 1..Len(those)
      BY <2>4, IsSeqOf DEF IsSeq
    <3>2. \A i \in 1..Len(those) : those[i] \in ToSet(those)
      BY <3>1 DEF ToSet
    <3>. QED
      BY <2>4, <3>1, <3>2
  <2>. HIDE DEF those
  <2>6. ASSUME NEW i \in 1..Len(those)
        PROVE  IsSeq(part(i)) /\ ToSet(part(i)) \subseteq ToSet(rows)
    <3>1. those[i].id \in Int /\ those[i].id \notin Bad
      BY <2>2, <2>5 DEF TreeRows
    <3>2. IsSeq(below(those[i])) /\ ToSet(below(those[i])) \subseteq ToSet(rows)
      <4>1. IsSeq(<<>>) /\ ToSet(<<>>) = {}
        BY DEF IsSeq, ToSet
      <4>. QED
        BY <3>1, <4>1
    <3>3. PICK x : x = <<those[i]>>
      OBVIOUS
    <3>4. IsSeq(x) /\ ToSet(x) = {those[i]}
      BY <3>3 DEF IsSeq, ToSet
    <3>. HIDE DEF below
    <3>5. IsSeq(x \o below(those[i])) /\ ToSet(x \o below(those[i])) = ToSet(x) \cup ToSet(below(those[i]))
      BY <3>2, <3>4, Behind, Zenon
    <3>. QED
      BY <2>5, <3>2, <3>3, <3>4, <3>5
  <2>. HIDE DEF part
  <2>7. Len(parts) = Len(those) /\ IsSeq(parts) /\ \A i \in 1..Len(parts) : parts[i] = part(i)
    <3>1. DOMAIN parts = 1..Len(those) /\ \A i \in 1..Len(those) : parts[i] = part(i)
      OBVIOUS
    <3>2. Len(parts) = Len(those)
      BY <2>5
    <3>3. parts \in [1..Len(those) -> ToSet(parts)]
      BY DEF ToSet
    <3>. HIDE DEF parts
    <3>. QED
      BY <2>5, <3>1, <3>2, <3>3 DEF IsSeq
  <2>. HIDE DEF parts
  <2>8. /\ IsSeq(FlattenSeq(parts))
        /\ ToSet(FlattenSeq(parts)) = UNION {ToSet(parts[i]) : i \in 1..Len(parts)}
    <3>1. \A i \in 1..Len(parts) : IsSeq(parts[i])
      BY <2>6, <2>7
    <3>. QED
      BY <2>7, <3>1, FlattenRows, Zenon
  <2>9. ToSet(FlattenSeq(parts)) \subseteq ToSet(rows)
    BY <2>6, <2>7, <2>8
  <2>. QED
    BY <2>2, <2>3, <2>8, <2>9
<1>3. NoId \in Int
  BY DEF NoId
<1>. QED
  BY <1>1, <1>2, <1>3

\* The children of a row, and what f has under them.
Under(f, rows, id) ==
  UNION {{r} \cup ToSet(f[r.id]) : r \in {r \in ToSet(rows) : r.parent = id}}

\* Neither a child nor what f has under it is anywhere else.
Apart(f, rows, id) ==
  LET kids   == {r \in ToSet(rows) : r.parent = id}
      own(r) == {r} \cup ToSet(f[r.id])
  IN /\ \A r \in kids : Distinct(f[r.id]) /\ r \notin ToSet(f[r.id])
     /\ \A a, b \in kids : a # b => own(a) \cap own(b) = {}

(* What stands beneath a row with all its children expanded. *)
LEMMA BeneathRows ==
  ASSUME NEW rows, TreeRows(rows), NEW expanded, NEW id, NEW f,
         \A r \in ToSet(rows) : r.parent = id => r.id \in expanded /\ IsSeq(f[r.id])
  PROVE  /\ IsSeq(Beneath(f, rows, expanded, id))
         /\ ToSet(Beneath(f, rows, expanded, id)) = Under(f, rows, id)
         /\ Distinct(rows) /\ Apart(f, rows, id) => Distinct(Beneath(f, rows, expanded, id))
<1>. DEFINE own(r) == {r} \cup ToSet(f[r.id])
            kids   == {r \in ToSet(rows) : r.parent = id}
            those == ChildRows(rows, id)
            below(r) == IF r.id \in expanded THEN f[r.id] ELSE <<>>
            part(i) == <<those[i]>> \o below(those[i])
            parts == [i \in 1..Len(those) |-> part(i)]
<1>1. Beneath(f, rows, expanded, id) = FlattenSeq(parts)
  BY Zenon DEF Beneath
<1>2. IsSeq(those) /\ ToSet(those) = kids /\ (Distinct(rows) => Distinct(those))
  BY ChildrenOf, Zenon
<1>3. /\ Len(those) \in Nat /\ \A i \in 1..Len(those) : those[i] \in kids
      /\ \A r \in kids : \E i \in 1..Len(those) : those[i] = r
  <2>1. Len(those) \in Nat /\ DOMAIN those = 1..Len(those)
    BY <1>2, IsSeqOf DEF IsSeq
  <2>2. ToSet(those) = {those[i] : i \in 1..Len(those)}
    BY <2>1 DEF ToSet
  <2>. QED
    BY <1>2, <2>1, <2>2
<1>. HIDE DEF those
<1>4. ASSUME NEW i \in 1..Len(those)
      PROVE  /\ IsSeq(part(i)) /\ ToSet(part(i)) = own(those[i])
             /\ Distinct(f[those[i].id]) /\ those[i] \notin ToSet(f[those[i].id]) => Distinct(part(i))
  <2>1. PICK r : r = those[i] /\ r \in kids
    BY <1>3
  <2>2. PICK t : t = f[r.id] /\ IsSeq(t) /\ below(r) = t
    BY <2>1
  <2>3. PICK x : x = <<r>>
    OBVIOUS
  <2>4. IsSeq(x) /\ ToSet(x) = {r} /\ Distinct(x)
    BY <2>3 DEF IsSeq, ToSet, Distinct
  <2>5. IsSeq(x \o t) /\ ToSet(x \o t) = ToSet(x) \cup ToSet(t)
    BY <2>2, <2>4, Behind, Zenon
  <2>6. Distinct(t) /\ r \notin ToSet(t) => Distinct(x \o t)
    <3>1. SUFFICES ASSUME Distinct(t), r \notin ToSet(t) PROVE Distinct(x \o t)
      OBVIOUS
    <3>2. ToSet(x) \cap ToSet(t) = {}
      BY <2>4, <3>1
    <3>. QED
      BY <2>2, <2>4, <3>1, <3>2, BehindDistinct, Zenon
  <2>7. part(i) = x \o t
    BY <2>1, <2>2, <2>3
  <2>. QED
    BY <2>1, <2>2, <2>4, <2>5, <2>6, <2>7
<1>. HIDE DEF part
<1>5. Len(parts) = Len(those) /\ IsSeq(parts) /\ \A i \in 1..Len(parts) : parts[i] = part(i)
  <2>1. DOMAIN parts = 1..Len(those) /\ \A i \in 1..Len(those) : parts[i] = part(i)
    OBVIOUS
  <2>2. Len(parts) = Len(those)
    BY <1>3
  <2>3. parts \in [1..Len(those) -> ToSet(parts)]
    BY DEF ToSet
  <2>. HIDE DEF parts
  <2>. QED
    BY <1>3, <2>1, <2>2, <2>3 DEF IsSeq
<1>. HIDE DEF parts
<1>6. \A i \in 1..Len(parts) : IsSeq(parts[i]) /\ ToSet(parts[i]) = own(those[i])
  BY <1>4, <1>5
<1>7. PICK s : s = FlattenSeq(parts)
  OBVIOUS
<1>8. /\ IsSeq(s) /\ ToSet(s) = UNION {ToSet(parts[i]) : i \in 1..Len(parts)}
      /\ /\ \A i \in 1..Len(parts) : Distinct(parts[i])
         /\ \A i, j \in 1..Len(parts) : i # j => ToSet(parts[i]) \cap ToSet(parts[j]) = {}
         => Distinct(s)
  <2>1. \A i \in 1..Len(parts) : IsSeq(parts[i])
    BY <1>6
  <2>. QED
    BY <1>5, <1>7, <2>1, FlattenRows, Zenon
<1>9. ToSet(s) = UNION {own(r) : r \in kids}
  <2>. HIDE DEF own, kids
  <2>1. {ToSet(parts[i]) : i \in 1..Len(parts)} = {own(r) : r \in kids}
    BY <1>3, <1>5, <1>6
  <2>. QED
    BY <1>8, <2>1
<1>10. ASSUME Distinct(rows), \A r \in kids : Distinct(f[r.id]) /\ r \notin ToSet(f[r.id]),
              \A a, b \in kids : a # b => own(a) \cap own(b) = {}
       PROVE  Distinct(s)
  <2>. HIDE DEF own, kids
  <2>1. \A i \in 1..Len(parts) : Distinct(parts[i])
    BY <1>3, <1>4, <1>5, <1>10
  <2>2. \A i, j \in 1..Len(parts) : i # j => ToSet(parts[i]) \cap ToSet(parts[j]) = {}
    <3>1. SUFFICES ASSUME NEW i \in 1..Len(parts), NEW j \in 1..Len(parts), i # j
                   PROVE  ToSet(parts[i]) \cap ToSet(parts[j]) = {}
      OBVIOUS
    <3>2. those[i] # those[j]
      BY <1>2, <1>5, <1>10, <3>1 DEF Distinct
    <3>3. those[i] \in kids /\ those[j] \in kids
      BY <1>3, <1>5
    <3>4. own(those[i]) \cap own(those[j]) = {}
      BY <1>10, <3>2, <3>3
    <3>. QED
      BY <1>6, <3>4
  <2>. QED
    BY <1>8, <2>1, <2>2
<1>11. ToSet(s) = Under(f, rows, id)
  BY <1>9, Zenon DEF Under
<1>12. Distinct(rows) /\ Apart(f, rows, id) => Distinct(s)
  BY <1>10, Zenon DEF Apart
<1>. QED
  BY <1>1, <1>7, <1>8, <1>11, <1>12, Zenon

\* D[id] is what stands beneath id: its children and what stands beneath them.
Descents(rows, D) ==
  \A id \in Int : D[id] = UNION {{r} \cup D[r.id] : r \in {r \in ToSet(rows) : r.parent = id}}

LEMMA DescentSteps ==
  ASSUME NEW rows, TreeRows(rows), NEW D, Descents(rows, D)
  PROVE  /\ \A id \in Int : \A r \in D[id] : r \in ToSet(rows) /\ id < r.id
         /\ \A id \in Int : \A r \in D[id] : r.parent # id => \E q \in D[id] : q.id = r.parent
         /\ \A id \in Int : \A p \in D[id], r \in ToSet(rows) : r.parent = p.id => r \in D[id]
<1>. DEFINE After(id) == \A r \in D[id] : r \in ToSet(rows) /\ id < r.id
            Up(id) == \A r \in D[id] : r.parent # id => \E q \in D[id] : q.id = r.parent
            Down(id) == \A p \in D[id], r \in ToSet(rows) : r.parent = p.id => r \in D[id]
            Bad == {id \in Int : ~(After(id) /\ Up(id) /\ Down(id))}
<1>1. \A id \in Int : \A r : r \in D[id] <=>
        \E c \in ToSet(rows) : c.parent = id /\ (r = c \/ r \in D[c.id])
  <2>. SUFFICES ASSUME NEW id \in Int, NEW r
                PROVE  r \in D[id] <=>
                         \E c \in ToSet(rows) : c.parent = id /\ (r = c \/ r \in D[c.id])
    OBVIOUS
  <2>1. D[id] = UNION {{c} \cup D[c.id] : c \in {c \in ToSet(rows) : c.parent = id}}
    BY DEF Descents
  <2>. QED
    BY <2>1
<1>2. \A c \in ToSet(rows) : c.id \in Int /\ c.parent \in Int /\ c.parent < c.id
  BY DEF TreeRows
<1>3. Bad = {}
  <2>. SUFFICES ASSUME Bad # {} PROVE FALSE
    OBVIOUS
  <2>1. PICK id \in Bad : \A c \in ToSet(rows) : c.parent = id => c.id \notin Bad
    <3>1. Bad \in SUBSET Int
      OBVIOUS
    <3>. HIDE DEF Bad
    <3>. QED
      BY <3>1, LastOfBad
  <2>2. id \in Int /\ ~(After(id) /\ Up(id) /\ Down(id))
    BY <2>1
  <2>3. \A c \in ToSet(rows) : c.parent = id => c.id \in Int /\ After(c.id) /\ Up(c.id) /\ Down(c.id)
    BY <1>2, <2>1
  <2>. HIDE DEF Bad
  <2>4. After(id)
    <3>. SUFFICES ASSUME NEW r \in D[id] PROVE r \in ToSet(rows) /\ id < r.id
      OBVIOUS
    <3>1. PICK c \in ToSet(rows) : c.parent = id /\ (r = c \/ r \in D[c.id])
      BY <1>1, <2>2
    <3>2. CASE r = c
      BY <1>2, <3>1, <3>2
    <3>3. CASE r \in D[c.id]
      <4>1. r \in ToSet(rows) /\ c.id < r.id
        BY <2>3, <3>1, <3>3
      <4>2. c.id \in Int /\ r.id \in Int /\ id < c.id
        BY <1>2, <3>1, <4>1
      <4>. QED
        BY <2>2, <4>1, <4>2
    <3>. QED
      BY <3>1, <3>2, <3>3
  <2>5. Up(id)
    <3>1. SUFFICES ASSUME NEW r \in D[id], r.parent # id PROVE \E q \in D[id] : q.id = r.parent
      OBVIOUS
    <3>2. PICK c \in ToSet(rows) : c.parent = id /\ (r = c \/ r \in D[c.id])
      BY <1>1, <2>2
    <3>3. r \in D[c.id]
      BY <3>1, <3>2
    <3>4. c \in D[id] /\ \A q \in D[c.id] : q \in D[id]
      BY <1>1, <2>2, <3>2
    <3>5. r.parent = c.id \/ \E q \in D[c.id] : q.id = r.parent
      BY <2>3, <3>2, <3>3
    <3>. QED
      BY <3>4, <3>5
  <2>6. Down(id)
    <3>1. SUFFICES ASSUME NEW p \in D[id], NEW r \in ToSet(rows), r.parent = p.id PROVE r \in D[id]
      OBVIOUS
    <3>2. PICK c \in ToSet(rows) : c.parent = id /\ (p = c \/ p \in D[c.id])
      BY <1>1, <2>2
    <3>3. r \in D[c.id]
      <4>1. c.id \in Int
        BY <1>2
      <4>2. CASE p = c
        BY <1>1, <3>1, <4>1, <4>2
      <4>3. CASE p \in D[c.id]
        BY <2>3, <3>1, <3>2, <4>3
      <4>. QED
        BY <3>2, <4>2, <4>3
    <3>. QED
      BY <1>1, <2>2, <3>2, <3>3
  <2>. QED
    BY <2>2, <2>4, <2>5, <2>6
<1>. QED
  BY <1>3

\* Rows whose ids are numbers of their own.
Numbered(rows) ==
  /\ \A r \in ToSet(rows) : r.id \in Nat
  /\ \A r, s \in ToSet(rows) : r.id = s.id => r = s

(* No row stands beneath two others with the same parent. *)
LEMMA DescentsApart ==
  ASSUME NEW rows, TreeRows(rows), Numbered(rows), NEW D, Descents(rows, D),
         NEW a \in ToSet(rows), NEW b \in ToSet(rows), a.parent = b.parent, a # b
  PROVE  ({a} \cup D[a.id]) \cap ({b} \cup D[b.id]) = {}
<1>1. /\ \A id \in Int : \A r \in D[id] : r \in ToSet(rows) /\ id < r.id
      /\ \A id \in Int : \A r \in D[id] : r.parent # id => \E q \in D[id] : q.id = r.parent
  BY DescentSteps, Zenon
<1>2. /\ \A r \in ToSet(rows) : r.id \in Nat /\ r.parent \in Int /\ r.parent < r.id
      /\ \A r, s \in ToSet(rows) : r.id = s.id => r = s
  BY DEF TreeRows, Numbered
<1>3. ASSUME NEW x \in ToSet(rows), NEW y \in ToSet(rows), x.parent = y.parent, x # y, x \in D[y.id]
      PROVE  FALSE
  <2>1. y.id \in Int /\ x.parent \in Int /\ y.parent < y.id
    BY <1>2
  <2>2. PICK q \in D[y.id] : q.id = x.parent
    BY <1>1, <1>3, <2>1
  <2>3. y.id < q.id
    BY <1>1, <2>1, <2>2
  <2>. QED
    BY <1>3, <2>1, <2>2, <2>3
<1>. DEFINE Bad == {n \in Nat : \E r \in D[a.id] \cap D[b.id] : r.id = n}
<1>4. Bad = {}
  <2>. SUFFICES ASSUME Bad # {} PROVE FALSE
    OBVIOUS
  <2>1. PICK n \in Bad : \A k \in Bad : n <= k
    <3>1. Bad \in SUBSET Nat
      OBVIOUS
    <3>. HIDE DEF Bad
    <3>. QED
      BY <3>1, LeastElement
  <2>2. PICK r \in D[a.id] \cap D[b.id] : r.id = n
    BY <2>1
  <2>3. a.id \in Int /\ b.id \in Int /\ a.id # b.id
    BY <1>2
  <2>4. r \in ToSet(rows)
    BY <1>1, <2>2, <2>3
  <2>5. r.parent # a.id
    <3>. SUFFICES ASSUME r.parent = a.id PROVE FALSE
      OBVIOUS
    <3>1. PICK q \in D[b.id] : q.id = a.id
      BY <1>1, <2>2, <2>3
    <3>2. q = a
      BY <1>1, <1>2, <2>3, <3>1
    <3>. QED
      BY <1>3, <3>1, <3>2
  <2>6. r.parent # b.id
    <3>. SUFFICES ASSUME r.parent = b.id PROVE FALSE
      OBVIOUS
    <3>1. PICK q \in D[a.id] : q.id = b.id
      BY <1>1, <2>2, <2>3
    <3>2. q = b
      BY <1>1, <1>2, <2>3, <3>1
    <3>. QED
      BY <1>3, <3>1, <3>2
  <2>7. PICK q \in D[a.id] : q.id = r.parent
    BY <1>1, <2>2, <2>3, <2>5
  <2>8. PICK p \in D[b.id] : p.id = r.parent
    BY <1>1, <2>2, <2>3, <2>6
  <2>9. q \in ToSet(rows) /\ p \in ToSet(rows)
    BY <1>1, <2>3, <2>7, <2>8
  <2>10. q = p
    BY <1>2, <2>7, <2>8, <2>9
  <2>11. q.id \in Nat /\ q.id < n /\ n \in Nat
    BY <1>2, <2>2, <2>4, <2>7, <2>9
  <2>12. q.id \in Bad
    BY <2>7, <2>8, <2>10, <2>11
  <2>. HIDE DEF Bad
  <2>. QED
    BY <2>1, <2>11, <2>12
<1>5. D[a.id] \cap D[b.id] = {}
  <2>. SUFFICES ASSUME NEW r \in D[a.id] \cap D[b.id] PROVE FALSE
    OBVIOUS
  <2>1. r \in ToSet(rows)
    BY <1>1, <1>2
  <2>2. r.id \in Bad
    BY <1>2, <2>1
  <2>. QED
    BY <1>4, <2>2
<1>6. a \notin D[b.id] /\ b \notin D[a.id]
  BY <1>3
<1>. QED
  BY <1>5, <1>6

(* Beneath the roots stands every row. *)
LEMMA DescentsAll ==
  ASSUME NEW rows, TreeRows(rows), Numbered(rows), NEW D, Descents(rows, D),
         \A r \in ToSet(rows) : r.parent = NoId \/ \E q \in ToSet(rows) : q.id = r.parent
  PROVE  D[NoId] = ToSet(rows)
<1>1. /\ \A r \in D[NoId] : r \in ToSet(rows)
      /\ \A p \in D[NoId], r \in ToSet(rows) : r.parent = p.id => r \in D[NoId]
  <2>1. NoId \in Int
    BY DEF NoId
  <2>2. /\ \A id \in Int : \A r \in D[id] : r \in ToSet(rows) /\ id < r.id
        /\ \A id \in Int : \A p \in D[id], r \in ToSet(rows) : r.parent = p.id => r \in D[id]
    BY DescentSteps, Zenon
  <2>. QED
    BY <2>1, <2>2
<1>2. \A r \in ToSet(rows) : r.id \in Nat /\ r.parent \in Int /\ r.parent < r.id
  BY DEF TreeRows, Numbered
<1>3. \A r \in ToSet(rows) : r.parent = NoId => r \in D[NoId]
  <2>1. D[NoId] = UNION {{r} \cup D[r.id] : r \in {r \in ToSet(rows) : r.parent = NoId}}
    <3>1. NoId \in Int
      BY DEF NoId
    <3>. QED
      BY <3>1 DEF Descents
  <2>. QED
    BY <2>1
<1>. DEFINE Bad == {n \in Nat : \E r \in ToSet(rows) : r.id = n /\ r \notin D[NoId]}
<1>4. Bad = {}
  <2>. SUFFICES ASSUME Bad # {} PROVE FALSE
    OBVIOUS
  <2>1. PICK n \in Bad : \A k \in Bad : n <= k
    <3>1. Bad \in SUBSET Nat
      OBVIOUS
    <3>. HIDE DEF Bad
    <3>. QED
      BY <3>1, LeastElement
  <2>2. PICK r \in ToSet(rows) : r.id = n /\ r \notin D[NoId]
    BY <2>1
  <2>3. PICK q \in ToSet(rows) : q.id = r.parent
    BY <1>3, <2>2
  <2>4. q \notin D[NoId]
    BY <1>1, <2>2, <2>3
  <2>5. q.id \in Nat /\ q.id < n /\ n \in Nat
    BY <1>2, <2>2, <2>3
  <2>6. q.id \in Bad
    BY <2>3, <2>4, <2>5
  <2>. HIDE DEF Bad
  <2>. QED
    BY <2>1, <2>5, <2>6
<1>. QED
  BY <1>1, <1>2, <1>4

(* With every row expanded a tree shows all its rows, each once. *)
LEMMA TreeShowsAll ==
  ASSUME NEW rows, TreeRows(rows), Numbered(rows), Distinct(rows),
         \A r \in ToSet(rows) : r.parent = NoId \/ \E q \in ToSet(rows) : q.id = r.parent,
         NEW expanded, \A r \in ToSet(rows) : r.id \in expanded
  PROVE  /\ ToSet(VisibleTree(rows, expanded)) = ToSet(rows)
         /\ Len(VisibleTree(rows, expanded)) = Len(rows)
<1>1. PICK f : /\ \A id \in Int : f[id] = Beneath(f, rows, expanded, id)
               /\ VisibleTree(rows, expanded) = f[NoId]
  BY TreeUnder, Zenon
<1>2. \A r \in ToSet(rows) : r.id \in Int
  BY DEF TreeRows
<1>. DEFINE Bad == {id \in Int : ~IsSeq(f[id])}
<1>3. Bad = {}
  <2>. SUFFICES ASSUME Bad # {} PROVE FALSE
    OBVIOUS
  <2>1. PICK id \in Bad : \A r \in ToSet(rows) : r.parent = id => r.id \notin Bad
    <3>1. Bad \in SUBSET Int
      OBVIOUS
    <3>. HIDE DEF Bad
    <3>. QED
      BY <3>1, LastOfBad
  <2>2. id \in Int /\ ~IsSeq(f[id])
    BY <2>1
  <2>3. \A r \in ToSet(rows) : r.parent = id => r.id \in expanded /\ IsSeq(f[r.id])
    BY <1>2, <2>1
  <2>4. IsSeq(Beneath(f, rows, expanded, id))
    BY <2>3, BeneathRows, Zenon
  <2>. QED
    BY <1>1, <2>2, <2>4
<1>4. \A id \in Int : IsSeq(f[id])
  BY <1>3
<1>5. ASSUME NEW id \in Int
      PROVE  ToSet(f[id]) = Under(f, rows, id) /\ (Apart(f, rows, id) => Distinct(f[id]))
  <2>1. \A r \in ToSet(rows) : r.parent = id => r.id \in expanded /\ IsSeq(f[r.id])
    BY <1>2, <1>4
  <2>2. PICK s : s = Beneath(f, rows, expanded, id)
    OBVIOUS
  <2>3. ToSet(s) = Under(f, rows, id) /\ (Apart(f, rows, id) => Distinct(s))
    BY <2>1, <2>2, BeneathRows
  <2>4. f[id] = s
    BY <1>1, <2>2
  <2>. QED
    BY <2>3, <2>4
<1>6. PICK D : D = [id \in Int |-> ToSet(f[id])]
  OBVIOUS
<1>7. Descents(rows, D)
  <2>. SUFFICES ASSUME NEW id \in Int
                PROVE  D[id] = UNION {{r} \cup D[r.id] : r \in {r \in ToSet(rows) : r.parent = id}}
    BY DEF Descents
  <2>1. \A r \in {r \in ToSet(rows) : r.parent = id} : D[r.id] = ToSet(f[r.id])
    BY <1>2, <1>6
  <2>2. {{r} \cup D[r.id] : r \in {r \in ToSet(rows) : r.parent = id}}
          = {{r} \cup ToSet(f[r.id]) : r \in {r \in ToSet(rows) : r.parent = id}}
    BY <2>1
  <2>3. D[id] = ToSet(f[id])
    BY <1>6
  <2>. QED
    BY <1>5, <2>2, <2>3, Zenon DEF Under
<1>8. D[NoId] = ToSet(rows)
  BY <1>7, DescentsAll
<1>9. \A id \in Int : \A r \in D[id] : id < r.id
  BY <1>7, DescentSteps, Zenon
<1>. DEFINE Twice == {id \in Int : ~Distinct(f[id])}
<1>10. Twice = {}
  <2>. SUFFICES ASSUME Twice # {} PROVE FALSE
    OBVIOUS
  <2>1. PICK id \in Twice : \A r \in ToSet(rows) : r.parent = id => r.id \notin Twice
    <3>1. Twice \in SUBSET Int
      OBVIOUS
    <3>. HIDE DEF Twice
    <3>. QED
      BY <3>1, LastOfBad
  <2>2. id \in Int /\ ~Distinct(f[id])
    BY <2>1
  <2>3. ASSUME NEW r \in ToSet(rows), r.parent = id
        PROVE  Distinct(f[r.id]) /\ r \notin ToSet(f[r.id]) /\ D[r.id] = ToSet(f[r.id])
    <3>1. r.id \in Int /\ Distinct(f[r.id])
      BY <1>2, <2>1, <2>3
    <3>2. D[r.id] = ToSet(f[r.id])
      BY <1>6, <3>1
    <3>3. r \notin D[r.id]
      BY <1>9, <3>1
    <3>. QED
      BY <3>1, <3>2, <3>3
  <2>4. ASSUME NEW a \in ToSet(rows), NEW b \in ToSet(rows), a.parent = id, b.parent = id, a # b
        PROVE  ({a} \cup ToSet(f[a.id])) \cap ({b} \cup ToSet(f[b.id])) = {}
    <3>1. ({a} \cup D[a.id]) \cap ({b} \cup D[b.id]) = {}
      <4>1. a.parent = b.parent
        BY <2>4
      <4>. QED
        BY <1>7, <2>4, <4>1, DescentsApart
    <3>2. D[a.id] = ToSet(f[a.id]) /\ D[b.id] = ToSet(f[b.id])
      BY <2>3, <2>4
    <3>. QED
      BY <3>1, <3>2
  <2>. HIDE DEF Twice
  <2>5. Apart(f, rows, id)
    BY <2>3, <2>4 DEF Apart
  <2>. QED
    BY <1>5, <2>2, <2>5
<1>11. PICK s : s = VisibleTree(rows, expanded)
  OBVIOUS
<1>12. IsSeq(s) /\ Distinct(s) /\ ToSet(s) = ToSet(rows)
  <2>1. NoId \in Int
    BY DEF NoId
  <2>2. D[NoId] = ToSet(f[NoId])
    BY <1>6, <2>1
  <2>. QED
    BY <1>1, <1>4, <1>8, <1>10, <1>11, <2>1, <2>2
<1>13. ASSUME NEW t, IsSeq(t), Distinct(t)  PROVE Len(t) = Cardinality(ToSet(t)) /\ Len(t) \in Nat
  <2>1. PICK n \in Nat : n = Len(t)
    BY <1>13, IsSeqOf DEF IsSeq
  <2>2. DOMAIN t = 1..n /\ ToSet(t) = {t[i] : i \in 1..n}
    <3>1. DOMAIN t = 1..n
      BY <1>13, <2>1, IsSeqOf DEF IsSeq
    <3>. QED
      BY <3>1 DEF ToSet
  <2>3. PICK S : S = 1..n
    OBVIOUS
  <2>4. IsFiniteSet(S) /\ Cardinality(S) = n
    BY <2>3, FS_Interval
  <2>5. PICK g : g = [i \in S |-> t[i]]
    OBVIOUS
  <2>6. /\ g \in [S -> ToSet(t)] /\ \A x, y \in S : g[x] = g[y] => x = y
        /\ \A y \in ToSet(t) : \E x \in S : g[x] = y
    BY <1>13, <2>1, <2>2, <2>3, <2>5 DEF Distinct
  <2>7. Cardinality(ToSet(t)) = Cardinality(S)
    BY <2>4, <2>6, SameSize
  <2>. QED
    BY <2>1, <2>4, <2>7
<1>14. IsSeq(rows)
  BY DEF TreeRows
<1>. QED
  BY <1>11, <1>12, <1>13, <1>14
=============================================================================
