-------------------------- MODULE RegistryPromise --------------------------
(***************************************************************************)
(* What Profiler.registerMethod promises the threads that transform        *)
(* classes, as if each call were one step: a method gets an id of its own  *)
(* once and for ever, ids leave no gap, and whoever has been given an id   *)
(* finds the method's own objects at it, at once and from then on.         *)
(***************************************************************************)
EXTENDS Naturals

CONSTANT Keys \* class name, method name and descriptor

VARIABLES
  next,   \* the next id
  ids,    \* a function on the methods registered so far
  handed, \* every <<key, id>> that a call has returned
  found   \* every <<id, key>> that a hook with one of these ids can find

vars == <<next, ids, handed, found>>

Init ==
  /\ next = 0
  /\ ids = [k \in {} |-> 0]
  /\ handed = {}
  /\ found = {}

\* The first call for k: it gets the next id.
Register(k) ==
  /\ k \notin DOMAIN ids
  /\ next' = next + 1
  /\ ids' = [j \in DOMAIN ids \cup {k} |-> IF j = k THEN next ELSE ids[j]]
  /\ handed' = handed \cup {<<k, next>>}
  /\ found' = found \cup {<<next, k>>}

\* Any later call for k is told the same, and changes nothing.
Next == \E k \in Keys : Register(k)

Spec == Init /\ [][Next]_vars
=============================================================================
