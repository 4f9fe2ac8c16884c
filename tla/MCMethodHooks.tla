--------------------------- MODULE MCMethodHooks ---------------------------
(* Instances of MethodHooks for TLC: constants come from the .cfg files.    *)
EXTENDS MethodHooks, TLC

\* Ids of one kind are interchangeable.
Symmetry == Permutations(Methods) \cup Permutations(Traced) \cup Permutations(Statements)

\* The history variables are written and never read: leaving them out of the
\* state identity loses no behaviour of the others.
WithoutHistory == <<calls, stack, counters, stats, agent, clock>>
============================================================================
