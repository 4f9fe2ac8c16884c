------------------------- MODULE MCRecordingControl -------------------------
(* Instances of RecordingControl for TLC: every class has a name of its own. *)
EXTENDS RecordingControl, TLC

OwnName == [c \in Classes |-> c]

Symmetry == Permutations(Handlers) \cup Permutations(Classes)
=============================================================================
