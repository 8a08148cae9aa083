--------------------------- MODULE MCByocLifecycle ---------------------------
(* Instances of ByocLifecycle for TLC.                                       *)
EXTENDS ByocLifecycle

CONSTANTS r1, r2, a1, a2

OneRef == {r1}
TwoRefs == {r1, r2}
OneApi == {a1}
TwoApis == {a1, a2}

(* Two edits with a failure between them, and moves between two references. *)
EditsAndFaults ==
  {[refs |-> OneRef, edits |-> 2, faults |-> 1],
   [refs |-> TwoRefs, edits |-> 2, faults |-> 0]}

(* The least that lets a rename, a move undone or a deletion go wrong.      *)
OneEdit == {[refs |-> TwoRefs, edits |-> 1, faults |-> 0]}
TwoEdits == {[refs |-> OneRef, edits |-> 2, faults |-> 0]}
OneFault == {[refs |-> OneRef, edits |-> 0, faults |-> 1]}
=============================================================================
