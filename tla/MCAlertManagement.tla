--------------------------- MODULE MCAlertManagement ---------------------------
(* AlertManagement on small instances. *)
EXTENDS AlertManagement, TLC

Symmetric == Permutations(Alert) \cup Permutations(Operator)

================================================================================
