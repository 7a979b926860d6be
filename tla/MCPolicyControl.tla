---------------------------- MODULE MCPolicyControl ----------------------------
(* PolicyControl on small instances. *)
EXTENDS PolicyControl, TLC

Symmetric == Permutations(Alert) \cup Permutations(Action) \cup Permutations(PolicyThread)

================================================================================
