----------------------------- MODULE MCControlLoop -----------------------------
(* ControlLoop on small instances. *)
EXTENDS ControlLoop, TLC

CONSTANTS k1, k2

Types == k1 :> "CONGESTION" @@ k2 :> "SLA_RISK"

Symmetric == Permutations(Alert) \cup Permutations(Action)

\* Nothing is left unanswered: every event finds or makes an active alert of its key,
\* and every active alert gets its action.
EverythingIsAnswered == EventLands /\ ActiveIsAnswered

================================================================================
