-------------------------- MODULE MCRetrainingControl --------------------------
(* RetrainingControl on small instances: one or two models, two or three      *)
(* requests, one or two threads of the REST pool and the scheduler.           *)
EXTENDS RetrainingControl

CONSTANTS r1, r2, a1, m1, m2

\* Every request retrains the same model.
OneModel == [r \in Request |-> m1]

\* r2 retrains a model of its own.
TwoModels == [r \in Request |-> IF r = r2 THEN m2 ELSE m1]

\* What an execution or a creator leaves behind goes away: slots of the running set
\* are given back unless a fault leaks them, and whatever fails, the markers that
\* decided requests of a scheduled model still have are pruned.
NothingIsLeftBehind == RunningIsReleased /\ StaleMarkersPruned

================================================================================
