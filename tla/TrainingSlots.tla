----------------------------- MODULE TrainingSlots -----------------------------
(***************************************************************************)
(* What the retraining control plane promises about executions, without    *)
(* saying how: at most MaxParallel retraining jobs at a time, at most one  *)
(* per model, and a job that ends frees its slot.  README.md:141 of the    *)
(* platform names the checks ("per-model lock, global concurrency limit"); *)
(* RetrainingControl is the code that makes them.                          *)
(***************************************************************************)
EXTENDS Naturals, FiniteSets

CONSTANTS Request, Model, ModelOf, MaxParallel

VARIABLE jobs  \* requests that hold a training slot

Init == jobs = {}

Start(r) ==
  /\ r \notin jobs
  /\ \A other \in jobs : ModelOf[other] # ModelOf[r]
  /\ Cardinality(jobs) < MaxParallel
  /\ jobs' = jobs \cup {r}

Finish(r) ==
  /\ r \in jobs
  /\ jobs' = jobs \ {r}

\* The process that carries the jobs out is restarted.
DropAll == jobs' = {}

Next == (\E r \in Request : Start(r) \/ Finish(r)) \/ DropAll

Spec == Init /\ [][Next]_jobs

================================================================================
