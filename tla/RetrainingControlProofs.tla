------------------------ MODULE RetrainingControlProofs ------------------------
(***************************************************************************)
(* Machine-checked proofs about RetrainingControl, for every set of        *)
(* requests, models and workers, every limit and every number of faults.   *)
(***************************************************************************)
EXTENDS RetrainingControl, FiniteSetTheorems, TLAPS

--------------------------------------------------------------------------------
(* The inductive invariants of RetrainingControl. *)

\* Being in progress means owning the lock of one's model, and at most one
\* thread at a time is starting or carrying out a request.
LockDiscipline ==
  /\ \A w \in Worker : pc[w] \in StartSteps =>
       modelLock[ModelOf[req[w]]] = req[w] /\ job[req[w]] = "off"
  /\ \A v, w \in Worker :
       pc[v] \in StartSteps /\ pc[w] \in StartSteps /\ req[v] = req[w] => v = w
  /\ \A r \in Request : job[r] # "off" => modelLock[ModelOf[r]] = r

\* What holds a slot is in the running set.
SlotDiscipline == SlotHolders \subseteq running

\* Approval is known to have happened from the moment an execution has read it.
ApprovalDiscipline ==
  /\ \A r \in Request :
       status[r] = "approved" \/ job[r] # "off" => r \in AutoExecute \cup approved
  /\ \A w \in Worker :
       pc[w] \in ExecuteSteps \ {"exec_load", "exec_release"}
         => req[w] \in AutoExecute \cup approved

\* While the decision lock does not lapse, its holder is the only worker in an
\* execution, so the count it has read is an upper bound when it adds.
LimitDiscipline ==
  /\ \A w \in Worker : pc[w] \in ExecuteSteps => lock = w
  /\ Cardinality(running) <= MaxParallel
  /\ \A w \in Worker :
       pc[w] \in {"exec_lock", "exec_add"} => Cardinality(running) < MaxParallel

LEMMA TypeInit == Init => TypeOK
BY Parameters DEF Init, TypeOK, Statuses, Steps, JobSteps, Parameters

LEMMA TypeStep == TypeOK /\ [Next]_vars => TypeOK'
<1> SUFFICES ASSUME TypeOK, [Next]_vars PROVE TypeOK'
    OBVIOUS
<1> USE Parameters DEF TypeOK, Parameters, Statuses, LiveStatuses, TerminalStatuses,
        Steps, ExecuteSteps, JobSteps, markers, controls, background, history,
        Fault, Save, Goto, Begin, Return, At
<1>1. CASE UNCHANGED vars
  BY <1>1 DEF vars
<1>2. ASSUME NEW r \in Request,
             Submit(r) \/ MarkPending(r) \/ CreatorFails(r) \/ Age(r) \/ ReconScan(r)
      PROVE  TypeOK'
  BY <1>2 DEF Submit, MarkPending, CreatorFails, Age, ReconScan
<1>3. ASSUME NEW r \in Request, JobStep(r) \/ JobCallLost(r) \/ JobClearFails(r) \/ JobFails(r)
      PROVE  TypeOK'
  BY <1>3 DEF JobStep, JobCall, JobRefused, JobCooldown, JobSave, JobClear, JobRemove,
              JobOwner, JobUnlock, JobCallLost, JobClearFails, JobFails
<1>4. ASSUME NEW r \in Request, NEW result \in Outcomes, RunnerFinish(r, result)
      PROVE  TypeOK'
  BY <1>4 DEF RunnerFinish
<1>5. ASSUME NEW w \in Worker, NEW r \in Request,
             ApproveLoad(w, r) \/ RejectLoad(w, r) \/ ExecAcquire(w, r)
      PROVE  TypeOK'
  BY <1>5 DEF ApproveLoad, RejectLoad, ExecAcquire
<1>6. ASSUME NEW w \in Worker, ApproveSave(w) \/ RejectClear(w) \/ RejectSave(w) \/ RejectClearFails(w)
      PROVE  TypeOK'
  BY <1>6 DEF ApproveSave, RejectClear, RejectSave, RejectClearFails
<1>7. ASSUME NEW w \in Worker, Execute(w)
      PROVE  TypeOK'
  BY <1>7 DEF Execute, ExecLoad, ExecCooldown, ExecCount, ExecLock, ExecAdd, ExecSave,
              ExecLaunch, ExecDefer, ExecClear, ExecRelease
<1>8. ASSUME NEW w \in Worker, WorkerFails(w)
      PROVE  TypeOK'
  BY <1>8 DEF WorkerFails
<1>9. ASSUME NEW m \in Model, CooldownEnds(m) \/ ModelLockExpires(m)
      PROVE  TypeOK'
  BY <1>9 DEF CooldownEnds, ModelLockExpires
<1>10. CASE Reconcile
  BY <1>10 DEF Reconcile, ReconLoad, ReconExpire, ReconClear
<1>11. CASE DecisionLockExpires \/ Restart
  BY <1>11 DEF DecisionLockExpires, Restart
<1>12. QED
  BY <1>1, <1>2, <1>3, <1>4, <1>5, <1>6, <1>7, <1>8, <1>9, <1>10, <1>11 DEF Next, Continue

\* Every variable keeps its type in every behaviour of the control plane.
THEOREM TypeCorrect == Spec => []TypeOK
<1>1. QED BY TypeInit, TypeStep, PTL DEF Spec

--------------------------------------------------------------------------------
(* Mutual exclusion per model. *)

LEMMA LockInit == Init => LockDiscipline
BY Parameters DEF Init, LockDiscipline, StartSteps, Parameters

LEMMA LockStep == TypeOK /\ LockDiscipline /\ [Next]_vars => LockDiscipline'
<1> SUFFICES ASSUME TypeOK, LockDiscipline, [Next]_vars PROVE LockDiscipline'
    OBVIOUS
<1> USE Parameters DEF TypeOK, LockDiscipline, Parameters, StartSteps, ExecuteSteps,
        markers, controls, background, history, Save, Goto, Begin, Return, At
<1>1. CASE UNCHANGED vars
  BY <1>1 DEF vars
<1>2. ASSUME NEW r \in Request,
             Submit(r) \/ MarkPending(r) \/ CreatorFails(r) \/ Age(r) \/ ReconScan(r)
      PROVE  LockDiscipline'
  BY <1>2 DEF Submit, MarkPending, CreatorFails, Age, ReconScan
<1>3. ASSUME NEW r \in Request, JobStep(r) \/ JobCallLost(r) \/ JobClearFails(r) \/ JobFails(r)
      PROVE  LockDiscipline'
  BY <1>3 DEF JobStep, JobCall, JobRefused, JobCooldown, JobSave, JobClear, JobRemove,
              JobOwner, JobUnlock, JobCallLost, JobClearFails, JobFails
<1>4. ASSUME NEW r \in Request, NEW result \in Outcomes, RunnerFinish(r, result)
      PROVE  LockDiscipline'
  BY <1>4 DEF RunnerFinish
<1>5. ASSUME NEW w \in Worker, NEW r \in Request,
             ApproveLoad(w, r) \/ RejectLoad(w, r) \/ ExecAcquire(w, r)
      PROVE  LockDiscipline'
  BY <1>5 DEF ApproveLoad, RejectLoad, ExecAcquire
<1>6. ASSUME NEW w \in Worker, ApproveSave(w) \/ RejectClear(w) \/ RejectSave(w) \/ RejectClearFails(w)
      PROVE  LockDiscipline'
  BY <1>6 DEF ApproveSave, RejectClear, RejectSave, RejectClearFails
<1>7. ASSUME NEW w \in Worker, Execute(w)
      PROVE  LockDiscipline'
  <2>1. CASE ExecLock(w)
    BY <2>1 DEF ExecLock
  <2>2. CASE ExecLaunch(w)
    BY <2>2 DEF ExecLaunch
  <2>3. CASE ~ExecLock(w) /\ ~ExecLaunch(w)
    BY <1>7, <2>3 DEF Execute, ExecLoad, ExecCooldown, ExecCount, ExecAdd, ExecSave,
                      ExecDefer, ExecClear, ExecRelease
  <2>4. QED BY <2>1, <2>2, <2>3
<1>8. ASSUME NEW w \in Worker, WorkerFails(w)
      PROVE  LockDiscipline'
  BY <1>8 DEF WorkerFails
<1>9. ASSUME NEW m \in Model, CooldownEnds(m) \/ ModelLockExpires(m)
      PROVE  LockDiscipline'
  BY <1>9 DEF CooldownEnds, ModelLockExpires, InProgress
<1>10. CASE Reconcile
  BY <1>10 DEF Reconcile, ReconLoad, ReconExpire, ReconClear
<1>11. CASE DecisionLockExpires \/ Restart
  BY <1>11 DEF DecisionLockExpires, Restart
<1>12. QED
  BY <1>1, <1>2, <1>3, <1>4, <1>5, <1>6, <1>7, <1>8, <1>9, <1>10, <1>11 DEF Next, Continue

LEMMA LockInvariant == Spec => []LockDiscipline
<1>1. QED BY LockInit, LockStep, TypeCorrect, PTL DEF Spec

\* Two requests for one model are never in progress together, whatever fails
\* and even if the decision lock expires under its holder.
THEOREM ModelsAreExclusive == Spec => []ModelExclusion
<1>1. TypeOK /\ LockDiscipline => ModelExclusion
  BY Parameters DEF TypeOK, LockDiscipline, ModelExclusion, InProgress, Parameters
<1>2. QED BY <1>1, TypeCorrect, LockInvariant, PTL

--------------------------------------------------------------------------------
(* Jobs are counted. *)

LEMMA SlotInit == Init => SlotDiscipline
BY Parameters DEF Init, SlotDiscipline, SlotHolders, JobSteps, Parameters

LEMMA SlotStep ==
  TypeOK /\ LockDiscipline /\ SlotDiscipline /\ [Next]_vars => SlotDiscipline'
<1> SUFFICES ASSUME TypeOK, LockDiscipline, SlotDiscipline, [Next]_vars PROVE SlotDiscipline'
    OBVIOUS
<1> USE Parameters DEF TypeOK, LockDiscipline, SlotDiscipline, SlotHolders, Parameters, StartSteps, ExecuteSteps, JobSteps,
        markers, controls, background, history, Save, Goto, Begin, Return, At
<1>1. CASE UNCHANGED vars
  BY <1>1 DEF vars
<1>2. ASSUME NEW r \in Request,
             Submit(r) \/ MarkPending(r) \/ CreatorFails(r) \/ Age(r) \/ ReconScan(r)
      PROVE  SlotDiscipline'
  BY <1>2 DEF Submit, MarkPending, CreatorFails, Age, ReconScan
<1>3. ASSUME NEW r \in Request, JobStep(r) \/ JobCallLost(r) \/ JobClearFails(r) \/ JobFails(r)
      PROVE  SlotDiscipline'
  BY <1>3 DEF JobStep, JobCall, JobRefused, JobCooldown, JobSave, JobClear, JobRemove,
              JobOwner, JobUnlock, JobCallLost, JobClearFails, JobFails
<1>4. ASSUME NEW r \in Request, NEW result \in Outcomes, RunnerFinish(r, result)
      PROVE  SlotDiscipline'
  BY <1>4 DEF RunnerFinish
<1>5. ASSUME NEW w \in Worker, NEW r \in Request,
             ApproveLoad(w, r) \/ RejectLoad(w, r) \/ ExecAcquire(w, r)
      PROVE  SlotDiscipline'
  BY <1>5 DEF ApproveLoad, RejectLoad, ExecAcquire
<1>6. ASSUME NEW w \in Worker, ApproveSave(w) \/ RejectClear(w) \/ RejectSave(w) \/ RejectClearFails(w)
      PROVE  SlotDiscipline'
  BY <1>6 DEF ApproveSave, RejectClear, RejectSave, RejectClearFails
<1>7. ASSUME NEW w \in Worker, Execute(w)
      PROVE  SlotDiscipline'
  BY <1>7 DEF Execute, ExecLoad, ExecCooldown, ExecCount, ExecLock, ExecAdd, ExecSave,
              ExecLaunch, ExecDefer, ExecClear, ExecRelease
<1>8. ASSUME NEW w \in Worker, WorkerFails(w)
      PROVE  SlotDiscipline'
  BY <1>8 DEF WorkerFails
<1>9. ASSUME NEW m \in Model, CooldownEnds(m) \/ ModelLockExpires(m)
      PROVE  SlotDiscipline'
  BY <1>9 DEF CooldownEnds, ModelLockExpires
<1>10. CASE Reconcile
  BY <1>10 DEF Reconcile, ReconLoad, ReconExpire, ReconClear
<1>11. CASE DecisionLockExpires \/ Restart
  BY <1>11 DEF DecisionLockExpires, Restart
<1>12. QED
  BY <1>1, <1>2, <1>3, <1>4, <1>5, <1>6, <1>7, <1>8, <1>9, <1>10, <1>11 DEF Next, Continue

LEMMA SlotInvariant == Spec => []SlotDiscipline
<1>1. QED BY SlotInit, SlotStep, TypeCorrect, LockInvariant, PTL DEF Spec

\* No execution escapes the count: a background thread is in the running set
\* until it has written its result.
THEOREM EveryJobIsCounted == Spec => []JobsAreCounted
<1>1. SlotDiscipline => JobsAreCounted
  BY DEF SlotDiscipline, SlotHolders, JobsAreCounted
<1>2. QED BY <1>1, SlotInvariant, PTL

--------------------------------------------------------------------------------
(* The human gate. *)

LEMMA ApprovalInit == Init => ApprovalDiscipline
BY Parameters DEF Init, ApprovalDiscipline, ExecuteSteps, Parameters

LEMMA ApprovalStep ==
  TypeOK /\ ApprovalDiscipline /\ [Next]_vars => ApprovalDiscipline'
<1> SUFFICES ASSUME TypeOK, ApprovalDiscipline, [Next]_vars PROVE ApprovalDiscipline'
    OBVIOUS
<1> USE Parameters DEF TypeOK, ApprovalDiscipline, Parameters, StartSteps, ExecuteSteps,
        markers, controls, background, history, Save, Goto, Begin, Return, At
<1>1. CASE UNCHANGED vars
  BY <1>1 DEF vars
<1>2. ASSUME NEW r \in Request,
             Submit(r) \/ MarkPending(r) \/ CreatorFails(r) \/ Age(r) \/ ReconScan(r)
      PROVE  ApprovalDiscipline'
  BY <1>2 DEF Submit, MarkPending, CreatorFails, Age, ReconScan
<1>3. ASSUME NEW r \in Request, JobStep(r) \/ JobCallLost(r) \/ JobClearFails(r) \/ JobFails(r)
      PROVE  ApprovalDiscipline'
  BY <1>3 DEF JobStep, JobCall, JobRefused, JobCooldown, JobSave, JobClear, JobRemove,
              JobOwner, JobUnlock, JobCallLost, JobClearFails, JobFails
<1>4. ASSUME NEW r \in Request, NEW result \in Outcomes, RunnerFinish(r, result)
      PROVE  ApprovalDiscipline'
  BY <1>4 DEF RunnerFinish
<1>5. ASSUME NEW w \in Worker, NEW r \in Request,
             ApproveLoad(w, r) \/ RejectLoad(w, r) \/ ExecAcquire(w, r)
      PROVE  ApprovalDiscipline'
  BY <1>5 DEF ApproveLoad, RejectLoad, ExecAcquire
<1>6. ASSUME NEW w \in Worker, ApproveSave(w) \/ RejectClear(w) \/ RejectSave(w) \/ RejectClearFails(w)
      PROVE  ApprovalDiscipline'
  BY <1>6 DEF ApproveSave, RejectClear, RejectSave, RejectClearFails
<1>7. ASSUME NEW w \in Worker, Execute(w)
      PROVE  ApprovalDiscipline'
  BY <1>7 DEF Execute, ExecLoad, ExecCooldown, ExecCount, ExecLock, ExecAdd, ExecSave,
              ExecLaunch, ExecDefer, ExecClear, ExecRelease
<1>8. ASSUME NEW w \in Worker, WorkerFails(w)
      PROVE  ApprovalDiscipline'
  BY <1>8 DEF WorkerFails
<1>9. ASSUME NEW m \in Model, CooldownEnds(m) \/ ModelLockExpires(m)
      PROVE  ApprovalDiscipline'
  BY <1>9 DEF CooldownEnds, ModelLockExpires
<1>10. CASE Reconcile
  BY <1>10 DEF Reconcile, ReconLoad, ReconExpire, ReconClear
<1>11. CASE DecisionLockExpires \/ Restart
  BY <1>11 DEF DecisionLockExpires, Restart
<1>12. QED
  BY <1>1, <1>2, <1>3, <1>4, <1>5, <1>6, <1>7, <1>8, <1>9, <1>10, <1>11 DEF Next, Continue

\* Nothing that needs an approval is executed without one.
THEOREM ExecutionIsApproved == Spec => []HumanGate
<1>1. TypeOK /\ ApprovalDiscipline => HumanGate
  BY DEF TypeOK, ApprovalDiscipline, HumanGate, InProgress, StartSteps, ExecuteSteps
<1>2. QED BY <1>1, ApprovalInit, ApprovalStep, TypeCorrect, PTL DEF Spec

--------------------------------------------------------------------------------
(* The global limit. *)

\* Cardinalities of the running set when a request is added or removed.
LEMMA RunningCard ==
  ASSUME NEW S \in SUBSET Request, NEW r \in Request
  PROVE  /\ IsFiniteSet(S) /\ Cardinality(S) \in Nat
         /\ Cardinality(S \cup {r}) \in Nat
         /\ Cardinality(S \cup {r}) <= Cardinality(S) + 1
         /\ Cardinality(S \ {r}) \in Nat
         /\ Cardinality(S \ {r}) <= Cardinality(S)
<1>1. IsFiniteSet(S)
  BY Parameters, FS_Subset DEF Parameters
<1>2. Cardinality(S) \in Nat
  BY <1>1, FS_CardinalityType
<1>3. Cardinality(S \cup {r}) = IF r \in S THEN Cardinality(S) ELSE Cardinality(S) + 1
  BY <1>1, FS_AddElement
<1>4. Cardinality(S \ {r}) = IF r \in S THEN Cardinality(S) - 1 ELSE Cardinality(S)
  BY <1>1, FS_RemoveElement
<1>5. r \in S => Cardinality(S) # 0
  BY <1>1, FS_EmptySet
<1>6. QED
  BY <1>1, <1>2, <1>3, <1>4, <1>5

LEMMA LimitInit == Init => LimitDiscipline
<1>1. Cardinality({}) = 0
  BY FS_EmptySet
<1>2. QED
  BY <1>1, Parameters DEF Init, LimitDiscipline, ExecuteSteps, Parameters

\* The decision lock makes its holder the only worker in an execution; it is
\* here that the lock must not expire under its holder.
LEMMA LimitStep ==
  ASSUME ~LockMayLapse
  PROVE  TypeOK /\ LimitDiscipline /\ [Next]_vars => LimitDiscipline'
<1> SUFFICES ASSUME TypeOK, LimitDiscipline, [Next]_vars PROVE LimitDiscipline'
    OBVIOUS
<1> USE Parameters DEF TypeOK, LimitDiscipline, Parameters, ExecuteSteps,
        markers, controls, background, history, Save, Goto, Begin, Return, At
<1>0. Cardinality(running) \in Nat
  BY FS_Subset, FS_CardinalityType
<1>1. CASE UNCHANGED vars
  BY <1>1 DEF vars
<1>2. ASSUME NEW r \in Request,
             Submit(r) \/ MarkPending(r) \/ CreatorFails(r) \/ Age(r) \/ ReconScan(r)
      PROVE  LimitDiscipline'
  BY <1>2 DEF Submit, MarkPending, CreatorFails, Age, ReconScan
<1>3. ASSUME NEW r \in Request, JobStep(r) \/ JobCallLost(r) \/ JobClearFails(r) \/ JobFails(r)
      PROVE  LimitDiscipline'
  <2>1. CASE JobRemove(r)
    <3>1. running' = running \ {r} /\ UNCHANGED <<pc, req, lock>>
      BY <2>1 DEF JobRemove
    <3>2. Cardinality(running') \in Nat /\ Cardinality(running') <= Cardinality(running)
      BY <3>1, RunningCard
    <3>3. Cardinality(running') <= MaxParallel
      BY <1>0, <3>2
    <3>4. ASSUME NEW w \in Worker, pc[w] \in {"exec_lock", "exec_add"}
          PROVE  Cardinality(running') < MaxParallel
      BY <1>0, <3>2, <3>4
    <3>5. QED BY <3>1, <3>3, <3>4
  <2>2. CASE ~JobRemove(r)
    BY <1>3, <2>2 DEF JobStep, JobCall, JobRefused, JobCooldown, JobSave, JobClear,
                      JobOwner, JobUnlock, JobCallLost, JobClearFails, JobFails
  <2>3. QED BY <2>1, <2>2
<1>4. ASSUME NEW r \in Request, NEW result \in Outcomes, RunnerFinish(r, result)
      PROVE  LimitDiscipline'
  BY <1>4 DEF RunnerFinish
<1>5. ASSUME NEW w \in Worker, NEW r \in Request,
             ApproveLoad(w, r) \/ RejectLoad(w, r) \/ ExecAcquire(w, r)
      PROVE  LimitDiscipline'
  BY <1>5 DEF ApproveLoad, RejectLoad, ExecAcquire
<1>6. ASSUME NEW w \in Worker, ApproveSave(w) \/ RejectClear(w) \/ RejectSave(w) \/ RejectClearFails(w)
      PROVE  LimitDiscipline'
  BY <1>6 DEF ApproveSave, RejectClear, RejectSave, RejectClearFails
<1>7. ASSUME NEW w \in Worker, Execute(w)
      PROVE  LimitDiscipline'
  <2>1. CASE ExecAdd(w)
    <3>1. /\ running' = running \cup {req[w]} /\ UNCHANGED <<req, lock>>
          /\ pc' = [pc EXCEPT ![w] = "exec_save"] /\ pc[w] = "exec_add"
      BY <2>1 DEF ExecAdd
    <3>2. req[w] \in Request /\ Cardinality(running) < MaxParallel
      BY <3>1
    <3>3. Cardinality(running') \in Nat /\ Cardinality(running') <= Cardinality(running) + 1
      BY <3>1, <3>2, RunningCard
    <3>4. \A v \in Worker : pc'[v] \in ExecuteSteps => lock' = v
      BY <3>1
    <3>5. \A v \in Worker : pc'[v] \notin {"exec_lock", "exec_add"}
      BY <3>1, <3>4
    <3>6. Cardinality(running') <= MaxParallel
      BY <1>0, <3>2, <3>3
    <3>7. QED BY <3>4, <3>5, <3>6
  <2>2. CASE ExecCount(w)
    BY <1>0, <2>2 DEF ExecCount
  <2>3. CASE ~ExecAdd(w) /\ ~ExecCount(w)
    BY <1>7, <2>3 DEF Execute, ExecLoad, ExecCooldown, ExecLock, ExecSave,
                      ExecLaunch, ExecDefer, ExecClear, ExecRelease
  <2>4. QED BY <2>1, <2>2, <2>3
<1>8. ASSUME NEW w \in Worker, WorkerFails(w)
      PROVE  LimitDiscipline'
  BY <1>8 DEF WorkerFails
<1>9. ASSUME NEW m \in Model, CooldownEnds(m) \/ ModelLockExpires(m)
      PROVE  LimitDiscipline'
  BY <1>9 DEF CooldownEnds, ModelLockExpires
<1>10. CASE Reconcile
  BY <1>10 DEF Reconcile, ReconLoad, ReconExpire, ReconClear
<1>11. CASE DecisionLockExpires \/ Restart
  BY <1>11 DEF DecisionLockExpires, Restart
<1>12. QED
  BY <1>1, <1>2, <1>3, <1>4, <1>5, <1>6, <1>7, <1>8, <1>9, <1>10, <1>11 DEF Next, Continue

\* While the decision lock outlives the executions it protects, the running
\* set never exceeds MAX_PARALLEL_TRAINING.
THEOREM LimitIsRespected == ASSUME ~LockMayLapse PROVE Spec => []LimitRespected
<1>1. TypeOK /\ LimitDiscipline /\ [Next]_vars => LimitDiscipline'
  BY LimitStep
<1>2. LimitDiscipline => LimitRespected
  BY DEF LimitDiscipline, LimitRespected
<1>3. QED BY <1>1, <1>2, LimitInit, TypeCorrect, PTL DEF Spec

--------------------------------------------------------------------------------
(* Who releases a model lock. *)

LEMMA OwnerStep ==
  TypeOK /\ LockDiscipline /\ [Next]_vars =>
    \A m \in Model :
      modelLock[m] # NoRequest /\ modelLock'[m] # modelLock[m]
        => job[modelLock[m]] = "unlock" \/ ~InProgress(modelLock[m])
<1> SUFFICES ASSUME TypeOK, LockDiscipline, [Next]_vars, NEW m \in Model,
                    modelLock[m] # NoRequest, modelLock'[m] # modelLock[m]
             PROVE  job[modelLock[m]] = "unlock" \/ ~InProgress(modelLock[m])
    OBVIOUS
<1> USE Parameters DEF TypeOK, LockDiscipline, Parameters, markers, controls, background,
        history, Save, Goto, Begin, Return, At
<1>1. ASSUME NEW r \in Request, JobUnlock(r)
      PROVE  job[modelLock[m]] = "unlock"
  BY <1>1 DEF JobUnlock
<1>2. ASSUME NEW n \in Model, ModelLockExpires(n)
      PROVE  ~InProgress(modelLock[m])
  BY <1>2 DEF ModelLockExpires
<1>3. ASSUME NEW w \in Worker, Continue(w) \/ RejectClearFails(w) \/ WorkerFails(w),
             ~Reconcile
      PROVE  FALSE
  BY <1>3 DEF Continue, ApproveSave, RejectClear, RejectSave, Execute, ExecLoad, ExecCooldown,
              ExecCount, ExecLock, ExecAdd, ExecSave, ExecLaunch, ExecDefer, ExecClear,
              ExecRelease, RejectClearFails, WorkerFails
<1>4. ASSUME NEW r \in Request,
             \/ Submit(r) \/ MarkPending(r) \/ CreatorFails(r) \/ Age(r) \/ ReconScan(r)
             \/ (JobStep(r) /\ ~JobUnlock(r)) \/ JobCallLost(r) \/ JobClearFails(r) \/ JobFails(r)
             \/ \E result \in Outcomes : RunnerFinish(r, result)
             \/ \E w \in Worker : ApproveLoad(w, r) \/ RejectLoad(w, r) \/ ExecAcquire(w, r)
      PROVE  FALSE
  BY <1>4 DEF Submit, MarkPending, CreatorFails, Age, ReconScan, JobStep, JobCall, JobRefused,
              JobCooldown, JobSave, JobClear, JobRemove, JobOwner, JobCallLost, JobClearFails, JobFails,
              RunnerFinish, ApproveLoad, RejectLoad, ExecAcquire
<1>5. ASSUME \/ UNCHANGED vars \/ Reconcile \/ DecisionLockExpires \/ Restart
             \/ \E n \in Model : CooldownEnds(n)
      PROVE  FALSE
  BY <1>5 DEF vars, Reconcile, ReconLoad, ReconExpire, ReconClear, DecisionLockExpires,
              Restart, CooldownEnds
<1>6. QED
  BY <1>1, <1>2, <1>3, <1>4, <1>5 DEF Next

\* No thread deletes a model lock that another request has taken meanwhile:
\* a lock leaves its owner by the owner's own release or after its end.
THEOREM OnlyOwnersUnlock == Spec => OwnerUnlocks
<1>1. TypeOK /\ LockDiscipline /\ [Next]_vars =>
        [\A m \in Model :
           LET owner == modelLock[m] IN
           owner # NoRequest /\ modelLock'[m] # owner
             => job[owner] = "unlock" \/ ~InProgress(owner)]_modelLock
  BY OwnerStep
<1>2. QED BY <1>1, TypeCorrect, LockInvariant, PTL DEF Spec, OwnerUnlocks

--------------------------------------------------------------------------------
(* The control plane implements TrainingSlots. *)

\* Requests that hold a slot own the lock of their model.
LEMMA SlotOwners ==
  ASSUME TypeOK, LockDiscipline, NEW r \in SlotHolders
  PROVE  r \in Request /\ modelLock[ModelOf[r]] = r
BY Parameters DEF TypeOK, LockDiscipline, SlotHolders, StartSteps, JobSteps, Parameters

LEMMA SlotStart ==
  ASSUME TypeOK, LockDiscipline, SlotDiscipline, LimitDiscipline,
         NEW w \in Worker, ExecAdd(w)
  PROVE  Slots!Start(req[w])
<1> DEFINE r == req[w]
<1>1. /\ r \in Request /\ pc[w] = "exec_add" /\ job[r] = "off" /\ modelLock[ModelOf[r]] = r
      /\ \A v \in Worker : pc[v] \in StartSteps /\ req[v] = r => v = w
  BY Parameters DEF ExecAdd, At, TypeOK, LockDiscipline, StartSteps, Parameters
<1>2. r \notin SlotHolders
  BY <1>1 DEF SlotHolders, StartSteps, JobSteps
<1>3. \A other \in SlotHolders : ModelOf[other] # ModelOf[r]
  BY <1>1, <1>2, SlotOwners
<1>4. Cardinality(SlotHolders) < MaxParallel
  <2>1. Cardinality(running) < MaxParallel
    BY <1>1 DEF LimitDiscipline
  <2>2. running \in SUBSET Request
    BY DEF TypeOK
  <2>3. IsFiniteSet(running) /\ Cardinality(running) \in Nat
    BY <1>1, <2>2, RunningCard
  <2>4. /\ IsFiniteSet(SlotHolders)
        /\ Cardinality(SlotHolders) <= Cardinality(running)
    BY <2>3, FS_Subset DEF SlotDiscipline
  <2>5. Cardinality(SlotHolders) \in Nat
    BY <2>4, FS_CardinalityType
  <2>6. QED BY <2>1, <2>3, <2>4, <2>5, Parameters DEF Parameters
<1>5. SlotHolders' = SlotHolders \cup {r}
  <2>1. pc' = [pc EXCEPT ![w] = "exec_save"] /\ UNCHANGED <<req, job>>
    BY DEF ExecAdd, Goto, background
  <2>2. QED BY <1>1, <2>1 DEF SlotHolders, TypeOK
<1>6. Slots!Cardinality(SlotHolders) = Cardinality(SlotHolders)
  BY DEF Cardinality, Slots!Cardinality, IsFiniteSet, Slots!IsFiniteSet
<1>7. QED
  BY <1>2, <1>3, <1>4, <1>5, <1>6 DEF Slots!Start

LEMMA SlotsStep ==
  TypeOK /\ LockDiscipline /\ SlotDiscipline /\ LimitDiscipline /\ [Next]_vars
    => [Slots!Next]_SlotHolders
<1> SUFFICES ASSUME TypeOK, LockDiscipline, SlotDiscipline, LimitDiscipline, [Next]_vars
             PROVE  [Slots!Next]_SlotHolders
    OBVIOUS
<1> USE Parameters DEF TypeOK, LockDiscipline, SlotHolders, Parameters, StartSteps,
        ExecuteSteps, JobSteps, markers, controls, background, history, Save, Goto, Begin,
        Return, At
<1>1. ASSUME NEW w \in Worker, ExecAdd(w)
      PROVE  Slots!Next
  <2>1. Slots!Start(req[w]) /\ req[w] \in Request
    BY <1>1, SlotStart DEF ExecAdd
  <2>2. QED BY ONLY <2>1 DEF Slots!Next, Slots!Start
<1>2. ASSUME NEW r \in Request, JobRemove(r) \/ JobFails(r)
      PROVE  [Slots!Next]_SlotHolders
  <2>1. SlotHolders' = SlotHolders \ {r}
    BY <1>2 DEF JobRemove, JobFails
  <2>2. QED BY <2>1 DEF Slots!Next, Slots!Finish
<1>3. ASSUME NEW w \in Worker, WorkerFails(w)
      PROVE  [Slots!Next]_SlotHolders
  <2>1. CASE pc[w] \in {"exec_save", "exec_launch"}
    <3>1. SlotHolders' = SlotHolders \ {req[w]} /\ req[w] \in SlotHolders
      BY <1>3, <2>1 DEF WorkerFails
    <3>2. req[w] \in Request
      BY <2>1
    <3>3. QED BY <3>1, <3>2 DEF Slots!Next, Slots!Finish
  <2>2. CASE pc[w] \notin {"exec_save", "exec_launch"}
    <3>1. SlotHolders' = SlotHolders
      BY <1>3, <2>2 DEF WorkerFails
    <3>2. QED BY <3>1
  <2>3. QED BY <2>1, <2>2
<1>4. CASE Restart
  <2>1. SlotHolders' = {}
    BY <1>4 DEF Restart
  <2>2. QED BY <2>1 DEF Slots!Next, Slots!DropAll
<1>5. ASSUME NEW r \in Request, JobStep(r) \/ JobCallLost(r) \/ JobClearFails(r), ~JobRemove(r)
      PROVE  SlotHolders' = SlotHolders
  BY <1>5 DEF JobStep, JobCall, JobRefused, JobCooldown, JobSave, JobClear, JobOwner,
              JobUnlock, JobCallLost, JobClearFails
<1>6. ASSUME NEW r \in Request, NEW result \in Outcomes, RunnerFinish(r, result)
      PROVE  SlotHolders' = SlotHolders
  BY <1>6 DEF RunnerFinish
<1>7. ASSUME NEW w \in Worker, Continue(w) \/ RejectClearFails(w), ~ExecAdd(w), ~Reconcile
      PROVE  SlotHolders' = SlotHolders
  <2>1. CASE ExecLaunch(w)
    BY <2>1 DEF ExecLaunch
  <2>2. CASE ~ExecLaunch(w)
    BY <1>7, <2>2 DEF Continue, ApproveSave, RejectClear, RejectSave, Execute, ExecLoad,
                      ExecCooldown, ExecCount, ExecLock, ExecSave, ExecDefer, ExecClear,
                      ExecRelease, RejectClearFails
  <2>3. QED BY <2>1, <2>2
<1>8. ASSUME NEW w \in Worker, NEW r \in Request,
             ApproveLoad(w, r) \/ RejectLoad(w, r) \/ ExecAcquire(w, r)
      PROVE  SlotHolders' = SlotHolders
  BY <1>8 DEF ApproveLoad, RejectLoad, ExecAcquire
<1>9. ASSUME NEW r \in Request,
             Submit(r) \/ MarkPending(r) \/ CreatorFails(r) \/ Age(r) \/ ReconScan(r)
      PROVE  SlotHolders' = SlotHolders
  BY <1>9 DEF Submit, MarkPending, CreatorFails, Age, ReconScan
<1>10. ASSUME \/ UNCHANGED vars \/ Reconcile \/ DecisionLockExpires
              \/ \E m \in Model : CooldownEnds(m) \/ ModelLockExpires(m)
       PROVE  SlotHolders' = SlotHolders
  BY <1>10 DEF vars, Reconcile, ReconLoad, ReconExpire, ReconClear, DecisionLockExpires,
               CooldownEnds, ModelLockExpires
<1>11. QED
  BY <1>1, <1>2, <1>3, <1>4, <1>5, <1>6, <1>7, <1>8, <1>9, <1>10 DEF Next

\* While the decision lock outlives the executions it protects, what the
\* control plane does to executions is what TrainingSlots allows: a start
\* finds a free slot and a free model, and slots are freed one by one or all
\* at once by a restart.
THEOREM SlotsAreImplemented == ASSUME ~LockMayLapse PROVE Spec => ImplementsSlots
<1>1. Init => Slots!Init
  BY Parameters DEF Init, Slots!Init, SlotHolders, JobSteps, Parameters
<1>2. TypeOK /\ LimitDiscipline /\ [Next]_vars => LimitDiscipline'
  BY LimitStep
<1>3. Spec => []LimitDiscipline
  BY <1>2, LimitInit, TypeCorrect, PTL DEF Spec
<1>4. QED
  BY <1>1, <1>3, SlotsStep, TypeCorrect, LockInvariant, SlotInvariant, PTL
     DEF Spec, ImplementsSlots, Slots!Spec

================================================================================
