--------------------------- MODULE RetrainingControl ---------------------------
(***************************************************************************)
(* The retraining control plane of dashboard-backend (main.py).            *)
(*                                                                         *)
(* A retraining request is a JSON document in Redis.  Operators approve,   *)
(* reject and execute it through the REST API (one thread of the FastAPI   *)
(* pool per call), the schedule loop reconciles pending requests and       *)
(* executes the auto-execute ones, and every accepted execution is carried *)
(* out by a background thread that calls mlops-runner and then releases    *)
(* what it holds.  All of them share Redis, where each command is atomic   *)
(* and nothing else is: one action of this module is one Redis command     *)
(* (or one HTTP call) of one thread.                                       *)
(*                                                                         *)
(* Redis survives a restart of the dashboard; the threads do not, and      *)
(* neither does their knowledge of what they hold.                         *)
(***************************************************************************)
EXTENDS Naturals, FiniteSets

CONSTANTS
  Request,      \* requests that may ever be created
  Model,        \* models of the platform
  ModelOf,      \* the model a request retrains
  AutoExecute,  \* requests of schedules that need no approval
  Scheduled,    \* models that have an enabled schedule
  CronRequireApproval, \* RETRAINING_CRON_REQUIRE_APPROVAL of mlops-drift-monitor
  Worker,       \* threads that run handlers: the REST pool and the scheduler
  Scheduler,    \* the thread of the schedule loop
  Outcomes,     \* what an execution may report: "completed" or a failure
  MaxParallel,  \* MAX_PARALLEL_TRAINING
  NoRequest,    \* no request
  Nobody,       \* the decision lock is free
  Orphan,       \* the decision lock is held by a thread that no longer exists
  MaxFaults,    \* bound: restarts, failed commands and lost calls that happen
  LockMayLapse  \* TRUE: the 10 s decision lock may expire under its holder

ASSUME Parameters ==
  /\ IsFiniteSet(Request)
  /\ ModelOf \in [Request -> Model]
  /\ AutoExecute \subseteq Request
  /\ Scheduled \subseteq Model
  /\ CronRequireApproval \in BOOLEAN
  /\ Scheduler \in Worker
  /\ {"completed", "failed"} \subseteq Outcomes
  /\ Outcomes \subseteq {"completed", "failed", "timeout"}
  /\ MaxParallel \in Nat \ {0}
  /\ NoRequest \notin Request
  /\ Nobody \notin Worker /\ Orphan \notin Worker /\ Nobody # Orphan
  /\ MaxFaults \in Nat /\ LockMayLapse \in BOOLEAN

VARIABLES
  status,     \* request documents: the "status" field, "none" before creation
  pending,    \* requests in the pending set of their model
  unmarked,   \* requests saved by their creator, not yet in the pending set
  old,        \* requests whose created_at is older than the pending TTL
  running,    \* the Redis set mlops:requests:running
  modelLock,  \* mlops:lock:{model}: the request that owns it
  cooldown,   \* models whose last completed training is within the cooldown
  lock,       \* mlops:requests:decision_lock
  pc, req,    \* of each worker: the next command, the request it handles
  job,        \* of each request: where its background thread is
  outcome,    \* of each request: what its background thread will report
  training,   \* requests whose pipeline mlops-runner is executing
  approved,   \* history: requests an operator, or the cron's setting, approved
  faults      \* history: faults so far

vars == <<status, pending, unmarked, old, running, modelLock, cooldown, lock,
          pc, req, job, outcome, training, approved, faults>>

--------------------------------------------------------------------------------
LiveStatuses == {"pending_approval", "approved", "running"}

TerminalStatuses == Outcomes \cup {"skipped", "rejected", "expired"}

Statuses == {"none"} \cup LiveStatuses \cup TerminalStatuses

\* Steps of _attempt_execute_retraining_request, which run under the decision
\* lock, and those of them where the model lock is already taken.
ExecuteSteps == {"exec_load", "exec_cooldown", "exec_count", "exec_lock",
                 "exec_add", "exec_save", "exec_launch", "exec_defer",
                 "exec_clear", "exec_release"}

StartSteps == {"exec_add", "exec_save", "exec_launch"}

Steps == {"idle", "approve_save", "reject_clear", "reject_save",
          "recon_load", "recon_expire", "recon_clear"} \cup ExecuteSteps

\* Steps of the background thread, in order.
JobSteps == {"off", "queued", "calling", "returned", "save", "clear", "remove",
             "owner", "unlock"}

Init ==
  /\ status = [r \in Request |-> "none"]
  /\ pending = {}
  /\ unmarked = {}
  /\ old = {}
  /\ running = {}
  /\ modelLock = [m \in Model |-> NoRequest]
  /\ cooldown = {}
  /\ lock = Nobody
  /\ pc = [w \in Worker |-> "idle"]
  /\ req = [w \in Worker |-> NoRequest]
  /\ job = [r \in Request |-> "off"]
  /\ outcome = [r \in Request |-> "failed"]
  /\ training = {}
  /\ approved = {}
  /\ faults = 0

--------------------------------------------------------------------------------
(* Control flow of a worker. *)

At(w, step) == pc[w] = step

Goto(w, step) == pc' = [pc EXCEPT ![w] = step] /\ UNCHANGED req

Begin(w, step, r) ==
  /\ At(w, "idle")
  /\ pc' = [pc EXCEPT ![w] = step]
  /\ req' = [req EXCEPT ![w] = r]

\* Mutant: the handler ends without forgetting its request.
ReturnMutant(w) ==
  /\ pc' = [pc EXCEPT ![w] = "idle"]
  /\ UNCHANGED req

Return(w) ==
  /\ pc' = [pc EXCEPT ![w] = "idle"]
  /\ req' = [req EXCEPT ![w] = NoRequest]

Save(r, s) == status' = [status EXCEPT ![r] = s]

background == <<job, outcome, training>>
markers    == <<pending, unmarked, old>>
history    == <<approved, faults>>
controls   == <<running, modelLock, cooldown, lock>>

Fault == faults < MaxFaults /\ faults' = faults + 1

--------------------------------------------------------------------------------
(* Creation of requests, by the schedule loop and by mlops-drift-monitor. *)

\* A request of the monitor's cron may be born approved: it is no auto-execute
\* request, nothing retries it, and it has no pending marker.
Submit(r) ==
  /\ status[r] = "none"
  /\ \/ /\ r \in AutoExecute
        /\ Save(r, "approved")
        /\ UNCHANGED <<unmarked, approved>>
     \/ /\ r \notin AutoExecute
        /\ Save(r, "pending_approval")
        /\ unmarked' = unmarked \cup {r}
        /\ UNCHANGED approved
     \/ /\ r \notin AutoExecute /\ ~CronRequireApproval
        /\ Save(r, "approved")
        /\ approved' = approved \cup {r}
        /\ UNCHANGED unmarked
  /\ UNCHANGED <<pending, old, controls, pc, req, background, faults>>

MarkPending(r) ==
  /\ r \in unmarked
  /\ pending' = pending \cup {r}
  /\ unmarked' = unmarked \ {r}
  /\ UNCHANGED <<status, old, controls, pc, req, background, history>>

CreatorFails(r) ==
  /\ Fault
  /\ r \in unmarked
  /\ unmarked' = unmarked \ {r}
  /\ UNCHANGED <<status, pending, old, controls, pc, req, background, approved>>

\* The pending TTL of 7800 s elapses since created_at.  An auto-execute request
\* never has a marker, so that nobody asks for its age.
Age(r) ==
  /\ status[r] # "none" /\ r \notin old \cup AutoExecute
  /\ old' = old \cup {r}
  /\ UNCHANGED <<status, pending, unmarked, controls, pc, req, background, history>>

--------------------------------------------------------------------------------
(* POST /mlops/requests/{id}/approve *)

ApproveLoad(w, r) ==
  /\ w # Scheduler
  /\ status[r] = "pending_approval"
  /\ Begin(w, "approve_save", r)
  /\ UNCHANGED <<status, markers, controls, background, history>>

ApproveSave(w) ==
  /\ At(w, "approve_save")
  /\ Save(req[w], "approved")
  /\ approved' = approved \cup {req[w]}
  /\ Return(w)
  /\ UNCHANGED <<markers, controls, background, faults>>

(* POST /mlops/requests/{id}/reject *)

RejectLoad(w, r) ==
  /\ w # Scheduler
  /\ status[r] \in {"pending_approval", "approved"}
  /\ Begin(w, "reject_clear", r)
  /\ UNCHANGED <<status, markers, controls, background, history>>

RejectClear(w) ==
  /\ At(w, "reject_clear")
  /\ pending' = pending \ {req[w]}
  /\ Goto(w, "reject_save")
  /\ UNCHANGED <<status, unmarked, old, controls, background, history>>

RejectSave(w) ==
  /\ At(w, "reject_save")
  /\ Save(req[w], "rejected")
  /\ Return(w)
  /\ UNCHANGED <<markers, controls, background, history>>

--------------------------------------------------------------------------------
(* _attempt_execute_retraining_request *)

\* Mutant: an execution does not wait for the decision lock.
ExecAcquireMutant(w, r) ==
  /\ status[r] # "none"
  /\ w = Scheduler => r \in AutoExecute /\ status[r] = "approved"
  /\ lock' = w
  /\ Begin(w, "exec_load", r)
  /\ UNCHANGED <<status, markers, running, modelLock, cooldown, background, history>>

\* An operator may name any request; the scheduler's retry pass tries the
\* auto-execute requests it has read as approved.
ExecAcquire(w, r) ==
  /\ status[r] # "none"
  /\ w = Scheduler => r \in AutoExecute /\ status[r] = "approved"
  /\ lock = Nobody
  /\ lock' = w
  /\ Begin(w, "exec_load", r)
  /\ UNCHANGED <<status, markers, running, modelLock, cooldown, background, history>>

\* Mutant: a request that still waits for its approval is executed.
ExecLoadMutant(w) ==
  /\ At(w, "exec_load")
  /\ Goto(w, IF status[req[w]] \in {"pending_approval", "approved"}
             THEN "exec_cooldown" ELSE "exec_release")
  /\ UNCHANGED <<status, markers, controls, background, history>>

ExecLoad(w) ==
  /\ At(w, "exec_load")
  /\ Goto(w, IF status[req[w]] = "approved" THEN "exec_cooldown" ELSE "exec_release")
  /\ UNCHANGED <<status, markers, controls, background, history>>

ExecCooldown(w) ==
  /\ At(w, "exec_cooldown")
  /\ Goto(w, IF ModelOf[req[w]] \in cooldown THEN "exec_defer" ELSE "exec_count")
  /\ UNCHANGED <<status, markers, controls, background, history>>

\* Mutant: off by one in the comparison with the limit.
ExecCountMutant(w) ==
  /\ At(w, "exec_count")
  /\ Goto(w, IF Cardinality(running) > MaxParallel THEN "exec_defer" ELSE "exec_lock")
  /\ UNCHANGED <<status, markers, controls, background, history>>

ExecCount(w) ==
  /\ At(w, "exec_count")
  /\ Goto(w, IF Cardinality(running) >= MaxParallel THEN "exec_defer" ELSE "exec_lock")
  /\ UNCHANGED <<status, markers, controls, background, history>>

\* Mutant: SET without NX.
ExecLockMutant(w) ==
  /\ At(w, "exec_lock")
  /\ modelLock' = [modelLock EXCEPT ![ModelOf[req[w]]] = req[w]]
  /\ Goto(w, "exec_add")
  /\ UNCHANGED <<status, markers, running, cooldown, lock, background, history>>

\* SET mlops:lock:{model} request_id NX EX 7500
ExecLock(w) ==
  /\ At(w, "exec_lock")
  /\ LET m == ModelOf[req[w]] IN
     \/ /\ modelLock[m] = NoRequest
        /\ modelLock' = [modelLock EXCEPT ![m] = req[w]]
        /\ Goto(w, "exec_add")
     \/ /\ modelLock[m] # NoRequest
        /\ Goto(w, "exec_defer")
        /\ UNCHANGED modelLock
  /\ UNCHANGED <<status, markers, running, cooldown, lock, background, history>>

ExecAdd(w) ==
  /\ At(w, "exec_add")
  /\ running' = running \cup {req[w]}
  /\ Goto(w, "exec_save")
  /\ UNCHANGED <<status, markers, modelLock, cooldown, lock, background, history>>

ExecSave(w) ==
  /\ At(w, "exec_save")
  /\ Save(req[w], "running")
  /\ Goto(w, "exec_launch")
  /\ UNCHANGED <<markers, controls, background, history>>

ExecLaunch(w) ==
  /\ At(w, "exec_launch")
  /\ job' = [job EXCEPT ![req[w]] = "queued"]
  /\ Goto(w, "exec_release")
  /\ UNCHANGED <<status, markers, controls, outcome, training, history>>

\* Mutant: a deferral deletes the model lock, whoever owns it.
ExecDeferMutant(w) ==
  /\ At(w, "exec_defer")
  /\ \/ /\ req[w] \in AutoExecute
        /\ Save(req[w], "approved")
        /\ Goto(w, "exec_release")
     \/ /\ req[w] \notin AutoExecute
        /\ Save(req[w], "skipped")
        /\ Goto(w, "exec_clear")
  /\ modelLock' = [modelLock EXCEPT ![ModelOf[req[w]]] = NoRequest]
  /\ UNCHANGED <<markers, running, cooldown, lock, background, history>>

\* Deferred requests stay approved and are retried; others are skipped.
ExecDefer(w) ==
  /\ At(w, "exec_defer")
  /\ \/ /\ req[w] \in AutoExecute
        /\ Save(req[w], "approved")
        /\ Goto(w, "exec_release")
     \/ /\ req[w] \notin AutoExecute
        /\ Save(req[w], "skipped")
        /\ Goto(w, "exec_clear")
  /\ UNCHANGED <<markers, controls, background, history>>

ExecClear(w) ==
  /\ At(w, "exec_clear")
  /\ pending' = pending \ {req[w]}
  /\ Goto(w, "exec_release")
  /\ UNCHANGED <<status, unmarked, old, controls, background, history>>

\* The release compares tokens: a lock that lapsed and was taken by another
\* worker is left alone.
ExecRelease(w) ==
  /\ At(w, "exec_release")
  /\ lock' = IF lock = w THEN Nobody ELSE lock
  /\ Return(w)
  /\ UNCHANGED <<status, markers, running, modelLock, cooldown, background, history>>

--------------------------------------------------------------------------------
(* _execute_retraining_request_background *)

\* The POST reaches mlops-runner, which starts the pipeline.
JobCall(r) ==
  /\ job[r] = "queued"
  /\ job' = [job EXCEPT ![r] = "calling"]
  /\ training' = training \cup {r}
  /\ UNCHANGED <<status, markers, controls, pc, req, outcome, history>>

\* Mutant: a refused call ends the thread at once.
JobRefusedMutant(r) ==
  /\ job[r] = "queued"
  /\ job' = [job EXCEPT ![r] = "off"]
  /\ outcome' = [outcome EXCEPT ![r] = "failed"]
  /\ UNCHANGED <<status, markers, controls, pc, req, training, history>>

\* No pipeline action, no connection, or a runner that answers 4xx/5xx.
JobRefused(r) ==
  /\ job[r] = "queued"
  /\ job' = [job EXCEPT ![r] = "returned"]
  /\ outcome' = [outcome EXCEPT ![r] = "failed"]
  /\ UNCHANGED <<status, markers, controls, pc, req, training, history>>

\* The pipeline ends; the runner answers the call if anyone still waits for it.
RunnerFinish(r, result) ==
  /\ r \in training
  /\ training' = training \ {r}
  /\ \/ /\ job[r] = "calling"
        /\ job' = [job EXCEPT ![r] = "returned"]
        /\ outcome' = [outcome EXCEPT ![r] = result]
     \/ /\ job[r] # "calling"
        /\ UNCHANGED <<job, outcome>>
  /\ UNCHANGED <<status, markers, controls, pc, req, history>>

\* The call breaks (connection reset, read error) while the pipeline goes on.
JobCallLost(r) ==
  /\ Fault
  /\ job[r] = "calling"
  /\ job' = [job EXCEPT ![r] = "returned"]
  /\ outcome' = [outcome EXCEPT ![r] = "failed"]
  /\ UNCHANGED <<status, markers, controls, pc, req, training, approved>>

JobCooldown(r) ==
  /\ job[r] = "returned"
  /\ job' = [job EXCEPT ![r] = "save"]
  /\ cooldown' = IF outcome[r] = "completed" THEN cooldown \cup {ModelOf[r]} ELSE cooldown
  /\ UNCHANGED <<status, markers, running, modelLock, lock, pc, req, outcome,
                 training, history>>

JobSave(r) ==
  /\ job[r] = "save"
  /\ job' = [job EXCEPT ![r] = "clear"]
  /\ Save(r, outcome[r])
  /\ outcome' = [outcome EXCEPT ![r] = "failed"]
  /\ UNCHANGED <<markers, controls, pc, req, training, history>>

JobClear(r) ==
  /\ job[r] = "clear"
  /\ job' = [job EXCEPT ![r] = "remove"]
  /\ pending' = pending \ {r}
  /\ UNCHANGED <<status, unmarked, old, controls, pc, req, outcome, training, history>>

\* Mutant: the model lock is released, the member of the running set is not.
JobRemoveMutant(r) ==
  /\ job[r] = "remove"
  /\ job' = [job EXCEPT ![r] = "owner"]
  /\ UNCHANGED <<status, markers, controls, pc, req, outcome, training, history>>

JobRemove(r) ==
  /\ job[r] = "remove"
  /\ job' = [job EXCEPT ![r] = "owner"]
  /\ running' = running \ {r}
  /\ UNCHANGED <<status, markers, modelLock, cooldown, lock, pc, req, outcome,
                 training, history>>

\* GET mlops:lock:{model}, compared with the request id.
JobOwner(r) ==
  /\ job[r] = "owner"
  /\ job' = [job EXCEPT ![r] = IF modelLock[ModelOf[r]] = r THEN "unlock" ELSE "off"]
  /\ UNCHANGED <<status, markers, controls, pc, req, outcome, training, history>>

JobUnlock(r) ==
  /\ job[r] = "unlock"
  /\ job' = [job EXCEPT ![r] = "off"]
  /\ modelLock' = [modelLock EXCEPT ![ModelOf[r]] = NoRequest]
  /\ UNCHANGED <<status, markers, running, cooldown, lock, pc, req, outcome,
                 training, history>>

--------------------------------------------------------------------------------
(* _reconcile_pending_model_state: run for a model by the schedule loop when  *)
(* one of its enabled schedules is due, for every model when the dashboard   *)
(* starts, and, in the monitor's copy of the function, when a trigger fires. *)

ReconScan(r) ==
  /\ r \in pending
  /\ Begin(Scheduler, "recon_load", r)
  /\ UNCHANGED <<status, markers, controls, background, history>>

\* Mutant: terminal requests are passed over.
ReconLoadMutant ==
  /\ At(Scheduler, "recon_load")
  /\ LET r == req[Scheduler] IN
     \/ /\ status[r] \in LiveStatuses /\ r \in old
        /\ Goto(Scheduler, "recon_expire")
     \/ /\ status[r] \notin LiveStatuses \/ r \notin old
        /\ Return(Scheduler)
  /\ UNCHANGED <<status, markers, controls, background, history>>

ReconLoad ==
  /\ At(Scheduler, "recon_load")
  /\ LET r == req[Scheduler] IN
     \/ /\ status[r] \in TerminalStatuses
        /\ Goto(Scheduler, "recon_clear")
     \/ /\ status[r] \in LiveStatuses /\ r \in old
        /\ Goto(Scheduler, "recon_expire")
     \/ /\ status[r] \in LiveStatuses /\ r \notin old
        /\ Return(Scheduler)
  /\ UNCHANGED <<status, markers, controls, background, history>>

ReconExpire ==
  /\ At(Scheduler, "recon_expire")
  /\ Save(req[Scheduler], "expired")
  /\ Goto(Scheduler, "recon_clear")
  /\ UNCHANGED <<markers, controls, background, history>>

\* Mutant: the cleanup of an expired request also releases its controls.
ReconClearMutant ==
  /\ At(Scheduler, "recon_clear")
  /\ pending' = pending \ {req[Scheduler]}
  /\ running' = running \ {req[Scheduler]}
  /\ Return(Scheduler)
  /\ UNCHANGED <<status, unmarked, old, modelLock, cooldown, lock, background, history>>

ReconClear ==
  /\ At(Scheduler, "recon_clear")
  /\ pending' = pending \ {req[Scheduler]}
  /\ Return(Scheduler)
  /\ UNCHANGED <<status, unmarked, old, controls, background, history>>

--------------------------------------------------------------------------------
(* Time and faults. *)

\* MLOPS_RETRAIN_COOLDOWN_MINUTES after the last completed training.
CooldownEnds(m) ==
  /\ m \in cooldown
  /\ cooldown' = cooldown \ {m}
  /\ UNCHANGED <<status, markers, running, modelLock, lock, pc, req, background, history>>

\* A request is being started, carried out or finished by a live thread.
InProgress(r) ==
  \/ job[r] # "off"
  \/ \E w \in Worker : req[w] = r /\ pc[w] \in StartSteps

\* The model lock lives 300 s longer than any pipeline may run, and 270 s
\* longer than any call may wait: it expires only when both are over.
ModelLockExpires(m) ==
  /\ modelLock[m] # NoRequest
  /\ ~InProgress(modelLock[m]) /\ modelLock[m] \notin training
  /\ modelLock' = [modelLock EXCEPT ![m] = NoRequest]
  /\ UNCHANGED <<status, markers, running, cooldown, lock, pc, req, background, history>>

DecisionLockExpires ==
  /\ lock = Orphan \/ (LockMayLapse /\ lock # Nobody)
  /\ lock' = Nobody
  /\ UNCHANGED <<status, markers, running, modelLock, cooldown, pc, req, background, history>>

\* A Redis command raises: an execution goes through its finally block, where
\* a release that raises is ignored; any other handler ends where it is.
WorkerFails(w) ==
  /\ Fault
  /\ \/ /\ pc[w] \in ExecuteSteps \ {"exec_release"}
        /\ Goto(w, "exec_release")
        /\ UNCHANGED lock
     \/ /\ At(w, "exec_release")
        /\ lock' = IF lock = w THEN Orphan ELSE lock
        /\ Return(w)
     \/ /\ pc[w] \notin ExecuteSteps \cup {"idle"}
        /\ Return(w)
        /\ UNCHANGED lock
  /\ UNCHANGED <<status, markers, running, modelLock, cooldown, background, approved>>

\* clear_pending_retraining swallows the errors of its writes: the caller goes
\* on with the marker still set.
RejectClearFails(w) ==
  /\ Fault
  /\ At(w, "reject_clear")
  /\ Goto(w, "reject_save")
  /\ UNCHANGED <<status, markers, controls, background, approved>>

JobClearFails(r) ==
  /\ Fault
  /\ job[r] = "clear"
  /\ job' = [job EXCEPT ![r] = "remove"]
  /\ UNCHANGED <<status, markers, controls, pc, req, outcome, training, approved>>

\* A Redis command of a background thread raises: the thread ends.
JobFails(r) ==
  /\ Fault
  /\ job[r] \notin {"off", "calling"}
  /\ job' = [job EXCEPT ![r] = "off"]
  /\ outcome' = [outcome EXCEPT ![r] = "failed"]
  /\ UNCHANGED <<status, markers, controls, pc, req, training, approved>>

\* The dashboard process dies and is restarted; mlops-runner goes on.
Restart ==
  /\ Fault
  /\ pc' = [w \in Worker |-> "idle"]
  /\ req' = [w \in Worker |-> NoRequest]
  /\ job' = [r \in Request |-> "off"]
  /\ outcome' = [r \in Request |-> "failed"]
  /\ lock' = IF lock \in Worker THEN Orphan ELSE lock
  /\ UNCHANGED <<status, markers, running, modelLock, cooldown, training, approved>>

--------------------------------------------------------------------------------
Execute(w) ==
  \/ ExecLoad(w) \/ ExecCooldown(w) \/ ExecCount(w) \/ ExecLock(w) \/ ExecAdd(w)
  \/ ExecSave(w) \/ ExecLaunch(w) \/ ExecDefer(w) \/ ExecClear(w) \/ ExecRelease(w)

Reconcile == ReconLoad \/ ReconExpire \/ ReconClear

\* What a handler does once it has begun.
Continue(w) ==
  \/ ApproveSave(w) \/ RejectClear(w) \/ RejectSave(w) \/ Execute(w)
  \/ w = Scheduler /\ Reconcile

\* What a background thread does on its own, its call aside.
JobStep(r) ==
  \/ JobCall(r) \/ JobRefused(r) \/ JobCooldown(r) \/ JobSave(r) \/ JobClear(r)
  \/ JobRemove(r) \/ JobOwner(r) \/ JobUnlock(r)

Next ==
  \/ \E r \in Request :
       \/ Submit(r) \/ MarkPending(r) \/ CreatorFails(r) \/ Age(r)
       \/ ReconScan(r) \/ JobStep(r) \/ JobCallLost(r)
       \/ JobClearFails(r) \/ JobFails(r)
       \/ \E result \in Outcomes : RunnerFinish(r, result)
       \/ \E w \in Worker : ApproveLoad(w, r) \/ RejectLoad(w, r) \/ ExecAcquire(w, r)
  \/ \E w \in Worker : Continue(w) \/ RejectClearFails(w) \/ WorkerFails(w)
  \/ \E m \in Model : CooldownEnds(m) \/ ModelLockExpires(m)
  \/ DecisionLockExpires \/ Restart

Spec == Init /\ [][Next]_vars

\* Threads keep running, pipelines end, TTLs elapse.  The scheduler's passes
\* recur: each request it may retry is tried again and again, and the markers
\* of a model with an enabled schedule are reconciled each time it falls due
\* (strong fairness), whatever else the thread does in between.  Nothing is
\* promised of the markers of other models: they are reconciled when the
\* dashboard starts or a trigger fires, which may never happen.  Operators owe
\* nothing.
Fairness ==
  /\ \A w \in Worker : WF_vars(Continue(w))
  /\ WF_vars(DecisionLockExpires)
  /\ \A m \in Model : WF_vars(CooldownEnds(m)) /\ WF_vars(ModelLockExpires(m))
  /\ \A r \in Request :
       /\ WF_vars(JobStep(r))
       /\ WF_vars(\E result \in Outcomes : RunnerFinish(r, result))
  /\ \A r \in AutoExecute : SF_vars(ExecAcquire(Scheduler, r))
  /\ \A r \in Request \ AutoExecute :
       WF_vars(MarkPending(r)) /\ (ModelOf[r] \in Scheduled => SF_vars(ReconScan(r)))

FairSpec == Spec /\ Fairness

--------------------------------------------------------------------------------
(* Properties. *)

\* Every variable keeps its type; a worker has a request exactly while it
\* handles one.
TypeOK ==
  /\ status \in [Request -> Statuses]
  /\ pending \subseteq Request
  /\ unmarked \subseteq Request
  /\ old \subseteq Request
  /\ running \subseteq Request
  /\ modelLock \in [Model -> Request \cup {NoRequest}]
  /\ cooldown \subseteq Model
  /\ lock \in Worker \cup {Nobody, Orphan}
  /\ pc \in [Worker -> Steps]
  /\ req \in [Worker -> Request \cup {NoRequest}]
  /\ \A w \in Worker : pc[w] = "idle" <=> req[w] = NoRequest
  /\ job \in [Request -> JobSteps]
  /\ outcome \in [Request -> Outcomes]
  /\ training \subseteq Request
  /\ approved \subseteq Request
  /\ faults \in 0..MaxFaults

\* Two requests for one model are never in progress together, and a request
\* is never started while its own earlier execution is still being finished:
\* the SET NX of the model lock and the owner check of its release, across
\* restarts, failed commands and a decision lock that may expire.
ModelExclusion ==
  /\ \A r1, r2 \in Request :
       InProgress(r1) /\ InProgress(r2) /\ ModelOf[r1] = ModelOf[r2] => r1 = r2
  /\ \A w \in Worker : pc[w] \in StartSteps => job[req[w]] = "off"

\* The running set never exceeds MAX_PARALLEL_TRAINING: the count and the
\* SADD it justifies are separate commands, and background threads remove
\* members in between.
LimitRespected == Cardinality(running) <= MaxParallel

\* A background thread is counted in the running set from before it is
\* launched until it has written its result, whoever else edits the set.
JobsAreCounted ==
  \A r \in Request :
    job[r] \in JobSteps \ {"off", "owner", "unlock"} => r \in running

\* Nothing is executed that no operator ever approved, except the requests of
\* schedules and of a cron configured to need no approval: no deferral, expiry
\* or stale write makes a request executable by itself.
HumanGate ==
  \A r \in Request : InProgress(r) => r \in AutoExecute \cup approved

\* A model lock leaves its owner only when the owner's background thread
\* releases it or when the owner is no longer in progress: no thread deletes
\* a lock another request has taken meanwhile.
OwnerUnlocks ==
  [][\A m \in Model :
       LET owner == modelLock[m] IN
       owner # NoRequest /\ modelLock'[m] # owner
         => job[owner] = "unlock" \/ ~InProgress(owner)]_modelLock

\* Requests that hold a slot: started by a worker, or in a background thread
\* that has not left the running set yet.
SlotHolders ==
  {r \in Request :
     \/ job[r] \in JobSteps \ {"off", "owner", "unlock"}
     \/ \E w \in Worker : req[w] = r /\ pc[w] \in {"exec_save", "exec_launch"}}

Slots == INSTANCE TrainingSlots WITH jobs <- SlotHolders

\* The commands above implement the training slots of TrainingSlots.
ImplementsSlots == Slots!Spec

\* Operators do not call the execute endpoint for ever.
OperatorsRest ==
  <>[][\A w \in Worker \ {Scheduler}, r \in Request : ~ExecAcquire(w, r)]_vars

\* As long as nothing fails, every member of the running set leaves it again,
\* so the global limit never blocks for good.
RunningIsReleased ==
  \A r \in Request : r \in running ~> r \notin running \/ faults > 0

\* "Auto-retry will continue": a deferred auto-execute request is eventually
\* executed or decided otherwise, once operators leave the decision lock alone.
DeferredIsRetried ==
  OperatorsRest =>
    \A r \in AutoExecute : status[r] = "approved" ~> status[r] # "approved"

\* The same as long as nothing fails: a slot that a fault leaks may block it.
RetriedWithoutFault ==
  OperatorsRest =>
    \A r \in AutoExecute :
      status[r] = "approved" ~> status[r] # "approved" \/ faults > 0

\* mlops-tier/README.md:167: stale pending markers are pruned.  A marker of a
\* terminal request (left by a fault, or set after the request was decided)
\* does not stay for ever, if the model has an enabled schedule.
StaleMarkersPruned ==
  \A r \in Request \ AutoExecute :
    ModelOf[r] \in Scheduled
      => (r \in pending /\ status[r] \in TerminalStatuses
            ~> r \notin pending \/ status[r] \in LiveStatuses)

--------------------------------------------------------------------------------
(* What the documentation says and the code does not keep. *)

\* dashboard-backend/README.md:182: "`rejected` is a terminal state".
RejectedIsTerminal ==
  [][\A r \in Request : status[r] = "rejected" => status'[r] = "rejected"]_status

================================================================================
