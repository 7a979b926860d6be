--------------------------- MODULE RetrainingIntake ---------------------------
(***************************************************************************)
(* How mlops-drift-monitor comes to ask for the retraining of a model      *)
(* (drift-monitor/main.py): a loop that counts anomalies, a Kafka handler, *)
(* a cron loop and two endpoints each look for a cooldown and for a        *)
(* pending request, and create one 30 lines later.  They are tasks of one  *)
(* event loop, which another task enters wherever one awaits Redis: one    *)
(* action is one Redis command of one task.                                *)
(*                                                                         *)
(* All keys are per model, so this is one model.  Of what the dashboard    *)
(* does to a request (RetrainingControl) only the writes are here.  The    *)
(* marker's own key and the lease are left out: they end with the TTL, and *)
(* all that is decided by them is to drop a marker that old.               *)
(***************************************************************************)
EXTENDS Naturals, FiniteSets

CONSTANTS
  Request,        \* requests that may be created
  Task,           \* the tasks that create them, endpoint calls among them
  Monitor,        \* the task of the anomaly loop
  NoTask,         \* no task
  NoRequest,      \* no request
  MaxIntakeFaults \* bound: failed commands and restarts

ASSUME IntakeParameters ==
  /\ Monitor \in Task /\ NoTask \notin Task /\ NoRequest \notin Request
  /\ MaxIntakeFaults \in Nat

VARIABLES
  trigger,  \* what a task creates: DRIFT requests, or SCHEDULED ones
  gated,    \* RETRAINING_CRON_REQUIRE_APPROVAL
  status,   \* request documents: their status, "none" before creation
  creator,  \* and the task that created them
  pending,  \* the pending set of the model
  old,      \* open requests created longer than the pending TTL ago
  unmarked, \* history: requests that wait without a marker, as its creator failed
            \* before it was set or a rejection has removed it
  cooling,  \* a request was recorded less than the cooldown ago
  task,     \* of each task: where it is, and what it has read
  intakeFaults

intakeVars == <<trigger, gated, status, creator, pending, old, unmarked, cooling, task,
               intakeFaults>>

Live == {"pending_approval", "approved"}  \* approved: until its execution has ended
Closed == {"closed"}  \* closed: rejected, skipped, expired or ended, one way or another

\* left: the ids of the pending set still to be looked at; found: one of them is live;
\* scan: the look at startup, which creates nothing.
Tasks ==
  [at : {"idle", "cooldown", "members", "get", "expire", "remove", "save", "mark",
         "record"},
   left : SUBSET Request, found : BOOLEAN, req : Request \cup {NoRequest},
   scan : BOOLEAN]

Idle == [at |-> "idle", left |-> {}, found |-> FALSE, req |-> NoRequest, scan |-> FALSE]
Scanning == [Idle EXCEPT !.at = "members", !.scan = TRUE]

IntakeInit ==
  /\ trigger \in [Task -> {"DRIFT", "SCHEDULED"}] /\ trigger[Monitor] = "DRIFT"
  /\ gated \in BOOLEAN
  /\ status = [r \in Request |-> "none"]
  /\ creator = [r \in Request |-> NoTask]
  /\ pending = {} /\ old = {} /\ unmarked = {} /\ cooling = FALSE
  /\ task = [t \in Task |-> IF t = Monitor THEN Scanning ELSE Idle]
  /\ intakeFaults = 0

\* The request's status is saved; nobody asks for the age of a closed one any more.
Save(r, s) ==
  /\ status' = [status EXCEPT ![r] = s]
  /\ old' = IF s \in Closed THEN old \ {r} ELSE old
  /\ unmarked' = unmarked \ {r}

At(t, step) == task[t].at = step
Becomes(t, state) == task' = [task EXCEPT ![t] = state]
Steps(t, step) == Becomes(t, [task[t] EXCEPT !.at = step])

documents == <<status, creator, old, unmarked>>
surroundings == <<trigger, gated, intakeFaults>>

-----------------------------------------------------------------------------
\* A task sets out: the monitor at a poll that finds drift, the others for an event,
\* the clock or a caller.  Drift looks at the cooldown first, schedules last.
Begin(t) ==
  /\ At(t, "idle") /\ ~task[Monitor].scan
  /\ Becomes(t, [Idle EXCEPT !.at = IF trigger[t] = "DRIFT" THEN "cooldown" ELSE "members"])
  /\ UNCHANGED <<documents, pending, cooling, surroundings>>

_is_in_cooldown(t) ==
  /\ At(t, "cooldown")
  /\ IF cooling THEN Becomes(t, Idle)
     ELSE Steps(t, IF trigger[t] = "DRIFT" THEN "members" ELSE "save")
  /\ UNCHANGED <<documents, pending, cooling, surroundings>>

\* The ids of the pending set are read at once, their documents one after the other.
ReadMembers(t) ==
  /\ At(t, "members")
  /\ Becomes(t, [task[t] EXCEPT !.at = "get", !.left = pending])
  /\ UNCHANGED <<documents, pending, cooling, surroundings>>

\* Mutant: no request is too old.
SeenMutant(t, r) ==
  LET rest == [task[t] EXCEPT !.left = @ \ {r}] IN
  IF status[r] \in Closed THEN [rest EXCEPT !.at = "remove", !.req = r]
  ELSE [rest EXCEPT !.found = @ \/ task[t].scan \/ trigger[creator[r]] = trigger[t]]

\* What is closed loses its marker, what is older than the TTL is given up first, and
\* what is left counts if it is of the trigger the task asks for.
Seen(t, r) ==
  LET rest == [task[t] EXCEPT !.left = @ \ {r}] IN
  IF status[r] \in Closed THEN [rest EXCEPT !.at = "remove", !.req = r]
  ELSE IF r \in old THEN [rest EXCEPT !.at = "expire", !.req = r]
  ELSE [rest EXCEPT !.found = @ \/ task[t].scan \/ trigger[creator[r]] = trigger[t]]

GetDocument(t) ==
  /\ At(t, "get")
  /\ \E r \in task[t].left : Becomes(t, Seen(t, r))
  /\ UNCHANGED <<documents, pending, cooling, surroundings>>

\* The document that was read is saved as expired, which closes it, whatever it has
\* become.
Expire(t) ==
  /\ At(t, "expire")
  /\ Save(task[t].req, "closed")
  /\ Steps(t, "remove")
  /\ UNCHANGED <<creator, pending, cooling, surroundings>>

\* Mutant: the id is forgotten before its marker is removed.
_clear_pending_retrainingMutant(t) ==
  /\ At(t, "remove") /\ task[t].req # NoRequest
  /\ Becomes(t, [task[t] EXCEPT !.req = NoRequest])
  /\ UNCHANGED <<documents, pending, cooling, surroundings>>

_clear_pending_retraining(t) ==
  /\ At(t, "remove")
  /\ pending' = pending \ {task[t].req}
  /\ Becomes(t, [task[t] EXCEPT !.at = "get", !.req = NoRequest])
  /\ UNCHANGED <<documents, cooling, surroundings>>

\* Mutant: the look at the pending set is not waited for.
AllSeenMutant(t) == At(t, "get")

AllSeen(t) == At(t, "get") /\ task[t].left = {}

\* A live request of the same trigger is a duplicate; otherwise the task goes on.
_has_pending_request(t) ==
  /\ AllSeen(t)
  /\ IF task[t].scan \/ task[t].found THEN Becomes(t, Idle)
     ELSE Becomes(t, [Idle EXCEPT !.at = IF trigger[t] = "DRIFT" THEN "save" ELSE "cooldown"])
  /\ UNCHANGED <<documents, pending, cooling, surroundings>>

Unused == {r \in Request : status[r] = "none"}

\* The document is saved under an id of its own; scheduled requests that need no approval
\* are born approved and get no marker.  (Ids are interchangeable: any unused one will do.)
_create_retraining_request(t) ==
  /\ At(t, "save") /\ Unused # {}
  /\ LET r == CHOOSE r \in Unused : TRUE
         asks == gated \/ trigger[t] = "DRIFT" IN
     /\ Save(r, IF asks THEN "pending_approval" ELSE "approved")
     /\ creator' = [creator EXCEPT ![r] = t]
     /\ Becomes(t, IF asks THEN [Idle EXCEPT !.at = "mark", !.req = r]
                ELSE [Idle EXCEPT !.at = "record"])
  /\ UNCHANGED <<pending, cooling, surroundings>>

_mark_pending_retraining(t) ==
  /\ At(t, "mark") /\ Becomes(t, [Idle EXCEPT !.at = "record"])
  /\ pending' = pending \cup {task[t].req}
  /\ unmarked' = unmarked \ {task[t].req}
  /\ UNCHANGED <<status, creator, old, cooling, surroundings>>

_record_trigger(t) ==
  /\ At(t, "record") /\ Becomes(t, Idle)
  /\ cooling' = TRUE
  /\ UNCHANGED <<documents, pending, surroundings>>

\* Requests that these tasks have saved and not marked yet.
MarkedNext(tasks) ==
  {r \in Request : status[r] = "pending_approval" /\
                   \E t \in tasks : At(t, "mark") /\ task[t].req = r}

\* A command fails: loops catch it and start over, an endpoint answers with it, the look
\* at startup is given up in the end (that it is tried again is a restart below).
TaskFails(t) ==
  /\ ~At(t, "idle") /\ Becomes(t, Idle)
  /\ unmarked' = unmarked \cup MarkedNext({t})
  /\ intakeFaults < MaxIntakeFaults /\ intakeFaults' = intakeFaults + 1
  /\ UNCHANGED <<status, creator, old, pending, cooling, trigger, gated>>

MonitorRestarts ==
  /\ task' = [t \in Task |-> IF t = Monitor THEN Scanning ELSE Idle]
  /\ unmarked' = unmarked \cup MarkedNext(Task)
  /\ intakeFaults < MaxIntakeFaults /\ intakeFaults' = intakeFaults + 1
  /\ UNCHANGED <<status, creator, old, pending, cooling, trigger, gated>>

-----------------------------------------------------------------------------
\* The operators and jobs of dashboard-backend move a request on; the marker of one
\* that is closed so is removed later, or never, ...
DashboardMoves(r) ==
  /\ \/ status[r] = "pending_approval" /\ Save(r, "approved")
     \/ status[r] \in Live /\ Save(r, "closed")
  /\ UNCHANGED <<creator, pending, cooling, task, surroundings>>

\* ... except that a rejection removes the marker first, and may get no further ...
RejectionClears(r) ==
  /\ status[r] \in Live /\ pending' = pending \ {r}
  /\ unmarked' = IF status[r] = "pending_approval" THEN unmarked \cup {r} ELSE unmarked
  /\ UNCHANGED <<status, creator, old, cooling, task, surroundings>>

\* ... and its schedule loop gives up what nobody has decided on.
DashboardPrunes(r) ==
  /\ r \in pending
  /\ \/ /\ status[r] \in Closed
        /\ pending' = pending \ {r} /\ UNCHANGED <<status, old, unmarked>>
     \/ /\ r \in old /\ Save(r, "closed")
        /\ UNCHANGED pending
  /\ UNCHANGED <<creator, cooling, task, surroundings>>

\* Time goes by.
Age(r) ==
  /\ status[r] \in Live /\ r \notin old
  /\ old' = old \cup {r}
  /\ UNCHANGED <<status, creator, unmarked, pending, cooling, task, surroundings>>

CooldownEnds ==
  /\ cooling /\ cooling' = FALSE
  /\ UNCHANGED <<documents, pending, task, surroundings>>

TaskSteps(t) ==
  \/ Begin(t) \/ _is_in_cooldown(t) \/ ReadMembers(t) \/ GetDocument(t) \/ Expire(t)
  \/ _clear_pending_retraining(t) \/ _has_pending_request(t)
  \/ _create_retraining_request(t) \/ _mark_pending_retraining(t) \/ _record_trigger(t)

IntakeNext ==
  \/ \E t \in Task : TaskSteps(t) \/ TaskFails(t)
  \/ MonitorRestarts
  \/ \E r \in Request : DashboardMoves(r) \/ RejectionClears(r)
                       \/ DashboardPrunes(r) \/ Age(r)
  \/ CooldownEnds

\* The anomalies stay over the threshold of a monitor that is enabled: its loop goes on.
\* Operators, the dashboard, other callers and events owe nothing.
IntakeFairness == WF_intakeVars(TaskSteps(Monitor))

IntakeSpec == IntakeInit /\ [][IntakeNext]_intakeVars /\ IntakeFairness

-----------------------------------------------------------------------------

IntakeTypeOK ==
  /\ trigger \in [Task -> {"DRIFT", "SCHEDULED"}] /\ trigger[Monitor] = "DRIFT"
  /\ gated \in BOOLEAN
  /\ status \in [Request -> {"none"} \cup Live \cup Closed]
  /\ creator \in [Request -> Task \cup {NoTask}]
  /\ pending \subseteq Request /\ old \subseteq Request /\ unmarked \subseteq Request
  /\ cooling \in BOOLEAN
  /\ task \in [Task -> Tasks]
  /\ intakeFaults \in 0..MaxIntakeFaults
  /\ \A t \in Task : At(t, "expire") \/ At(t, "remove") \/ At(t, "mark") => task[t].req # NoRequest

\* No task has two requests waiting for their operators, whatever is done between its
\* look at the pending set and its marker, unless one of them has no marker to be seen
\* by: its creator failed before it was set, or a rejection removed it and has not saved
\* the document (dashboard-backend/main.py:1753).  The look does not keep the tasks from
\* each other: each may have one waiting.
OneWaitsEach ==
  \A r, s \in Request \ unmarked :
    /\ status[r] = "pending_approval" /\ status[s] = "pending_approval"
    /\ creator[r] = creator[s]
    => r = s

\* While drift stays, there is again and again a cooldown or an open request that is not
\* too old: neither one that nobody decides on, nor the marker of one that is closed, not
\* even if it was set after the decision, keeps the monitor from asking.  (All ids may be
\* used up.)
DriftIsAnswered ==
  []<>(cooling \/ Unused = {} \/ \E r \in Request \ old : status[r] \in Live)

================================================================================
