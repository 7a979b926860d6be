----------------------------- MODULE PolicyControl -----------------------------
(***************************************************************************)
(* The remediation service (control-tier/policy-control).                  *)
(*                                                                         *)
(* The consumer reads the messages of Alert Management and keeps one       *)
(* action per alert, which the policy rules choose.  Operators approve,    *)
(* reject and execute actions through the REST API; an execution applies   *)
(* the action to the state of the simulation.  An action is a Redis hash,  *)
(* saved whole; a second key leads from the alert to its action.  One      *)
(* step is one Redis command, the writes of an actuation are one step.     *)
(*                                                                         *)
(* As in AlertManagement the consumer blocks the event loop: calls are     *)
(* given to threads only while it sleeps.                                  *)
(***************************************************************************)
EXTENDS Naturals, Sequences, FiniteSets

CONSTANTS
  Alert,         \* identifiers of alerts
  Action,        \* identifiers of actions
  AlertTypes,    \* the types alerts have
  Severities,    \* the severities they take
  PolicyThread,  \* threads that serve approve, reject and execute calls
  NoAction,      \* no action
  Unsaved,       \* the hash of an action that was never saved
  MaxMessages,   \* bound: messages of Alert Management
  MaxRead,       \* READ_COUNT
  MaxDecisions,  \* bound: approve, reject and execute calls
  MaxFaults      \* bound: failed commands and restarts

SeverityLevel == {"LOW", "MEDIUM", "HIGH", "CRITICAL"}

AlertType == {"CONGESTION", "SLA_RISK", "SLICE_MISMATCH", "FAULT_EVENT", "UNKNOWN"}

ASSUME PolicyParameters ==
  /\ AlertTypes \subseteq AlertType /\ Severities \subseteq SeverityLevel
  /\ NoAction \notin Action
  /\ MaxMessages \in Nat /\ MaxRead \in Nat \ {0} /\ MaxDecisions \in Nat /\ MaxFaults \in Nat

VARIABLES
  alertStream,  \* stream:control.alerts
  actions,      \* the hashes control:actions:{id}
  index,        \* the set control:actions:index
  byAlert,      \* the keys control:actions:by_alert:{alert}
  announced,    \* of each action: what stream:control.actions says of it
  actuated,     \* of each action: how often it was applied to the simulation
  position,     \* the message in hand
  delivered,    \* the last message that was read
  step,         \* the consumer's next command
  inHand,       \* the action the consumer has in hand
  draft,        \* the consumer's copy of its hash
  opc,          \* of each thread: its next command
  call,         \* of each thread: "approve", "reject" or "execute"
  target,       \* of each thread: the action it was called for
  hash,         \* of each thread: its copy of the hash
  granted,      \* history: actions whose approval was saved
  decisions,    \* history: calls so far
  faults        \* history: faults so far

reader == <<position, delivered, step, inHand, draft>>
threads == <<opc, call, target, hash, decisions>>
store == <<actions, index, byAlert, announced, actuated, granted>>
policyVars == <<reader, threads, store, faults>>
vars == <<alertStream, policyVars>>

--------------------------------------------------------------------------------
(* The policy rules. *)

Rule(t, s, a) == [alert_type |-> t, severity |-> s, action_type |-> a]

Rules ==
  {Rule("CONGESTION", s, "RECOMMEND_PCF_QOS_UPDATE") : s \in {"HIGH", "CRITICAL"}}
  \cup {Rule("SLA_RISK", "CRITICAL", "RECOMMEND_REROUTE_SLICE"),
        Rule("SLA_RISK", "HIGH", "INVESTIGATE_CONTEXT")}
  \cup {Rule("SLICE_MISMATCH", s, "RECOMMEND_INSPECT_SLICE_POLICY") : s \in SeverityLevel}
  \cup {Rule("FAULT_EVENT", s, "INVESTIGATE_CONTEXT") : s \in SeverityLevel}

Matching(m) == {r \in Rules : r.alert_type = m.alert_type /\ r.severity = m.severity}

ActionType == {r.action_type : r \in Rules} \cup {"NO_ACTION"}

\* What the rules make of an alert: a recommendation that needs approval, or
\* nothing to do.
Decide(m) ==
  IF Matching(m) = {}
  THEN [action_type |-> "NO_ACTION", status |-> "EXECUTED_SIMULATED"]
  ELSE [action_type |-> (CHOOSE r \in Matching(m) : TRUE).action_type,
        status |-> "PENDING_APPROVAL"]

\* The action for an alert.
Recommend(m) ==
  [alert |-> m.alert, action_type |-> Decide(m).action_type, status |-> Decide(m).status]

--------------------------------------------------------------------------------
ActionStatus == {"PENDING_APPROVAL", "APPROVED", "REJECTED", "EXECUTED_SIMULATED", "FAILED"}

Terminal == {"REJECTED", "EXECUTED_SIMULATED", "FAILED"}

ActionRecord == [alert : Alert, action_type : ActionType, status : ActionStatus]

ASSUME UnsavedIsNoRecord == Unsaved \notin ActionRecord

AlertMessage == [alert : Alert, alert_type : AlertType, severity : SeverityLevel,
                 status : {"OPEN", "ACKNOWLEDGED", "RESOLVED"}]

Init ==
  /\ alertStream = <<>>
  /\ actions = [a \in Action |-> Unsaved]
  /\ index = {}
  /\ byAlert = [i \in Alert |-> NoAction]
  /\ announced = [a \in Action |-> <<>>]
  /\ actuated = [a \in Action |-> 0]
  /\ granted = {}
  /\ position = 1
  /\ delivered = 0
  /\ step = "idle"
  /\ inHand = NoAction
  /\ draft = Unsaved
  /\ opc = [t \in PolicyThread |-> "idle"]
  /\ call = [t \in PolicyThread |-> "approve"]
  /\ target = [t \in PolicyThread |-> NoAction]
  /\ hash = [t \in PolicyThread |-> Unsaved]
  /\ decisions = 0
  /\ faults = 0

Goto(s) == step' = s /\ UNCHANGED <<position, delivered>>

Continue(t, s) == opc' = [opc EXCEPT ![t] = s] /\ UNCHANGED <<call, target, decisions>>

Return(t) ==
  /\ opc' = [opc EXCEPT ![t] = "idle"]
  /\ target' = [target EXCEPT ![t] = NoAction]
  /\ hash' = [hash EXCEPT ![t] = Unsaved]
  /\ UNCHANGED <<call, decisions>>

Publish(a, type) == announced' = [announced EXCEPT ![a] = Append(@, type)]

Fault == faults < MaxFaults /\ faults' = faults + 1

--------------------------------------------------------------------------------
(* Alert Management publishes a message.  An alert keeps its type, which is   *)
(* part of its deduplication key.                                            *)

Alerted(m) ==
  /\ Len(alertStream) < MaxMessages
  /\ \A n \in DOMAIN alertStream :
       alertStream[n].alert = m.alert => alertStream[n].alert_type = m.alert_type
  /\ alertStream' = Append(alertStream, m)
  /\ UNCHANGED policyVars

--------------------------------------------------------------------------------
(* The consumer. *)

Message == alertStream[position]

Lesser(m, n) == IF m < n THEN m ELSE n

\* XREADGROUP with ">": what is delivered is never delivered again.
Read ==
  /\ step \in {"idle", "read"}
  /\ delivered < Len(alertStream)
  /\ position' = delivered + 1
  /\ delivered' = Lesser(delivered + MaxRead, Len(alertStream))
  /\ step' = "find"
  /\ UNCHANGED <<alertStream, inHand, draft, threads, store, faults>>

\* Nothing to read: the consumer sleeps and the event loop runs.
ReadNothing ==
  /\ step \in {"idle", "read"}
  /\ delivered = Len(alertStream)
  /\ Goto("idle")
  /\ UNCHANGED <<alertStream, inHand, draft, threads, store, faults>>

\* Resolved alerts are ignored; GET control:actions:by_alert:{alert} for the
\* others.
Find ==
  /\ step = "find"
  /\ \/ /\ Message.status = "RESOLVED"
        /\ Goto("ack")
        /\ UNCHANGED inHand
     \/ /\ Message.status # "RESOLVED" /\ byAlert[Message.alert] = NoAction
        /\ Goto("create")
        /\ UNCHANGED inHand
     \/ /\ Message.status # "RESOLVED" /\ byAlert[Message.alert] # NoAction
        /\ Goto("load")
        /\ inHand' = byAlert[Message.alert]
  /\ UNCHANGED <<alertStream, draft, threads, store, faults>>

\* Mutant: an alert whose action is decided gets a new one.
LoadMutant ==
  /\ step = "load"
  /\ IF actions[inHand] # Unsaved /\ actions[inHand].status = "PENDING_APPROVAL"
     THEN Goto("update") /\ draft' = actions[inHand]
     ELSE Goto("create") /\ UNCHANGED draft
  /\ UNCHANGED <<alertStream, inHand, threads, store, faults>>

\* HGETALL: only a pending action follows its alert.
Load ==
  /\ step = "load"
  /\ LET rec == actions[inHand] IN
     \/ /\ rec = Unsaved
        /\ Goto("create") /\ UNCHANGED draft
     \/ /\ rec # Unsaved /\ rec.status = "PENDING_APPROVAL"
        /\ Goto("update") /\ draft' = rec
     \/ /\ rec # Unsaved /\ rec.status # "PENDING_APPROVAL"
        /\ Goto("ack") /\ UNCHANGED draft
  /\ UNCHANGED <<alertStream, inHand, threads, store, faults>>

\* Mutant: the new action is not added to the index.
CreateMutant(a) ==
  /\ step = "create"
  /\ actions[a] = Unsaved
  /\ draft' = Recommend(Message)
  /\ actions' = [actions EXCEPT ![a] = draft']
  /\ inHand' = a
  /\ Goto("point")
  /\ UNCHANGED <<alertStream, index, byAlert, announced, actuated, granted, threads, faults>>

\* HSET of a new action under a fresh identifier.
Create(a) ==
  /\ step = "create"
  /\ actions[a] = Unsaved
  /\ draft' = Recommend(Message)
  /\ actions' = [actions EXCEPT ![a] = draft']
  /\ inHand' = a
  /\ Goto("list")
  /\ UNCHANGED <<alertStream, index, byAlert, announced, actuated, granted, threads, faults>>

\* SADD control:actions:index
List ==
  /\ step = "list"
  /\ index' = index \cup {inHand}
  /\ Goto("point")
  /\ UNCHANGED <<alertStream, inHand, draft, threads, actions, byAlert, announced, actuated,
                 granted, faults>>

\* SET control:actions:by_alert:{alert}
Point ==
  /\ step = "point"
  /\ byAlert' = [byAlert EXCEPT ![Message.alert] = inHand]
  /\ Goto("created")
  /\ UNCHANGED <<alertStream, inHand, draft, threads, actions, index, announced, actuated,
                 granted, faults>>

\* Mutant: the new decision keeps the status of the old one.
UpdateMutant ==
  /\ step = "update"
  /\ draft' = [draft EXCEPT !.action_type = Decide(Message).action_type]
  /\ actions' = [actions EXCEPT ![inHand] = draft']
  /\ Goto("updated")
  /\ UNCHANGED <<alertStream, inHand, threads, index, byAlert, announced, actuated, granted,
                 faults>>

\* Mutant: a pending action keeps its first decision.
UpdateKeeps ==
  /\ step = "update"
  /\ Goto("updated")
  /\ UNCHANGED <<alertStream, inHand, draft, threads, store, faults>>

\* HSET of every field, decided anew from the message; the SADD that follows
\* finds the action listed.
Update ==
  /\ step = "update"
  /\ draft' = Recommend(Message)
  /\ actions' = [actions EXCEPT ![inHand] = draft']
  /\ Goto("updated")
  /\ UNCHANGED <<alertStream, inHand, threads, index, byAlert, announced, actuated, granted,
                 faults>>

\* XADD stream:control.actions
Announce ==
  /\ step \in {"created", "updated"}
  /\ Publish(inHand, step)
  /\ Goto("ack")
  /\ UNCHANGED <<alertStream, inHand, draft, threads, actions, index, byAlert, actuated,
                 granted, faults>>

\* Mutant: an acknowledgement gives up the rest of what was read.
AckMutant ==
  /\ step = "ack"
  /\ step' = "read"
  /\ position' = delivered + 1
  /\ inHand' = NoAction
  /\ draft' = Unsaved
  /\ UNCHANGED <<alertStream, delivered, threads, store, faults>>

\* XACK; the next message that was read, or the next read.
Ack ==
  /\ step = "ack"
  /\ step' = IF position < delivered THEN "find" ELSE "read"
  /\ position' = position + 1
  /\ inHand' = NoAction
  /\ draft' = Unsaved
  /\ UNCHANGED <<alertStream, delivered, threads, store, faults>>

\* A command raises: the message is given up and acknowledged.
MessageFails ==
  /\ Fault
  /\ step \notin {"idle", "read", "ack"}
  /\ Goto("ack")
  /\ UNCHANGED <<alertStream, inHand, draft, threads, store>>

\* XACK raises: the loop starts again, the rest of what was read is given up.
AckFails ==
  /\ Fault
  /\ step = "ack"
  /\ step' = "idle"
  /\ position' = delivered + 1
  /\ inHand' = NoAction
  /\ draft' = Unsaved
  /\ UNCHANGED <<alertStream, delivered, threads, store>>

--------------------------------------------------------------------------------
(* POST /actions/{id}/approve, /actions/{id}/reject, /actions/{id}/execute *)

\* The event loop gives a call for a listed action to a thread.
Dispatch(t, c, a) ==
  /\ step = "idle"
  /\ opc[t] = "idle"
  /\ a \in index
  /\ decisions < MaxDecisions
  /\ decisions' = decisions + 1
  /\ opc' = [opc EXCEPT ![t] = "load"]
  /\ call' = [call EXCEPT ![t] = c]
  /\ target' = [target EXCEPT ![t] = a]
  /\ UNCHANGED <<alertStream, reader, store, hash, faults>>

\* Mutant: pending actions can be executed.
AllowsMutant(c, status) ==
  CASE c = "approve" -> status = "PENDING_APPROVAL"
    [] c = "reject" -> status \notin Terminal
    [] c = "execute" -> status \in {"PENDING_APPROVAL", "APPROVED"}

\* The statuses in which a call is carried out; in others it is refused (409).
Allows(c, status) ==
  CASE c = "approve" -> status = "PENDING_APPROVAL"
    [] c = "reject" -> status \notin Terminal
    [] c = "execute" -> status = "APPROVED"

\* Mutant: the name of the call for the name of the status.
OutcomeMutant(c) == c

\* The status a call gives an action.
Outcome(c) ==
  CASE c = "approve" -> "APPROVED"
    [] c = "reject" -> "REJECTED"
    [] c = "execute" -> "EXECUTED_SIMULATED"

\* Mutant: an execution writes its result before it acts.
ThreadLoadMutant(t) ==
  /\ opc[t] = "load"
  /\ LET rec == actions[target[t]] IN
     \/ /\ ~Allows(call[t], rec.status)
        /\ Return(t)
     \/ /\ Allows(call[t], rec.status)
        /\ hash' = [hash EXCEPT ![t] = rec]
        /\ Continue(t, "save")
  /\ UNCHANGED <<alertStream, reader, store, faults>>

\* HGETALL
ThreadLoad(t) ==
  /\ opc[t] = "load"
  /\ LET rec == actions[target[t]] IN
     \/ /\ ~Allows(call[t], rec.status)
        /\ Return(t)
     \/ /\ Allows(call[t], rec.status)
        /\ hash' = [hash EXCEPT ![t] = rec]
        /\ Continue(t, IF call[t] = "execute" THEN "actuate" ELSE "save")
  /\ UNCHANGED <<alertStream, reader, store, faults>>

\* The keys control:sim:* and control:actuation:*, the actuation itself and
\* its message.
Actuate(t) ==
  /\ opc[t] = "actuate"
  /\ actuated' = [actuated EXCEPT ![target[t]] = @ + 1]
  /\ Continue(t, "save")
  /\ UNCHANGED <<alertStream, reader, actions, index, byAlert, announced, granted, hash, faults>>

\* HSET of every field, as read and then changed.
ThreadSave(t) ==
  /\ opc[t] = "save"
  /\ hash' = [hash EXCEPT ![t].status = Outcome(call[t])]
  /\ actions' = [actions EXCEPT ![target[t]] = hash'[t]]
  /\ granted' = IF call[t] = "approve" THEN granted \cup {target[t]} ELSE granted
  /\ Continue(t, "announce")
  /\ UNCHANGED <<alertStream, reader, index, byAlert, announced, actuated, faults>>

\* XADD stream:control.actions
ThreadAnnounce(t) ==
  /\ opc[t] = "announce"
  /\ Publish(target[t], call[t])
  /\ Return(t)
  /\ UNCHANGED <<alertStream, reader, actions, index, byAlert, actuated, granted, faults>>

\* A command of a call raises: the caller gets an error.
CallFails(t) ==
  /\ Fault
  /\ opc[t] # "idle"
  /\ Return(t)
  /\ UNCHANGED <<alertStream, reader, store>>

\* The service dies and is restarted.
Restart ==
  /\ Fault
  /\ step' = "idle"
  /\ position' = delivered + 1
  /\ inHand' = NoAction
  /\ draft' = Unsaved
  /\ opc' = [t \in PolicyThread |-> "idle"]
  /\ target' = [t \in PolicyThread |-> NoAction]
  /\ hash' = [t \in PolicyThread |-> Unsaved]
  /\ UNCHANGED <<alertStream, delivered, store, call, decisions>>

--------------------------------------------------------------------------------
Process ==
  \/ Read \/ ReadNothing \/ Find \/ Load \/ (\E a \in Action : Create(a)) \/ List \/ Point
  \/ Update \/ Announce \/ Ack

Serve(t) == ThreadLoad(t) \/ Actuate(t) \/ ThreadSave(t) \/ ThreadAnnounce(t)

\* Whatever policy-control does.
PolicyNext ==
  \/ Process \/ MessageFails \/ AckFails \/ Restart
  \/ \E t \in PolicyThread :
       \/ Serve(t) \/ CallFails(t)
       \/ \E c \in {"approve", "reject", "execute"}, a \in Action : Dispatch(t, c, a)

Next ==
  \/ PolicyNext
  \/ \E m \in AlertMessage :
       m.alert_type \in AlertTypes /\ m.severity \in Severities /\ Alerted(m)

Spec == Init /\ [][Next]_vars

--------------------------------------------------------------------------------
(* Properties. *)

\* Every variable keeps its type.
TypeOK ==
  /\ alertStream \in Seq(AlertMessage)
  /\ actions \in [Action -> ActionRecord \cup {Unsaved}]
  /\ index \subseteq Action
  /\ byAlert \in [Alert -> Action \cup {NoAction}]
  /\ announced \in [Action -> Seq({"created", "updated", "approve", "reject", "execute"})]
  /\ actuated \in [Action -> Nat]
  /\ granted \subseteq Action
  /\ position \in Nat \ {0} /\ delivered \in Nat
  /\ step \in {"idle", "read", "find", "load", "create", "list", "point", "created",
               "update", "updated", "ack"}
  /\ inHand \in Action \cup {NoAction}
  /\ draft \in ActionRecord \cup {Unsaved}
  /\ opc \in [PolicyThread -> {"idle", "load", "actuate", "save", "announce"}]
  /\ call \in [PolicyThread -> {"approve", "reject", "execute"}]
  /\ target \in [PolicyThread -> Action \cup {NoAction}]
  /\ hash \in [PolicyThread -> ActionRecord \cup {Unsaved}]
  /\ decisions \in 0..MaxDecisions
  /\ faults \in 0..MaxFaults

\* The human gate: whatever the interleaving of approvals, rejections,
\* executions, policy updates and failures, nothing is applied to the
\* simulation that no operator has approved.
ActuationIsApproved == \A a \in Action : actuated[a] > 0 => a \in granted

\* A recommendation that is recorded as executed was applied: the record is
\* never ahead of the actuation, whatever fails between them.
ExecutedIsActuated ==
  \A a \in Action :
    actions[a] # Unsaved /\ actions[a].status = "EXECUTED_SIMULATED"
                         /\ actions[a].action_type # "NO_ACTION"
      => actuated[a] > 0

\* An alert leads to an action that is saved, can be listed and is its own.
LookupConsistent ==
  \A i \in Alert :
    byAlert[i] # NoAction =>
      byAlert[i] \in index /\ actions[byAlert[i]] # Unsaved /\ actions[byAlert[i]].alert = i

\* Nothing to do is never left to an operator, and never approved: the type
\* and the status of an action are written together by every writer, so that
\* stale writes do not mix two decisions.
NothingToApprove ==
  \A a \in Action :
    actions[a] # Unsaved /\ actions[a].action_type = "NO_ACTION"
      => actions[a].status = "EXECUTED_SIMULATED"

\* Without failures an alert has one action, however often it is repeated and
\* whatever operators decide meanwhile.
OneActionEach ==
  faults = 0 =>
    \A a, b \in Action :
      actions[a] # Unsaved /\ actions[b] # Unsaved /\ actions[a].alert = actions[b].alert => a = b

\* The messages about alert i the consumer has finished with that are not resolutions.
Handled(i) == {n \in 1..(position - 1) : alertStream[n].alert = i /\ alertStream[n].status # "RESOLVED"}

\* Without failures a pending action is what the rules make of the last
\* message about its alert, whatever operators were doing while it came.
PendingIsLatest ==
  faults = 0 /\ step \in {"idle", "read"} =>
    \A a \in Action :
      actions[a] # Unsaved /\ actions[a].status = "PENDING_APPROVAL" =>
        \E n \in Handled(actions[a].alert) :
          /\ \A k \in Handled(actions[a].alert) : k <= n
          /\ actions[a].action_type = Decide(alertStream[n]).action_type

--------------------------------------------------------------------------------
(* What the documentation says and the code does not keep. *)

\* action_store.py:117: "Only APPROVED actions can be executed."
OnlyApprovedExecuted ==
  [][\A a \in Action : actuated'[a] > actuated[a] => actions[a].status = "APPROVED"]_actuated

================================================================================
