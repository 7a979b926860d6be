------------------------------ MODULE ControlLoop ------------------------------
(***************************************************************************)
(* The control tier: AlertManagement and PolicyControl, two services that  *)
(* share nothing but stream:control.alerts.  What the first appends is     *)
(* what the second reads; each keeps its own pace, operators and failures. *)
(***************************************************************************)
EXTENDS AlertManagement

CONSTANTS
  TypeOfKey,  \* the alert type in a deduplication key
  MaxPolicyFaults,
  Action, PolicyThread, NoAction, Unsaved, MaxRead, MaxDecisions,
  MaxMessages  \* bound: messages of the stream

VARIABLES
  actions, index, byAlert, announced, actuated, granted, position, delivered, step,
  inHand, draft, opc, call, target, hash, decisions, policyFaults

policyState ==
  <<actions, index, byAlert, announced, actuated, granted, position, delivered, step,
    inHand, draft, opc, call, target, hash, decisions, policyFaults>>

loopVars == <<vars, policyState>>

\* A message of the stream as policy-control reads it: the payload is the whole
\* alert, whose deduplication key contains its type.
Payload(msg) == [alert |-> msg.alert, alert_type |-> TypeOfKey[msg.key],
                 severity |-> msg.severity, status |-> msg.status]

Policy == INSTANCE PolicyControl WITH
  alertStream <- [n \in DOMAIN stream |-> Payload(stream[n])],
  AlertTypes <- {TypeOfKey[k] : k \in Key},
  Severities <- Severity,
  faults <- policyFaults,
  MaxFaults <- MaxPolicyFaults

ASSUME LoopParameters ==
  /\ \A k \in Key : TypeOfKey[k] \in Policy!AlertType
  /\ Severity \subseteq Policy!SeverityLevel
  /\ NoAction \notin Action
  /\ Unsaved \notin Policy!ActionRecord
  /\ MaxMessages \in Nat /\ MaxRead \in Nat \ {0}
  /\ MaxDecisions \in Nat /\ MaxPolicyFaults \in Nat

LoopInit == Init /\ Policy!Init

\* Alert Management takes a step of its own.
Alerting(A) == A /\ Len(stream') <= MaxMessages /\ UNCHANGED policyState

AlertStep == Alerting(Next)

PolicyStep == UNCHANGED vars /\ Policy!PolicyNext

LoopSpec == LoopInit /\ [][AlertStep \/ PolicyStep]_loopVars

\* Both services keep running.
LoopFairSpec ==
  /\ LoopSpec
  /\ WF_loopVars(Alerting(Process \/ ReadNothing))
  /\ \A h \in Operator : WF_loopVars(Alerting(Serve(h)))
  /\ WF_loopVars(UNCHANGED vars /\ Policy!Process)
  /\ \A t \in PolicyThread : WF_loopVars(UNCHANGED vars /\ Policy!Serve(t))

--------------------------------------------------------------------------------
(* Properties. *)

\* Alert Management is an environment as PolicyControl assumes it: seen from
\* policy-control, every step of the control tier is one of its own steps, a
\* message about an alert of unchanging type, or nothing at all.
ImplementsPolicy == Policy!Spec

\* An operator who decides on an action can look its alert up: the action of
\* an alert never exists before the alert is saved and listed, whatever fails
\* in either service.
ActionsHaveAlerts ==
  \A a \in Action :
    actions[a] # Unsaved =>
      actions[a].alert \in listed /\ alerts[actions[a].alert] # Absent

\* The loop answers: without failures every active alert gets its action, also
\* when operators resolve it, or revive it, while its messages are on the way.
ActiveIsAnswered == \A i \in Alert : Active(i) ~> byAlert[i] # NoAction

================================================================================
