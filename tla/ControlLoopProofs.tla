--------------------------- MODULE ControlLoopProofs ---------------------------
(***************************************************************************)
(* Machine-checked proofs about ControlLoop: Alert Management keeps the    *)
(* promises policy-control relies on, so that what is proved of each       *)
(* service alone holds of the two together.                                *)
(***************************************************************************)
EXTENDS ControlLoop, AlertManagementProofs

\* The proofs about policy-control, with the stream as it sees it.
Remedy == INSTANCE PolicyControlProofs WITH
  alertStream <- [n \in DOMAIN stream |-> Payload(stream[n])],
  AlertTypes <- {TypeOfKey[k] : k \in Key},
  Severities <- Severity,
  faults <- policyFaults,
  MaxFaults <- MaxPolicyFaults

\* The constants are as the proofs about policy-control need them.
LEMMA PolicyConstants == Remedy!PolicyParameters /\ Remedy!UnsavedIsNoRecord
BY LoopParameters
DEF LoopParameters, Remedy!PolicyParameters, Remedy!UnsavedIsNoRecord, Remedy!AlertType,
    Remedy!SeverityLevel, Remedy!ActionRecord, Remedy!ActionType, Remedy!Rules, Remedy!Rule,
    Remedy!ActionStatus,
    Policy!AlertType, Policy!SeverityLevel, Policy!ActionRecord, Policy!ActionType, Policy!Rules,
    Policy!Rule, Policy!ActionStatus

--------------------------------------------------------------------------------
(* The stream, as policy-control reads it. *)

\* ControlLoop's substitution, of any stream.
Payloads(s) == [n \in DOMAIN s |-> Payload(s[n])]

\* A message of Alert Management is one that policy-control knows.
LEMMA PayloadType ==
  ASSUME NEW msg \in Message
  PROVE  /\ Payload(msg) \in Policy!AlertMessage
         /\ Payload(msg).alert_type \in {TypeOfKey[k] : k \in Key}
         /\ Payload(msg).severity \in Severity
BY LoopParameters
DEF LoopParameters, Payload, Message, AlertStatus, Policy!AlertMessage

\* To append a message is to append its payload.
LEMMA PayloadsAppend ==
  ASSUME NEW s \in Seq(Message), NEW msg \in Message
  PROVE  /\ Len(Payloads(s)) = Len(s)
         /\ Payloads(Append(s, msg)) = Append(Payloads(s), Payload(msg))
<1>1. s \in [1..Len(s) -> Message] /\ Len(s) \in Nat /\ DOMAIN s = 1..Len(s)
  BY LenProperties
<1>2. /\ Payloads(s) \in Seq(Policy!AlertMessage)
      /\ DOMAIN Payloads(s) = 1..Len(s)
  BY <1>1, PayloadType, SeqDef DEF Payloads
<1>3. Len(Payloads(s)) = Len(s)
  BY <1>1, <1>2, LenProperties
<1>4. /\ Append(s, msg) \in Seq(Message)
      /\ DOMAIN Append(s, msg) = 1..Len(s) + 1
      /\ Append(s, msg)[Len(s) + 1] = msg
      /\ \A n \in 1..Len(s) : Append(s, msg)[n] = s[n]
  BY <1>1
<1>5. /\ DOMAIN Append(Payloads(s), Payload(msg)) = 1..Len(s) + 1
      /\ Append(Payloads(s), Payload(msg))[Len(s) + 1] = Payload(msg)
      /\ \A n \in 1..Len(s) : Append(Payloads(s), Payload(msg))[n] = Payloads(s)[n]
  BY <1>1, <1>2, <1>3, PayloadType
<1>6. \A n \in 1..Len(s) + 1 :
        Payloads(Append(s, msg))[n] = Append(Payloads(s), Payload(msg))[n]
  BY <1>1, <1>4, <1>5 DEF Payloads
<1>7. QED
  BY <1>3, <1>4, <1>5, <1>6 DEF Payloads

--------------------------------------------------------------------------------
(* Each service in the loop. *)

\* In the loop Alert Management does nothing it does not do alone.
LEMMA LoopStepAlerts == [AlertStep \/ PolicyStep]_loopVars => [Next]_vars
BY DEF AlertStep, Alerting, PolicyStep, loopVars

LEMMA LoopAlerts == LoopSpec => [](TypeOK /\ HoldingDiscipline /\ MessageDiscipline)
<1>1. LoopInit => TypeOK /\ HoldingDiscipline /\ MessageDiscipline
  BY HoldingInit, MessageInit DEF LoopInit
<1>2. TypeOK /\ HoldingDiscipline /\ [Next]_vars => (TypeOK /\ HoldingDiscipline)'
  BY TypeStep, BatchStep, DedupStep, HandStep, ThreadStep DEF HoldingDiscipline
<1>3. TypeOK /\ HoldingDiscipline /\ MessageDiscipline /\ [AlertStep \/ PolicyStep]_loopVars
        => (TypeOK /\ HoldingDiscipline /\ MessageDiscipline)'
  BY <1>2, LoopStepAlerts, MessageStep
<1>4. QED BY <1>1, <1>3, PTL DEF LoopSpec

\* What Alert Management appends is a message that policy-control expects: one of its
\* types and severities, about an alert whose type has not changed.
LEMMA AppendIsAlerted ==
  ASSUME TypeOK, HoldingDiscipline, MessageDiscipline, Next,
         NEW msg, stream' = Append(stream, msg), Len(stream') <= MaxMessages,
         UNCHANGED policyState
  PROVE  Policy!Next
<1>1. /\ stream \in Seq(Message) /\ stream' \in Seq(Message)
      /\ MessageDiscipline'
  BY TypeStep, MessageStep DEF TypeOK
<1>2. /\ DOMAIN stream = 1..Len(stream) /\ Len(stream) \in Nat
      /\ Len(stream') = Len(stream) + 1 /\ DOMAIN stream' = 1..Len(stream) + 1
      /\ stream'[Len(stream) + 1] = msg
      /\ \A n \in 1..Len(stream) : stream'[n] = stream[n]
  BY <1>1
<1>3. msg \in Message
  BY <1>1, <1>2
<1>4. /\ Len(Payloads(stream)) < MaxMessages
      /\ Payloads(stream') = Append(Payloads(stream), Payload(msg))
  <2>1. Len(Payloads(stream)) = Len(stream)
    BY <1>1, <1>3, PayloadsAppend
  <2>2. Len(stream) < MaxMessages
    BY <1>2, LoopParameters DEF LoopParameters
  <2>3. QED BY <1>1, <1>3, <2>1, <2>2, PayloadsAppend
<1>5. ASSUME NEW n \in DOMAIN stream, stream[n].alert = msg.alert
      PROVE  stream[n].key = msg.key
  <2>1. n \in DOMAIN stream' /\ stream'[n] = stream[n] /\ Len(stream) + 1 \in DOMAIN stream'
    BY <1>2
  <2>2. /\ stream'[n].key = alerts'[stream'[n].alert].key
        /\ stream'[Len(stream) + 1].key = alerts'[stream'[Len(stream) + 1].alert].key
    BY <1>1, <2>1 DEF MessageDiscipline
  <2>3. QED BY <1>2, <1>5, <2>1, <2>2
<1>6. \A n \in DOMAIN Payloads(stream) :
        Payloads(stream)[n].alert = Payload(msg).alert
          => Payloads(stream)[n].alert_type = Payload(msg).alert_type
  BY <1>5 DEF Payloads, Payload
<1>7. Policy!Alerted(Payload(msg))
  BY <1>4, <1>6
  DEF Policy!Alerted, Payloads, policyState, Policy!policyVars, Policy!reader, Policy!threads,
      Policy!store
<1>8. QED BY <1>3, <1>7, PayloadType DEF Policy!Next

\* Every step of the loop is one of policy-control or its environment, or no step of theirs.
LEMMA LoopStepPolicy ==
  TypeOK /\ HoldingDiscipline /\ MessageDiscipline /\ [AlertStep \/ PolicyStep]_loopVars
    => [Policy!Next]_(Policy!vars)
<1> SUFFICES ASSUME TypeOK, HoldingDiscipline, MessageDiscipline,
                    [AlertStep \/ PolicyStep]_loopVars
             PROVE  Policy!Next \/ UNCHANGED Policy!vars
    OBVIOUS
<1>1. CASE PolicyStep
  BY <1>1 DEF PolicyStep, Policy!Next
<1>2. CASE UNCHANGED <<stream, policyState>>
  BY <1>2
  DEF policyState, Policy!vars, Policy!policyVars, Policy!reader, Policy!threads, Policy!store
<1>3. CASE UNCHANGED loopVars
  BY <1>2, <1>3 DEF loopVars, vars
<1>4. CASE AlertStep
  <2>1. Next /\ Len(stream') <= MaxMessages /\ UNCHANGED policyState
    BY <1>4 DEF AlertStep, Alerting
  <2>2. CASE UNCHANGED stream
    BY <1>2, <2>1, <2>2
  <2>3. CASE Announce \/ \E h \in Operator : HAnnounce(h)
    <3>1. PICK msg : stream' = Append(stream, msg)
      BY <2>3 DEF Announce, HAnnounce, Publish
    <3>2. QED BY <2>1, <3>1, AppendIsAlerted
  <2>4. CASE ~Announce /\ \A h \in Operator : ~HAnnounce(h)
    <3>1. UNCHANGED stream
      BY <2>1, <2>4
      DEF Next, Process, Serve, Read, ReadNothing, Find, Load, Drop, Create, List, Point, Update,
          Ack, EventFails, AckFails, Restart, HLoad, HSave, HUndedup, CallFails, Dispatch
    <3>2. QED BY <3>1, <2>2
  <2>5. QED BY <2>3, <2>4
<1>5. QED BY <1>1, <1>3, <1>4

\* Alert Management is an environment as policy-control assumes it: every behaviour of
\* the loop is one of policy-control's specification.
THEOREM LoopImplementsPolicy == LoopSpec => ImplementsPolicy
<1>1. LoopInit => Policy!Init
  BY DEF LoopInit
<1>2. QED BY <1>1, LoopStepPolicy, LoopAlerts, PTL DEF LoopSpec, ImplementsPolicy, Policy!Spec

--------------------------------------------------------------------------------
(* What is proved of policy-control holds in the loop. *)

LEMMA SameInit == Policy!Init <=> Remedy!Init
BY DEF Policy!Init, Remedy!Init

LEMMA SameVars == UNCHANGED Policy!vars <=> UNCHANGED Remedy!vars
BY DEF Policy!vars, Policy!policyVars, Policy!reader, Policy!threads, Policy!store,
       Remedy!vars, Remedy!policyVars, Remedy!reader, Remedy!threads, Remedy!store

LEMMA SameNext == Policy!Next <=> Remedy!Next
BY DEF Policy!Next, Policy!PolicyNext, Policy!Process, Policy!Serve, Policy!Alerted, Policy!Read,
       Policy!ReadNothing, Policy!Find, Policy!Load, Policy!Create, Policy!List, Policy!Point,
       Policy!Update, Policy!Announce, Policy!Ack, Policy!MessageFails, Policy!AckFails,
       Policy!Restart, Policy!Dispatch, Policy!ThreadLoad, Policy!Actuate, Policy!ThreadSave,
       Policy!ThreadAnnounce, Policy!CallFails, Policy!Goto, Policy!Continue, Policy!Return,
       Policy!Publish, Policy!Fault, Policy!Message, Policy!Lesser, Policy!reader, Policy!threads,
       Policy!store, Policy!policyVars, Policy!Recommend, Policy!Decide, Policy!Matching,
       Policy!Rules, Policy!Rule, Policy!SeverityLevel, Policy!AlertMessage, Policy!AlertType,
       Policy!Terminal, Policy!Allows, Policy!Outcome, Remedy!Next, Remedy!PolicyNext,
       Remedy!Process, Remedy!Serve, Remedy!Alerted, Remedy!Read, Remedy!ReadNothing, Remedy!Find,
       Remedy!Load, Remedy!Create, Remedy!List, Remedy!Point, Remedy!Update, Remedy!Announce,
       Remedy!Ack, Remedy!MessageFails, Remedy!AckFails, Remedy!Restart, Remedy!Dispatch,
       Remedy!ThreadLoad, Remedy!Actuate, Remedy!ThreadSave, Remedy!ThreadAnnounce,
       Remedy!CallFails, Remedy!Goto, Remedy!Continue, Remedy!Return, Remedy!Publish, Remedy!Fault,
       Remedy!Message, Remedy!Lesser, Remedy!reader, Remedy!threads, Remedy!store,
       Remedy!policyVars, Remedy!Recommend, Remedy!Decide, Remedy!Matching, Remedy!Rules,
       Remedy!Rule, Remedy!SeverityLevel, Remedy!AlertMessage, Remedy!AlertType, Remedy!Terminal,
       Remedy!Allows, Remedy!Outcome

LEMMA LoopRemedies == LoopSpec => Remedy!Spec
<1>1. LoopInit => Remedy!Init
  BY SameInit DEF LoopInit
<1>2. [Policy!Next]_(Policy!vars) => [Remedy!Next]_(Remedy!vars)
  BY SameVars, SameNext
<1>3. QED
  BY <1>1, <1>2, LoopImplementsPolicy, PTL DEF LoopSpec, ImplementsPolicy, Policy!Spec, Remedy!Spec

\* An operator who decides on an action can look its alert up, whatever fails in either
\* service: the action exists because a message was about its alert, and a message is
\* about an alert that is saved and listed.
THEOREM LoopActionsHaveAlerts == LoopSpec => []ActionsHaveAlerts
<1>1. MessageDiscipline /\ Remedy!ActionsAreAsked => ActionsHaveAlerts
  BY DEF MessageDiscipline, Remedy!ActionsAreAsked, ActionsHaveAlerts, Payload
<1>2. LoopSpec => []Remedy!ActionsAreAsked
  BY LoopRemedies, PolicyConstants, Remedy!ActionsComeFromMessages, PTL
<1>3. QED BY <1>1, <1>2, LoopAlerts, PTL

\* The human gate holds in the loop: no step of Alert Management lets an action through
\* that no operator has approved.
THEOREM LoopKeepsTheGate == LoopSpec => []Policy!ActuationIsApproved
<1>1. Remedy!ActuationIsApproved => Policy!ActuationIsApproved
  BY DEF Remedy!ActuationIsApproved, Policy!ActuationIsApproved
<1>2. QED BY <1>1, LoopRemedies, PolicyConstants, Remedy!GateIsKept, PTL

================================================================================
