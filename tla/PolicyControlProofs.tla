-------------------------- MODULE PolicyControlProofs --------------------------
(***************************************************************************)
(* Machine-checked proofs about PolicyControl, for every set of alerts,    *)
(* actions and threads, and every number of messages, calls and faults.    *)
(***************************************************************************)
EXTENDS PolicyControl, TLAPS

--------------------------------------------------------------------------------
(* The inductive invariants of PolicyControl. *)

\* Every action was asked for by a message about its alert.
ActionsAreAsked ==
  \A a \in Action :
    actions[a] # Unsaved => \E n \in DOMAIN alertStream : alertStream[n].alert = actions[a].alert

\* The message in hand is one of the stream.
ReadingDiscipline ==
  /\ delivered <= Len(alertStream)
  /\ step \notin {"idle", "read"} => position <= delivered

\* What is listed is saved, and alerts lead to their actions.
LookupDiscipline == LookupConsistent /\ \A a \in index : actions[a] # Unsaved

\* The action in hand is that of the alert in hand.
HandDiscipline ==
  /\ step \in {"load", "list", "point", "created", "update", "updated"} =>
       /\ inHand \in Action
       /\ actions[inHand] # Unsaved
       /\ actions[inHand].alert = Message.alert
  /\ step = "point" => inHand \in index

\* A thread has been called for an action that is saved, and holds a copy of it.
ThreadDiscipline ==
  \A t \in PolicyThread :
    /\ opc[t] # "idle" => target[t] \in Action /\ actions[target[t]] # Unsaved
    /\ opc[t] \in {"actuate", "save"} =>
         hash[t] \in ActionRecord /\ hash[t].alert = actions[target[t]].alert

HoldingDiscipline ==
  ReadingDiscipline /\ LookupDiscipline /\ HandDiscipline /\ ThreadDiscipline

\* The gate: an approved status, and what an execution has read, are backed by
\* an approval; nothing that an execution has read is nothing to do.
GateDiscipline ==
  /\ \A a \in Action :
       actions[a] # Unsaved /\ actions[a].status = "APPROVED" => a \in granted
  /\ \A t \in PolicyThread :
       /\ opc[t] = "actuate" => call[t] = "execute" /\ target[t] \in granted
       /\ opc[t] = "save" /\ call[t] = "execute" => actuated[target[t]] > 0
       /\ opc[t] \in {"actuate", "save"} => hash[t].action_type # "NO_ACTION"

\* Without failures an alert leads to its only action, or the consumer is about to let it.
ActionDiscipline ==
  faults = 0 =>
    /\ \A a \in Action :
         actions[a] # Unsaved =>
           byAlert[actions[a].alert] = a \/ (inHand = a /\ step \in {"list", "point"})
    /\ step \in {"list", "point"} =>
         \A a \in Action : actions[a] # Unsaved /\ actions[a].alert = Message.alert => a = inHand
    /\ step = "create" =>
         \A a \in Action : actions[a] # Unsaved => actions[a].alert # Message.alert

\* The messages about alert i that its action follows, the one in hand included once
\* the action is written or was found decided.
Settled(i) ==
  Handled(i) \cup
    {n \in {position} :
       /\ step \in {"list", "point", "created", "updated", "ack"}
       /\ alertStream[n].alert = i /\ alertStream[n].status # "RESOLVED"}

\* Without failures a pending action is what the rules make of the last of them; actions
\* are written for alerts that are not resolved, and no message is passed over.
PendingDiscipline ==
  faults = 0 =>
    /\ step \in {"idle", "read"} => position = delivered + 1
    /\ step \in {"load", "create", "update"} => Message.status # "RESOLVED"
    /\ \A a \in Action :
         actions[a] # Unsaved /\ actions[a].status = "PENDING_APPROVAL" =>
           \E n \in Settled(actions[a].alert) :
             /\ \A k \in Settled(actions[a].alert) : k <= n
             /\ actions[a].action_type = Decide(alertStream[n]).action_type

\* No rule recommends to do nothing.
LEMMA RulesRecommend == \A r \in Rules : r.action_type # "NO_ACTION"
BY DEF Rules, Rule, SeverityLevel

\* The rules give every alert a known action, pending or with nothing to do.
LEMMA DecideType ==
  ASSUME NEW m \in AlertMessage
  PROVE  /\ Decide(m).action_type \in ActionType
         /\ Decide(m).status \in {"PENDING_APPROVAL", "EXECUTED_SIMULATED"}
         /\ Decide(m).status = "EXECUTED_SIMULATED" <=> Decide(m).action_type = "NO_ACTION"
<1>1. CASE Matching(m) = {}
  BY <1>1 DEF Decide, ActionType
<1>2. CASE Matching(m) # {}
  <2> DEFINE r == CHOOSE x \in Matching(m) : TRUE
  <2>1. r \in Rules
    BY <1>2 DEF Matching
  <2>2. Decide(m) = [action_type |-> r.action_type, status |-> "PENDING_APPROVAL"]
    BY <1>2 DEF Decide
  <2>3. r.action_type # "NO_ACTION"
    BY <2>1, RulesRecommend
  <2>4. r.action_type \in ActionType
    BY <2>1 DEF ActionType
  <2>5. QED BY <2>2, <2>3, <2>4
<1>3. QED BY <1>1, <1>2

\* A recommendation is a record of its alert.
LEMMA RecommendType ==
  ASSUME NEW m \in AlertMessage
  PROVE  /\ Recommend(m) \in ActionRecord
         /\ Recommend(m).alert = m.alert
         /\ Recommend(m).action_type = Decide(m).action_type
         /\ Recommend(m).status = Decide(m).status
BY DecideType DEF Recommend, ActionRecord, ActionStatus, AlertMessage

\* While the consumer handles a message, there is one.
LEMMA MessageType ==
  TypeOK /\ ReadingDiscipline /\ step \notin {"idle", "read"} => Message \in AlertMessage
BY DEF TypeOK, ReadingDiscipline, Message

\* The status a call gives is a status.
LEMMA OutcomeType ==
  ASSUME NEW c \in {"approve", "reject", "execute"}
  PROVE  Outcome(c) \in ActionStatus
<1>1. CASE c = "approve"
  BY <1>1 DEF Outcome, ActionStatus
<1>2. CASE c = "reject"
  BY <1>2 DEF Outcome, ActionStatus
<1>3. CASE c = "execute"
  BY <1>3 DEF Outcome, ActionStatus
<1>4. QED BY <1>1, <1>2, <1>3

\* What a thread saves is a record of the same alert.
LEMMA SavedType ==
  ASSUME TypeOK, ThreadDiscipline, NEW t \in PolicyThread, opc[t] = "save"
  PROVE  /\ [hash[t] EXCEPT !.status = Outcome(call[t])] \in ActionRecord
         /\ [hash[t] EXCEPT !.status = Outcome(call[t])].alert = actions[target[t]].alert
         /\ [hash[t] EXCEPT !.status = Outcome(call[t])].action_type = hash[t].action_type
         /\ [hash[t] EXCEPT !.status = Outcome(call[t])].status = Outcome(call[t])
<1>1. hash[t] \in ActionRecord /\ hash[t].alert = actions[target[t]].alert
  BY DEF ThreadDiscipline
<1>2. Outcome(call[t]) \in ActionStatus
  BY OutcomeType DEF TypeOK
<1>3. QED BY <1>1, <1>2 DEF ActionRecord

--------------------------------------------------------------------------------
(* Types, and what is held. *)

LEMMA HoldingInit == Init => TypeOK /\ HoldingDiscipline
BY PolicyParameters
   DEF Init, TypeOK, HoldingDiscipline, ReadingDiscipline, LookupDiscipline, LookupConsistent,
       HandDiscipline, ThreadDiscipline, PolicyParameters

LEMMA TypeStep == TypeOK /\ HoldingDiscipline /\ [Next]_vars => TypeOK'
<1> SUFFICES ASSUME TypeOK, HoldingDiscipline, [Next]_vars
             PROVE  TypeOK'
    OBVIOUS
<1> USE PolicyParameters
    DEF TypeOK, PolicyParameters, reader, threads, store, policyVars, Fault, Goto, Continue,
        Return, Publish
<1>1. CASE UNCHANGED vars
  BY <1>1 DEF vars
<1>2. ASSUME NEW m \in AlertMessage, Alerted(m)
      PROVE  TypeOK'
  BY <1>2 DEF Alerted
<1>3. CASE Read \/ ReadNothing \/ Ack
  <2>1. CASE Read
    BY <2>1 DEF Read, Lesser
  <2>2. CASE ReadNothing
    BY <2>2 DEF ReadNothing
  <2>3. CASE Ack
    BY <2>3 DEF Ack
  <2>4. QED BY <1>3, <2>1, <2>2, <2>3
<1>4. CASE Load \/ List
  <2>1. inHand \in Action
    BY <1>4 DEF Load, List, HoldingDiscipline, HandDiscipline
  <2>2. CASE Load
    BY <2>1, <2>2 DEF Load
  <2>3. CASE List
    BY <2>1, <2>3 DEF List
  <2>4. QED BY <1>4, <2>2, <2>3
<1>a. CASE Find \/ Point
  <2>1. Message \in AlertMessage
    BY <1>a, MessageType DEF Find, Point, HoldingDiscipline
  <2>2. Message.alert \in Alert
    BY <2>1 DEF AlertMessage
  <2>3. CASE Find
    BY <2>2, <2>3 DEF Find
  <2>4. CASE Point
    <3>1. inHand \in Action
      BY <2>4 DEF Point, HoldingDiscipline, HandDiscipline
    <3>2. QED BY <2>2, <2>4, <3>1 DEF Point
  <2>5. QED BY <1>a, <2>3, <2>4
<1>5. CASE Announce
  BY <1>5 DEF Announce, HoldingDiscipline, HandDiscipline
<1>6. ASSUME NEW a \in Action, Create(a)
      PROVE  TypeOK'
  BY <1>6, MessageType, RecommendType DEF Create, HoldingDiscipline
<1>7. CASE Update
  BY <1>7, MessageType, RecommendType DEF Update, HoldingDiscipline, HandDiscipline
<1>8. CASE MessageFails \/ AckFails \/ Restart
  BY <1>8 DEF MessageFails, AckFails, Restart
<1>9. ASSUME NEW t \in PolicyThread, ThreadLoad(t) \/ Actuate(t) \/ CallFails(t)
      PROVE  TypeOK'
  <2>1. CASE ThreadLoad(t)
    <3>1. target[t] \in Action /\ actions[target[t]] \in ActionRecord
      BY <2>1 DEF ThreadLoad, HoldingDiscipline, ThreadDiscipline
    <3>2. QED BY <2>1, <3>1 DEF ThreadLoad
  <2>2. CASE Actuate(t)
    BY <2>2 DEF Actuate, HoldingDiscipline, ThreadDiscipline
  <2>3. CASE CallFails(t)
    BY <2>3 DEF CallFails
  <2>4. QED BY <1>9, <2>1, <2>2, <2>3
<1>b. ASSUME NEW t \in PolicyThread, ThreadAnnounce(t)
      PROVE  TypeOK'
  <2>1. target[t] \in Action /\ call[t] \in {"approve", "reject", "execute"}
    BY <1>b DEF ThreadAnnounce, HoldingDiscipline, ThreadDiscipline
  <2>2. Append(announced[target[t]], call[t]) \in Seq({"created", "updated", "approve", "reject", "execute"})
    BY <2>1
  <2>3. QED
    BY <1>b, <2>1, <2>2 DEF ThreadAnnounce
<1>10. ASSUME NEW t \in PolicyThread, ThreadSave(t)
       PROVE  TypeOK'
  <2>1. [hash[t] EXCEPT !.status = Outcome(call[t])] \in ActionRecord
    BY <1>10, SavedType DEF ThreadSave, HoldingDiscipline
  <2>2. /\ hash' = [hash EXCEPT ![t] = [hash[t] EXCEPT !.status = Outcome(call[t])]]
        /\ actions' = [actions EXCEPT ![target[t]] = [hash[t] EXCEPT !.status = Outcome(call[t])]]
    BY <1>10 DEF ThreadSave
  <2>3. target[t] \in Action
    BY <1>10 DEF ThreadSave, HoldingDiscipline, ThreadDiscipline
  <2>4. actions' \in [Action -> ActionRecord \cup {Unsaved}]
        /\ hash' \in [PolicyThread -> ActionRecord \cup {Unsaved}]
    BY <2>1, <2>2
  <2>5. granted' \subseteq Action
    BY <1>10, <2>3 DEF ThreadSave
  <2>6. QED
    BY <1>10, <2>4, <2>5 DEF ThreadSave
<1>11. ASSUME NEW t \in PolicyThread, NEW c \in {"approve", "reject", "execute"},
              NEW a \in Action, Dispatch(t, c, a)
       PROVE  TypeOK'
  BY <1>11 DEF Dispatch
<1>12. QED
  BY <1>1, <1>2, <1>3, <1>4, <1>5, <1>6, <1>7, <1>8, <1>9, <1>10, <1>11, <1>a, <1>b
  DEF Next, PolicyNext, Process, Serve

\* An action that is saved stays saved, and keeps its alert.
LEMMA ActionsAreKept ==
  ASSUME TypeOK, HoldingDiscipline, [Next]_vars
  PROVE  \A a \in Action : actions[a] # Unsaved =>
           actions'[a] # Unsaved /\ actions'[a].alert = actions[a].alert
<1> USE UnsavedIsNoRecord
    DEF TypeOK, HoldingDiscipline, reader, threads, store, policyVars
<1>1. CASE UNCHANGED actions
  BY <1>1
<1>2. ASSUME NEW a \in Action, Create(a)
      PROVE  \A b \in Action : actions[b] # Unsaved => actions'[b] = actions[b]
  BY <1>2 DEF Create
<1>3. CASE Update
  <2>1. Recommend(Message) \in ActionRecord /\ Recommend(Message).alert = actions[inHand].alert
    BY <1>3, MessageType, RecommendType DEF Update, HandDiscipline
  <2>2. actions' = [actions EXCEPT ![inHand] = Recommend(Message)]
    BY <1>3 DEF Update
  <2>3. QED BY <2>1, <2>2
<1>4. ASSUME NEW t \in PolicyThread, ThreadSave(t)
      PROVE  \A a \in Action : actions[a] # Unsaved =>
               actions'[a] # Unsaved /\ actions'[a].alert = actions[a].alert
  <2> DEFINE rec == [hash[t] EXCEPT !.status = Outcome(call[t])]
  <2>1. rec \in ActionRecord /\ rec.alert = actions[target[t]].alert
    BY <1>4, SavedType DEF ThreadSave
  <2>2. actions' = [actions EXCEPT ![target[t]] = rec]
    BY <1>4 DEF ThreadSave
  <2> HIDE DEF rec
  <2>3. QED BY <2>1, <2>2
<1>5. CASE UNCHANGED vars
  BY <1>5 DEF vars
<1>6. CASE Next /\ ~Update /\ (\A a \in Action : ~Create(a)) /\ (\A t \in PolicyThread : ~ThreadSave(t))
  <2>1. UNCHANGED actions
    BY <1>6 DEF Next, PolicyNext, Process, Serve, Alerted, Read, ReadNothing, Find, Load, List, Point,
                Announce, Ack, MessageFails, AckFails, Restart, ThreadLoad, Actuate, ThreadAnnounce,
                CallFails, Dispatch
  <2>2. QED BY <2>1, <1>1
<1>7. QED BY <1>2, <1>3, <1>4, <1>5, <1>6

LEMMA ReadingStep == TypeOK /\ ReadingDiscipline /\ [Next]_vars => ReadingDiscipline'
<1> SUFFICES ASSUME TypeOK, ReadingDiscipline, [Next]_vars
             PROVE  ReadingDiscipline'
    OBVIOUS
<1> USE DEF TypeOK, ReadingDiscipline, reader, policyVars, Goto
<1>1. CASE UNCHANGED vars
  BY <1>1 DEF vars
<1>2. ASSUME NEW m \in AlertMessage, Alerted(m)
      PROVE  ReadingDiscipline'
  BY <1>2 DEF Alerted
<1>3. CASE Process
  BY <1>3, PolicyParameters
  DEF Process, Read, ReadNothing, Find, Load, Create, List, Point, Update, Announce, Ack, Lesser,
      PolicyParameters
<1>4. CASE MessageFails \/ AckFails \/ Restart
  BY <1>4 DEF MessageFails, AckFails, Restart
<1>5. ASSUME NEW t \in PolicyThread, Serve(t) \/ CallFails(t)
      PROVE  ReadingDiscipline'
  BY <1>5 DEF Serve, ThreadLoad, Actuate, ThreadSave, ThreadAnnounce, CallFails
<1>6. ASSUME NEW t \in PolicyThread, NEW c \in {"approve", "reject", "execute"},
             NEW a \in Action, Dispatch(t, c, a)
      PROVE  ReadingDiscipline'
  BY <1>6 DEF Dispatch
<1>7. QED
  BY <1>1, <1>2, <1>3, <1>4, <1>5, <1>6 DEF Next, PolicyNext

LEMMA LookupStep == TypeOK /\ HoldingDiscipline /\ [Next]_vars => LookupDiscipline'
<1> SUFFICES ASSUME TypeOK, HoldingDiscipline, [Next]_vars
             PROVE  LookupDiscipline'
    OBVIOUS
<1> USE DEF HoldingDiscipline, LookupDiscipline, LookupConsistent, TypeOK
<1>1. CASE UNCHANGED <<index, byAlert>>
  BY <1>1, ActionsAreKept
<1>2. CASE List
  <2>1. inHand \in Action /\ actions[inHand] # Unsaved
    BY <1>2 DEF List, HandDiscipline
  <2>2. index' = index \cup {inHand} /\ byAlert' = byAlert
    BY <1>2 DEF List
  <2>3. QED BY <2>1, <2>2, ActionsAreKept
<1>3. CASE Point
  <2>1. inHand \in index /\ actions[inHand] # Unsaved /\ actions[inHand].alert = Message.alert
    BY <1>3 DEF Point, HandDiscipline
  <2>2. index' = index /\ byAlert' = [byAlert EXCEPT ![Message.alert] = inHand]
    BY <1>3 DEF Point
  <2>3. QED BY <2>1, <2>2, ActionsAreKept
<1>4. CASE ~List /\ ~Point
  <2>1. UNCHANGED <<index, byAlert>>
    BY <1>4
    DEF Next, PolicyNext, Process, Serve, Alerted, Read, ReadNothing, Find, Load, Create, Update,
        Announce, Ack, MessageFails, AckFails, Restart, ThreadLoad, Actuate, ThreadSave,
        ThreadAnnounce, CallFails, Dispatch, vars, policyVars, store
  <2>2. QED BY <2>1, <1>1
<1>5. QED BY <1>2, <1>3, <1>4

LEMMA HandStep == TypeOK /\ HoldingDiscipline /\ [Next]_vars => HandDiscipline'
<1> SUFFICES ASSUME TypeOK, HoldingDiscipline, [Next]_vars
             PROVE  HandDiscipline'
    OBVIOUS
<1> USE DEF HoldingDiscipline, HandDiscipline, Message, reader, Goto
<1>1. CASE UNCHANGED <<position, step, inHand, index>> /\ UNCHANGED alertStream
  BY <1>1, ActionsAreKept
<1>2. ASSUME NEW m \in AlertMessage, Alerted(m)
      PROVE  HandDiscipline'
  <2>1. step \notin {"idle", "read"} => position \in 1..Len(alertStream)
    BY DEF TypeOK, ReadingDiscipline
  <2>2. step \notin {"idle", "read"} => alertStream'[position] = alertStream[position]
    BY <1>2, <2>1 DEF Alerted, TypeOK
  <2>3. UNCHANGED <<position, step, inHand, index>>
    BY <1>2 DEF Alerted, policyVars, store
  <2>4. QED BY <2>2, <2>3, ActionsAreKept
<1>3. CASE Read \/ ReadNothing \/ Ack \/ MessageFails \/ AckFails \/ Restart
  BY <1>3 DEF Read, ReadNothing, Ack, MessageFails, AckFails, Restart
<1>4. CASE Find
  <2>1. Message \in AlertMessage
    BY <1>4, MessageType DEF Find
  <2>2. CASE step' = "load"
    <3>1. /\ byAlert[Message.alert] # NoAction
          /\ inHand' = byAlert[Message.alert]
      BY <1>4, <2>2 DEF Find
    <3>2. QED
      BY <1>4, <2>1, <2>2, <3>1, ActionsAreKept
      DEF Find, LookupDiscipline, LookupConsistent, AlertMessage, TypeOK, store
  <2>3. CASE step' # "load"
    BY <1>4, <2>3 DEF Find
  <2>4. QED BY <2>2, <2>3
<1>5. CASE Load \/ Point \/ Announce
  BY <1>5, ActionsAreKept DEF Load, Point, Announce, store
<1>6. ASSUME NEW a \in Action, Create(a)
      PROVE  HandDiscipline'
  <2>1. Recommend(Message) \in ActionRecord /\ Recommend(Message).alert = Message.alert
    BY <1>6, MessageType, RecommendType DEF Create
  <2>2. actions' = [actions EXCEPT ![a] = Recommend(Message)] /\ inHand' = a /\ step' = "list"
    BY <1>6 DEF Create
  <2>3. QED
    BY <1>6, <2>1, <2>2, UnsavedIsNoRecord DEF Create, TypeOK
<1>7. CASE List
  BY <1>7, ActionsAreKept DEF List
<1>8. CASE Update
  BY <1>8, ActionsAreKept DEF Update
<1>9. ASSUME NEW t \in PolicyThread, Serve(t) \/ CallFails(t)
      PROVE  HandDiscipline'
  <2>1. UNCHANGED <<position, step, inHand, index>> /\ UNCHANGED alertStream
    BY <1>9 DEF Serve, ThreadLoad, Actuate, ThreadSave, ThreadAnnounce, CallFails, store
  <2>2. QED BY <2>1, <1>1
<1>10. ASSUME NEW t \in PolicyThread, NEW c \in {"approve", "reject", "execute"},
              NEW a \in Action, Dispatch(t, c, a)
       PROVE  HandDiscipline'
  <2>1. UNCHANGED <<position, step, inHand, index>> /\ UNCHANGED alertStream
    BY <1>10 DEF Dispatch, store
  <2>2. QED BY <2>1, <1>1
<1>11. CASE UNCHANGED vars
  <2>1. UNCHANGED <<position, step, inHand, index>> /\ UNCHANGED alertStream
    BY <1>11 DEF vars, policyVars, store
  <2>2. QED BY <2>1, <1>1
<1>12. QED
  BY <1>2, <1>3, <1>4, <1>5, <1>6, <1>7, <1>8, <1>9, <1>10, <1>11 DEF Next, PolicyNext, Process

LEMMA ThreadStep == TypeOK /\ HoldingDiscipline /\ [Next]_vars => ThreadDiscipline'
<1> SUFFICES ASSUME TypeOK, HoldingDiscipline, [Next]_vars
             PROVE  ThreadDiscipline'
    OBVIOUS
<1> USE DEF HoldingDiscipline, ThreadDiscipline, threads, Continue, Return, TypeOK
<1>1. CASE UNCHANGED <<opc, target, hash>>
  BY <1>1, ActionsAreKept
<1>2. ASSUME NEW t \in PolicyThread, ThreadLoad(t)
      PROVE  ThreadDiscipline'
  <2>1. target[t] \in Action /\ actions[target[t]] \in ActionRecord
    BY <1>2 DEF ThreadLoad
  <2>2. UNCHANGED actions
    BY <1>2 DEF ThreadLoad, store
  <2>3. CASE Allows(call[t], actions[target[t]].status)
    <3>1. /\ hash' = [hash EXCEPT ![t] = actions[target[t]]]
          /\ target' = target
          /\ \E s \in {"actuate", "save"} : opc' = [opc EXCEPT ![t] = s]
      BY <1>2, <2>3 DEF ThreadLoad
    <3>2. /\ hash'[t] = actions'[target'[t]]
          /\ target'[t] \in Action /\ actions'[target'[t]] \in ActionRecord
      BY <2>1, <2>2, <3>1
    <3>3. \A u \in PolicyThread :
            u # t => opc'[u] = opc[u] /\ hash'[u] = hash[u] /\ target'[u] = target[u]
      BY <3>1
    <3>4. QED BY <2>2, <3>2, <3>3, UnsavedIsNoRecord
  <2>4. CASE ~Allows(call[t], actions[target[t]].status)
    <3>1. Return(t)
      BY <1>2, <2>4 DEF ThreadLoad
    <3>2. QED BY <2>2, <3>1
  <2>5. QED BY <2>3, <2>4
<1>3. ASSUME NEW t \in PolicyThread, Actuate(t)
      PROVE  ThreadDiscipline'
  BY <1>3, ActionsAreKept DEF Actuate
<1>4. ASSUME NEW t \in PolicyThread, ThreadSave(t)
      PROVE  ThreadDiscipline'
  <2>1. \A u \in PolicyThread : u # t => hash'[u] = hash[u] /\ opc'[u] = opc[u]
    BY <1>4 DEF ThreadSave
  <2>2. opc'[t] = "announce" /\ target' = target
    BY <1>4 DEF ThreadSave
  <2>3. QED BY <1>4, <2>1, <2>2, ActionsAreKept DEF ThreadSave
<1>5. ASSUME NEW t \in PolicyThread, ThreadAnnounce(t) \/ CallFails(t)
      PROVE  ThreadDiscipline'
  <2>1. Return(t) /\ UNCHANGED actions
    BY <1>5 DEF ThreadAnnounce, CallFails, store
  <2>2. QED BY <2>1
<1>6. ASSUME NEW t \in PolicyThread, NEW c \in {"approve", "reject", "execute"},
             NEW a \in Action, Dispatch(t, c, a)
      PROVE  ThreadDiscipline'
  BY <1>6, ActionsAreKept DEF Dispatch, LookupDiscipline
<1>7. CASE Restart
  BY <1>7 DEF Restart
<1>8. CASE Process \/ MessageFails \/ AckFails
  <2>1. UNCHANGED <<opc, target, hash>>
    BY <1>8 DEF Process, Read, ReadNothing, Find, Load, Create, List, Point, Update, Announce, Ack,
                MessageFails, AckFails
  <2>2. QED BY <2>1, <1>1
<1>9. ASSUME NEW m \in AlertMessage, Alerted(m)
      PROVE  ThreadDiscipline'
  <2>1. UNCHANGED <<opc, target, hash>>
    BY <1>9 DEF Alerted, policyVars
  <2>2. QED BY <2>1, <1>1
<1>10. CASE UNCHANGED vars
  <2>1. UNCHANGED <<opc, target, hash>>
    BY <1>10 DEF vars, policyVars
  <2>2. QED BY <2>1, <1>1
<1>11. QED
  BY <1>2, <1>3, <1>4, <1>5, <1>6, <1>7, <1>8, <1>9, <1>10 DEF Next, PolicyNext, Serve

LEMMA HoldingInvariant == Spec => [](TypeOK /\ HoldingDiscipline)
<1>1. TypeOK /\ HoldingDiscipline /\ [Next]_vars => (TypeOK /\ HoldingDiscipline)'
  BY TypeStep, ReadingStep, LookupStep, HandStep, ThreadStep DEF HoldingDiscipline
<1>2. QED BY <1>1, HoldingInit, PTL DEF Spec

\* Every variable keeps its type in every behaviour of the service.
THEOREM PolicyTypeCorrect == Spec => []TypeOK
<1>1. QED BY HoldingInvariant, PTL

\* An alert leads to an action that is saved, listed and its own, wherever the
\* service stops.
THEOREM LookupIsConsistent == Spec => []LookupConsistent
<1>1. HoldingDiscipline => LookupConsistent
  BY DEF HoldingDiscipline, LookupDiscipline
<1>2. QED BY <1>1, HoldingInvariant, PTL

--------------------------------------------------------------------------------
(* The human gate. *)

GateInvariant == ActuationIsApproved /\ ExecutedIsActuated /\ NothingToApprove /\ GateDiscipline

LEMMA GateInit == Init => GateInvariant
BY PolicyParameters
   DEF Init, GateInvariant, ActuationIsApproved, ExecutedIsActuated, NothingToApprove, GateDiscipline

\* What the consumer writes is pending, or nothing to do.
LEMMA RecommendGate ==
  ASSUME NEW m \in AlertMessage
  PROVE  /\ Recommend(m).status \in {"PENDING_APPROVAL", "EXECUTED_SIMULATED"}
         /\ Recommend(m).status = "EXECUTED_SIMULATED" <=> Recommend(m).action_type = "NO_ACTION"
BY RecommendType, DecideType

\* The parts of the gate that speak of the hashes hold of what the consumer writes.
LEMMA GateWrite ==
  ASSUME TypeOK, GateInvariant, NEW a \in Action, NEW m \in AlertMessage,
         actions' = [actions EXCEPT ![a] = Recommend(m)],
         UNCHANGED <<threads, actuated, granted>>
  PROVE  GateInvariant'
<1>1. /\ Recommend(m) \in ActionRecord
      /\ Recommend(m).status \in {"PENDING_APPROVAL", "EXECUTED_SIMULATED"}
      /\ Recommend(m).status = "EXECUTED_SIMULATED" <=> Recommend(m).action_type = "NO_ACTION"
  BY RecommendType, RecommendGate
<1>2. QED
  BY <1>1 DEF TypeOK, GateInvariant, ActuationIsApproved, ExecutedIsActuated, NothingToApprove,
              GateDiscipline, threads

LEMMA GateStep == TypeOK /\ HoldingDiscipline /\ GateInvariant /\ [Next]_vars => GateInvariant'
<1> SUFFICES ASSUME TypeOK, HoldingDiscipline, GateInvariant, [Next]_vars
             PROVE  GateInvariant'
    OBVIOUS
<1>1. CASE UNCHANGED <<actions, actuated, granted, opc, call, target, hash>>
  BY <1>1 DEF GateInvariant, ActuationIsApproved, ExecutedIsActuated, NothingToApprove,
              GateDiscipline
<1>2. ASSUME NEW a \in Action, Create(a)
      PROVE  GateInvariant'
  BY <1>2, MessageType, GateWrite DEF Create, HoldingDiscipline
<1>3. CASE Update
  BY <1>3, MessageType, GateWrite DEF Update, HoldingDiscipline, HandDiscipline, store
<1>4. ASSUME NEW t \in PolicyThread, ThreadLoad(t)
      PROVE  GateInvariant'
  <2> DEFINE rec == actions[target[t]]
  <2>1. target[t] \in Action /\ rec \in ActionRecord
    BY <1>4 DEF ThreadLoad, HoldingDiscipline, ThreadDiscipline, TypeOK
  <2>2. UNCHANGED <<actions, actuated, granted>>
    BY <1>4 DEF ThreadLoad, store
  <2>3. CASE ~Allows(call[t], rec.status)
    BY <1>4, <2>2, <2>3
    DEF ThreadLoad, Return, TypeOK, GateInvariant, ActuationIsApproved, ExecutedIsActuated,
        NothingToApprove, GateDiscipline
  <2>4. CASE Allows(call[t], rec.status)
    <3>1. call[t] \in {"approve", "reject", "execute"}
      BY DEF TypeOK
    <3>2. rec.status \notin Terminal
      <4>1. CASE call[t] = "approve"
        BY <2>4, <4>1 DEF Allows, Terminal
      <4>2. CASE call[t] = "reject"
        BY <2>4, <4>2 DEF Allows, Terminal
      <4>3. CASE call[t] = "execute"
        BY <2>4, <4>3 DEF Allows, Terminal
      <4>4. QED BY <3>1, <4>1, <4>2, <4>3
    <3>3. rec.action_type # "NO_ACTION"
      BY <2>1, <3>2, UnsavedIsNoRecord DEF GateInvariant, NothingToApprove, Terminal
    <3>4. call[t] = "execute" => target[t] \in granted
      BY <2>1, <2>4, UnsavedIsNoRecord DEF Allows, GateInvariant, GateDiscipline
    <3>5. /\ hash' = [hash EXCEPT ![t] = rec]
          /\ opc' = [opc EXCEPT ![t] = IF call[t] = "execute" THEN "actuate" ELSE "save"]
          /\ UNCHANGED <<call, target>>
      BY <1>4, <2>4 DEF ThreadLoad, Continue
    <3> HIDE DEF rec
    <3>6. QED
      BY <2>2, <3>3, <3>4, <3>5
      DEF TypeOK, GateInvariant, ActuationIsApproved, ExecutedIsActuated, NothingToApprove,
          GateDiscipline
  <2>5. QED BY <2>3, <2>4
<1>5. ASSUME NEW t \in PolicyThread, Actuate(t)
      PROVE  GateInvariant'
  <2>1. target[t] \in Action /\ target[t] \in granted
    BY <1>5 DEF Actuate, HoldingDiscipline, ThreadDiscipline, GateInvariant, GateDiscipline
  <2>2. QED
    BY <1>5, <2>1
    DEF Actuate, Continue, TypeOK, GateInvariant, ActuationIsApproved, ExecutedIsActuated,
        NothingToApprove, GateDiscipline
<1>6. ASSUME NEW t \in PolicyThread, ThreadSave(t)
      PROVE  GateInvariant'
  <2> DEFINE rec == [hash[t] EXCEPT !.status = Outcome(call[t])]
  <2>1. /\ rec \in ActionRecord
        /\ rec.action_type = hash[t].action_type
        /\ rec.status = Outcome(call[t])
    BY <1>6, SavedType DEF ThreadSave, HoldingDiscipline
  <2>2. target[t] \in Action /\ rec.action_type # "NO_ACTION"
    BY <1>6, <2>1 DEF ThreadSave, HoldingDiscipline, ThreadDiscipline, GateInvariant, GateDiscipline
  <2>3. /\ actions' = [actions EXCEPT ![target[t]] = rec]
        /\ granted' = IF call[t] = "approve" THEN granted \cup {target[t]} ELSE granted
        /\ opc' = [opc EXCEPT ![t] = "announce"]
        /\ UNCHANGED <<call, target, actuated>>
        /\ \A u \in PolicyThread : u # t => hash'[u] = hash[u]
    BY <1>6 DEF ThreadSave, Continue, TypeOK
  <2>4. call[t] \in {"approve", "reject", "execute"}
    BY DEF TypeOK
  <2>5. rec.status = "APPROVED" => call[t] = "approve"
    BY <2>1, <2>4 DEF Outcome
  <2>6. rec.status = "EXECUTED_SIMULATED" => actuated[target[t]] > 0
    <3>1. rec.status = "EXECUTED_SIMULATED" => call[t] = "execute"
      BY <2>1, <2>4 DEF Outcome
    <3>2. QED
      BY <1>6, <3>1 DEF ThreadSave, GateInvariant, GateDiscipline
  <2> HIDE DEF rec
  <2>7. QED
    BY <2>2, <2>3, <2>5, <2>6
    DEF TypeOK, GateInvariant, ActuationIsApproved, ExecutedIsActuated, NothingToApprove,
        GateDiscipline
<1>7. ASSUME NEW t \in PolicyThread, ThreadAnnounce(t) \/ CallFails(t)
      PROVE  GateInvariant'
  <2>1. Return(t) /\ UNCHANGED <<actions, granted, actuated>>
    BY <1>7 DEF ThreadAnnounce, CallFails, store
  <2>2. QED
    BY <2>1 DEF Return, TypeOK, GateInvariant, ActuationIsApproved, ExecutedIsActuated,
                NothingToApprove, GateDiscipline
<1>8. ASSUME NEW t \in PolicyThread, NEW c \in {"approve", "reject", "execute"},
             NEW a \in Action, Dispatch(t, c, a)
      PROVE  GateInvariant'
  BY <1>8
  DEF Dispatch, store, TypeOK, GateInvariant, ActuationIsApproved, ExecutedIsActuated,
      NothingToApprove, GateDiscipline
<1>9. CASE Restart
  BY <1>9
  DEF Restart, store, TypeOK, GateInvariant, ActuationIsApproved, ExecutedIsActuated,
      NothingToApprove, GateDiscipline
<1>10. CASE (Process /\ ~Update /\ \A a \in Action : ~Create(a)) \/ MessageFails \/ AckFails
  <2>1. UNCHANGED <<actions, actuated, granted, opc, call, target, hash>>
    BY <1>10 DEF Process, Read, ReadNothing, Find, Load, List, Point, Announce, Ack,
                 MessageFails, AckFails, store, threads
  <2>2. QED BY <2>1, <1>1
<1>11. ASSUME NEW m \in AlertMessage, Alerted(m)
       PROVE  GateInvariant'
  <2>1. UNCHANGED <<actions, actuated, granted, opc, call, target, hash>>
    BY <1>11 DEF Alerted, policyVars, store, threads
  <2>2. QED BY <2>1, <1>1
<1>12. CASE UNCHANGED vars
  <2>1. UNCHANGED <<actions, actuated, granted, opc, call, target, hash>>
    BY <1>12 DEF vars, policyVars, store, threads
  <2>2. QED BY <2>1, <1>1
<1>13. QED
  BY <1>2, <1>3, <1>4, <1>5, <1>6, <1>7, <1>8, <1>9, <1>10, <1>11, <1>12
  DEF Next, PolicyNext, Process, Serve

LEMMA GateHolds == Spec => []GateInvariant
<1>1. QED BY GateInit, GateStep, HoldingInvariant, PTL DEF Spec

\* Nothing is applied to the simulation that no operator has approved, in any
\* interleaving of calls, policy updates, failures and restarts.
THEOREM GateIsKept == Spec => []ActuationIsApproved
<1>1. GateInvariant => ActuationIsApproved
  BY DEF GateInvariant
<1>2. QED BY <1>1, GateHolds, PTL

\* The record of an execution is never ahead of the actuation.
THEOREM ExecutionsAreActuated == Spec => []ExecutedIsActuated
<1>1. GateInvariant => ExecutedIsActuated
  BY DEF GateInvariant
<1>2. QED BY <1>1, GateHolds, PTL

\* An action with nothing to do is never left to an operator.
THEOREM NothingIsApproved == Spec => []NothingToApprove
<1>1. GateInvariant => NothingToApprove
  BY DEF GateInvariant
<1>2. QED BY <1>1, GateHolds, PTL

--------------------------------------------------------------------------------
(* One action for an alert. *)

\* While nothing has failed, nothing fails.
LEMMA CleanStep ==
  ASSUME TypeOK, [Next]_vars, faults' = 0
  PROVE  /\ faults = 0 /\ ~MessageFails /\ ~AckFails /\ ~Restart
         /\ \A t \in PolicyThread : ~CallFails(t)
<1>1. faults \in Nat
  BY PolicyParameters DEF TypeOK, PolicyParameters
<1>2. ~Fault
  BY <1>1 DEF Fault
<1>3. ~MessageFails /\ ~AckFails /\ ~Restart /\ \A t \in PolicyThread : ~CallFails(t)
  BY <1>2 DEF MessageFails, AckFails, Restart, CallFails
<1>4. faults' = faults
  BY <1>3
  DEF Next, PolicyNext, Process, Serve, Read, ReadNothing, Find, Load, Create, List, Point, Update,
      Announce, Ack, ThreadLoad, Actuate, ThreadSave, ThreadAnnounce, Dispatch, Alerted, policyVars,
      vars
<1>5. QED BY <1>3, <1>4

\* What the consumer writes, it writes for the alert in hand.
LEMMA Written ==
  ASSUME TypeOK, HoldingDiscipline, NEW a \in Action, Create(a) \/ (Update /\ a = inHand)
  PROVE  /\ Message \in AlertMessage
         /\ actions'[a] = Recommend(Message) /\ actions'[a].alert = Message.alert
         /\ actions'[a].action_type = Decide(Message).action_type
         /\ \A b \in Action : b # a => actions'[b] = actions[b]
         /\ UNCHANGED <<alertStream, position, delivered, byAlert>>
<1>1. Message \in AlertMessage
  BY MessageType DEF Create, Update, HoldingDiscipline
<1>2. actions' = [actions EXCEPT ![a] = Recommend(Message)]
  BY DEF Create, Update
<1>3. UNCHANGED <<alertStream, position, delivered, byAlert>>
  BY DEF Create, Update, Goto
<1>4. QED BY <1>1, <1>2, <1>3, RecommendType DEF TypeOK

\* What a thread saves is decided, and of the alert it was of.
LEMMA Decided ==
  ASSUME TypeOK, HoldingDiscipline, NEW t \in PolicyThread, ThreadSave(t)
  PROVE  /\ target[t] \in Action /\ actions[target[t]] # Unsaved
         /\ actions'[target[t]].alert = actions[target[t]].alert
         /\ actions'[target[t]].status # "PENDING_APPROVAL"
         /\ \A b \in Action : b # target[t] => actions'[b] = actions[b]
         /\ UNCHANGED <<alertStream, reader, byAlert>>
<1> DEFINE new == [hash[t] EXCEPT !.status = Outcome(call[t])]
<1>1. opc[t] = "save" /\ hash' = [hash EXCEPT ![t].status = Outcome(call[t])]
      /\ actions' = [actions EXCEPT ![target[t]] = hash'[t]]
      /\ UNCHANGED <<alertStream, reader, byAlert>>
  BY DEF ThreadSave
<1>2. target[t] \in Action /\ actions[target[t]] # Unsaved
  BY <1>1 DEF HoldingDiscipline, ThreadDiscipline
<1>3. new.alert = actions[target[t]].alert /\ new.status = Outcome(call[t])
  BY <1>1, SavedType DEF HoldingDiscipline
<1>4. hash'[t] = new
  BY <1>1 DEF TypeOK
<1>5. Outcome(call[t]) # "PENDING_APPROVAL"
  BY DEF Outcome, TypeOK
<1> HIDE DEF new
<1>6. QED BY <1>1, <1>2, <1>3, <1>4, <1>5 DEF TypeOK

LEMMA ActionInit == Init => ActionDiscipline /\ PendingDiscipline
BY DEF Init, ActionDiscipline, PendingDiscipline

LEMMA ActionStep ==
  TypeOK /\ HoldingDiscipline /\ ActionDiscipline /\ [Next]_vars => ActionDiscipline'
<1> SUFFICES ASSUME TypeOK, HoldingDiscipline, ActionDiscipline, [Next]_vars, faults' = 0
             PROVE  ActionDiscipline'
    BY DEF ActionDiscipline
<1>1. /\ faults = 0 /\ ~MessageFails /\ ~AckFails /\ ~Restart
      /\ \A t \in PolicyThread : ~CallFails(t)
  BY CleanStep
<1> USE DEF ActionDiscipline, Goto
\* Steps that write no action and leave the consumer where it is.
<1>2. ASSUME UNCHANGED <<byAlert, inHand, step>>, step \in {"list", "point", "create"} => Message' = Message,
             \A a \in Action : actions'[a] # Unsaved =>
               actions[a] # Unsaved /\ actions'[a].alert = actions[a].alert
      PROVE  ActionDiscipline'
  BY <1>1, <1>2
<1>3. ASSUME NEW m \in AlertMessage, Alerted(m)
      PROVE  ActionDiscipline'
  <2>1. UNCHANGED <<byAlert, inHand, step, actions, position>>
    BY <1>3 DEF Alerted, policyVars, reader, store
  <2>2. step \in {"list", "point", "create"} => Message' = Message
    BY <1>3, <2>1 DEF Alerted, Message, TypeOK, HoldingDiscipline, ReadingDiscipline
  <2>3. QED BY <1>2, <2>1, <2>2
<1>4. CASE Read \/ ReadNothing \/ Announce \/ Ack
  <2>1. /\ UNCHANGED <<actions, byAlert>> /\ step \notin {"list", "point"}
        /\ step' \notin {"list", "point", "create"}
    BY <1>4 DEF Read, ReadNothing, Announce, Ack, store
  <2>2. QED BY <1>1, <2>1
<1>5. CASE Find
  <2>1. /\ UNCHANGED <<actions, byAlert>> /\ step = "find" /\ Message' = Message
        /\ step' \in {"ack", "create", "load"}
        /\ step' = "create" => byAlert[Message.alert] = NoAction
    BY <1>5 DEF Find, store, Message
  <2>2. \A a \in Action : actions[a] # Unsaved => byAlert[actions[a].alert] # NoAction
    BY <1>1, <2>1, PolicyParameters DEF PolicyParameters
  <2>3. QED BY <1>1, <2>1, <2>2
<1>6. CASE Load
  <2>1. /\ UNCHANGED <<actions, byAlert>> /\ step = "load" /\ actions[inHand] # Unsaved
    BY <1>6 DEF Load, store, HoldingDiscipline, HandDiscipline
  <2>2. step' \in {"update", "ack"}
    BY <1>6, <2>1 DEF Load
  <2>3. QED BY <1>1, <2>1, <2>2
<1>7. ASSUME NEW a \in Action, Create(a)
      PROVE  ActionDiscipline'
  <2>1. step = "create" /\ step' = "list" /\ inHand' = a
    BY <1>7 DEF Create
  <2>2. Message' = Message
    BY <1>7, Written DEF Message
  <2>3. QED BY <1>1, <1>7, <2>1, <2>2, Written
<1>8. CASE List
  <2>1. /\ UNCHANGED <<actions, byAlert, inHand>> /\ step = "list" /\ step' = "point"
        /\ Message' = Message
    BY <1>8 DEF List, Message
  <2>2. QED BY <1>1, <2>1
<1>9. CASE Point
  <2>1. /\ UNCHANGED <<actions, inHand>> /\ step = "point" /\ step' = "created"
        /\ byAlert' = [byAlert EXCEPT ![Message.alert] = inHand]
    BY <1>9 DEF Point
  <2>2. Message.alert \in Alert
    BY <2>1, MessageType DEF HoldingDiscipline, AlertMessage
  <2>3. /\ byAlert'[Message.alert] = inHand
        /\ \A i \in Alert : i # Message.alert => byAlert'[i] = byAlert[i]
    BY <2>1, <2>2 DEF TypeOK
  <2>4. \A a \in Action : actions[a] # Unsaved => actions[a].alert \in Alert
    BY DEF TypeOK, ActionRecord
  <2>5. actions[inHand].alert = Message.alert
    BY <2>1 DEF HoldingDiscipline, HandDiscipline
  <2>6. QED BY <1>1, <2>1, <2>3, <2>4, <2>5
<1>10. CASE Update
  <2>1. /\ step = "update" /\ step' = "updated" /\ inHand \in Action /\ actions[inHand] # Unsaved
        /\ actions[inHand].alert = Message.alert
    BY <1>10 DEF Update, HoldingDiscipline, HandDiscipline
  <2>2. QED BY <1>1, <1>10, <2>1, Written
<1>11. ASSUME NEW t \in PolicyThread, ThreadSave(t)
       PROVE  ActionDiscipline'
  <2>1. UNCHANGED <<byAlert, inHand, step>> /\ Message' = Message
    BY <1>11, Decided DEF reader, Message
  <2>2. \A a \in Action : actions'[a] # Unsaved =>
          actions[a] # Unsaved /\ actions'[a].alert = actions[a].alert
    BY <1>11, Decided
  <2>3. QED BY <1>2, <2>1, <2>2
<1>12. ASSUME NEW t \in PolicyThread, ThreadLoad(t) \/ Actuate(t) \/ ThreadAnnounce(t)
       PROVE  ActionDiscipline'
  <2>1. UNCHANGED <<byAlert, inHand, step, actions>> /\ Message' = Message
    BY <1>12 DEF ThreadLoad, Actuate, ThreadAnnounce, reader, store, Message
  <2>2. QED BY <1>2, <2>1
<1>13. ASSUME NEW t \in PolicyThread, NEW c \in {"approve", "reject", "execute"}, NEW a \in Action,
              Dispatch(t, c, a)
       PROVE  ActionDiscipline'
  <2>1. UNCHANGED <<byAlert, inHand, step, actions>> /\ Message' = Message
    BY <1>13 DEF Dispatch, reader, store, Message
  <2>2. QED BY <1>2, <2>1
<1>14. CASE UNCHANGED vars
  <2>1. UNCHANGED <<byAlert, inHand, step, actions>> /\ Message' = Message
    BY <1>14 DEF vars, policyVars, reader, store, Message
  <2>2. QED BY <1>2, <2>1
<1>15. QED
  BY <1>1, <1>3, <1>4, <1>5, <1>6, <1>7, <1>8, <1>9, <1>10, <1>11, <1>12, <1>13, <1>14
  DEF Next, PolicyNext, Process, Serve

\* Without failures no two actions are for the same alert.
LEMMA OnlyAction ==
  ASSUME TypeOK, HoldingDiscipline, ActionDiscipline, faults = 0, NEW a \in Action, NEW b \in Action,
         actions[a] # Unsaved, actions[b] # Unsaved, actions[a].alert = actions[b].alert
  PROVE  a = b
<1>1. step \in {"list", "point"} => actions[inHand].alert = Message.alert
  BY DEF HoldingDiscipline, HandDiscipline
<1>2. QED BY <1>1 DEF ActionDiscipline

\* Without failures an alert has one action, however its messages, and what operators
\* decide meanwhile, interleave.
THEOREM OneActionPerAlert == Spec => []OneActionEach
<1>1. TypeOK /\ HoldingDiscipline /\ ActionDiscipline => OneActionEach
  BY OnlyAction DEF OneActionEach
<1>2. QED BY <1>1, ActionInit, ActionStep, HoldingInvariant, PTL DEF Spec

--------------------------------------------------------------------------------
(* A pending action follows its alert. *)

\* The steps at which the consumer has written the action of the message in hand, or
\* found it decided.
AfterWrite == {"list", "point", "created", "updated", "ack"}

\* Settled, of any stream, position and step of the consumer.
Follows(msgs, pos, s, i) ==
  {n \in 1..(pos - 1) : msgs[n].alert = i /\ msgs[n].status # "RESOLVED"}
    \cup {n \in {pos} : s \in AfterWrite /\ msgs[n].alert = i /\ msgs[n].status # "RESOLVED"}

\* Action rec is what the rules make of the last of them.
Current(msgs, pos, s, rec) ==
  \E n \in Follows(msgs, pos, s, rec.alert) :
    /\ \A k \in Follows(msgs, pos, s, rec.alert) : k <= n
    /\ rec.action_type = Decide(msgs[n]).action_type

Pending(rec) == rec # Unsaved /\ rec.status = "PENDING_APPROVAL"

LEMMA PendingParts ==
  PendingDiscipline <=>
    (faults = 0 =>
       /\ step \in {"idle", "read"} => position = delivered + 1
       /\ step \in {"load", "create", "update"} => Message.status # "RESOLVED"
       /\ \A a \in Action : Pending(actions[a]) => Current(alertStream, position, step, actions[a]))
BY DEF PendingDiscipline, Settled, Handled, Follows, Current, Pending, AfterWrite

LEMMA PendingPartsPrime ==
  PendingDiscipline' <=>
    (faults' = 0 =>
       /\ step' \in {"idle", "read"} => position' = delivered' + 1
       /\ step' \in {"load", "create", "update"} => Message'.status # "RESOLVED"
       /\ \A a \in Action : Pending(actions'[a]) => Current(alertStream', position', step', actions'[a]))
BY DEF PendingDiscipline, Settled, Handled, Follows, Current, Pending, AfterWrite

\* What is current stays current while the same messages are followed.
LEMMA CurrentKept ==
  ASSUME NEW msgs, NEW pos, NEW s, NEW msgs1, NEW pos1, NEW s1, NEW rec,
         Current(msgs, pos, s, rec),
         Follows(msgs1, pos1, s1, rec.alert) = Follows(msgs, pos, s, rec.alert),
         \A n \in Follows(msgs, pos, s, rec.alert) : msgs1[n] = msgs[n]
  PROVE  Current(msgs1, pos1, s1, rec)
BY DEF Current

LEMMA PendingStep ==
  TypeOK /\ HoldingDiscipline /\ ActionDiscipline /\ PendingDiscipline /\ [Next]_vars
    => PendingDiscipline'
<1> SUFFICES ASSUME TypeOK, HoldingDiscipline, ActionDiscipline, PendingDiscipline, [Next]_vars,
                    faults' = 0
             PROVE  /\ step' \in {"idle", "read"} => position' = delivered' + 1
                    /\ step' \in {"load", "create", "update"} => Message'.status # "RESOLVED"
                    /\ \A a \in Action :
                         Pending(actions'[a]) => Current(alertStream', position', step', actions'[a])
    BY PendingPartsPrime
<1> DEFINE Goal == /\ step' \in {"idle", "read"} => position' = delivered' + 1
                   /\ step' \in {"load", "create", "update"} => Message'.status # "RESOLVED"
                   /\ \A a \in Action :
                        Pending(actions'[a]) => Current(alertStream', position', step', actions'[a])
<1>1. /\ faults = 0 /\ ~MessageFails /\ ~AckFails /\ ~Restart
      /\ \A t \in PolicyThread : ~CallFails(t)
  BY CleanStep
<1>2. /\ step \in {"idle", "read"} => position = delivered + 1
      /\ step \in {"load", "create", "update"} => Message.status # "RESOLVED"
      /\ \A a \in Action : Pending(actions[a]) => Current(alertStream, position, step, actions[a])
  BY <1>1, PendingParts
<1>3. /\ position \in Nat \ {0} /\ delivered \in Nat /\ delivered <= Len(alertStream)
      /\ step \notin {"idle", "read"} => position <= delivered
  BY DEF TypeOK, HoldingDiscipline, ReadingDiscipline
\* Steps that write no action, and follow the same messages.
<1>4. ASSUME UNCHANGED actions,
             \A i : Follows(alertStream', position', step', i) = Follows(alertStream, position, step, i),
             \A i : \A n \in Follows(alertStream, position, step, i) : alertStream'[n] = alertStream[n]
      PROVE  \A a \in Action :
               Pending(actions'[a]) => Current(alertStream', position', step', actions'[a])
  BY <1>2, <1>4, CurrentKept
<1> USE DEF Goto
<1>5. ASSUME NEW m \in AlertMessage, Alerted(m)
      PROVE  Goal
  <2>1. UNCHANGED <<actions, position, delivered, step>> /\ alertStream' = Append(alertStream, m)
    BY <1>5 DEF Alerted, policyVars, reader, store
  <2>2. \A n \in 1..Len(alertStream) : alertStream'[n] = alertStream[n]
    BY <2>1 DEF TypeOK
  <2>3. /\ \A n \in 1..(position - 1) : alertStream'[n] = alertStream[n]
        /\ step \notin {"idle", "read"} => alertStream'[position] = alertStream[position]
    <3>1. Len(alertStream) \in Nat
      BY DEF TypeOK
    <3>2. position - 1 <= Len(alertStream)
      BY <1>2, <1>3, <3>1
    <3>3. QED BY <1>3, <2>2, <3>1, <3>2
  <2>4. \A i : Follows(alertStream', position', step', i) = Follows(alertStream, position, step, i)
    <3>1. step \in AfterWrite => step \notin {"idle", "read"}
      BY DEF AfterWrite
    <3>2. QED BY <2>1, <2>3, <3>1 DEF Follows
  <2>5. \A i : \A n \in Follows(alertStream, position, step, i) : alertStream'[n] = alertStream[n]
    BY <2>3 DEF Follows, AfterWrite
  <2>6. step' \in {"load", "create", "update"} => Message'.status # "RESOLVED"
    BY <1>2, <2>1, <2>3 DEF Message
  <2>7. QED BY <1>2, <1>4, <2>1, <2>4, <2>5, <2>6
\* Steps of the consumer over the same stream, before or after the write.
<1>6. ASSUME UNCHANGED <<actions, alertStream, position>>,
             \/ step \in AfterWrite /\ step' \in AfterWrite
             \/ step \notin AfterWrite /\ step' \notin AfterWrite
             \/ step \notin AfterWrite /\ Message.status = "RESOLVED"
      PROVE  \A a \in Action :
               Pending(actions'[a]) => Current(alertStream', position', step', actions'[a])
  <2>1. \A i : Follows(alertStream', position', step', i) = Follows(alertStream, position, step, i)
    BY <1>6 DEF Follows, Message
  <2>2. QED BY <1>4, <1>6, <2>1
<1>7. CASE Read \/ ReadNothing
  <2>1. /\ UNCHANGED <<actions, alertStream>> /\ step \in {"idle", "read"}
        /\ position' = position /\ step' \in {"find", "idle"}
        /\ step' = "idle" => delivered' = delivered
    BY <1>2, <1>7 DEF Read, ReadNothing, store
  <2>2. QED BY <1>2, <1>6, <2>1 DEF AfterWrite
<1>8. CASE Find
  <2>1. /\ UNCHANGED <<actions, alertStream, position>> /\ step = "find"
        /\ \/ step' = "ack" /\ Message.status = "RESOLVED"
           \/ step' \in {"create", "load"} /\ Message.status # "RESOLVED"
    BY <1>8 DEF Find, store
  <2>2. QED BY <1>6, <2>1 DEF AfterWrite, Message
<1>9. CASE Load
  <2>1. /\ UNCHANGED <<actions, alertStream, position>> /\ step = "load"
        /\ inHand \in Action /\ actions[inHand] # Unsaved /\ actions[inHand].alert = Message.alert
    BY <1>9 DEF Load, store, HoldingDiscipline, HandDiscipline
  <2>2. \/ step' = "update"
        \/ step' = "ack" /\ ~Pending(actions[inHand])
    BY <1>9, <2>1 DEF Load, Pending
  <2>3. CASE step' = "update"
    BY <1>2, <1>6, <2>1, <2>3 DEF AfterWrite, Message
  <2>4. ASSUME step' = "ack", ~Pending(actions[inHand]), NEW a \in Action, Pending(actions[a])
        PROVE  Current(alertStream', position', step', actions'[a])
    <3>1. actions[a].alert # Message.alert
      BY <1>1, <2>1, <2>4, OnlyAction DEF Pending
    <3>2. Follows(alertStream', position', step', actions[a].alert)
            = Follows(alertStream, position, step, actions[a].alert)
      BY <2>1, <3>1 DEF Follows, Message, AfterWrite
    <3>3. QED BY <1>2, <2>1, <2>4, <3>2, CurrentKept
  <2>5. QED BY <2>1, <2>2, <2>3, <2>4
<1>10. ASSUME NEW a \in Action, Create(a) \/ (Update /\ a = inHand)
       PROVE  Goal
  <2>1. /\ UNCHANGED <<alertStream, position>>
        /\ actions'[a].alert = Message.alert
        /\ actions'[a].action_type = Decide(Message).action_type
        /\ \A b \in Action : b # a => actions'[b] = actions[b]
    BY <1>10, Written
  <2>2. step \in {"create", "update"} /\ step' \in {"list", "updated"}
    BY <1>10 DEF Create, Update
  <2>3. Message.status # "RESOLVED"
    BY <1>2, <2>2
  <2>4. Current(alertStream', position', step', actions'[a])
    <3>1. position \in Follows(alertStream', position', step', Message.alert)
      BY <2>1, <2>2, <2>3 DEF Follows, Message, AfterWrite
    <3>2. \A n \in Follows(alertStream', position', step', Message.alert) : n <= position
      BY <1>3, <2>1 DEF Follows
    <3>3. QED BY <2>1, <3>1, <3>2 DEF Current, Message
  <2>5. ASSUME NEW b \in Action, b # a, Pending(actions[b])
        PROVE  Current(alertStream', position', step', actions'[b])
    <3>1. actions[b].alert # Message.alert
      <4>1. CASE Create(a)
        BY <1>1, <2>5, <4>1 DEF Create, ActionDiscipline, Pending
      <4>2. CASE Update /\ a = inHand
        <5>1. actions[a] # Unsaved /\ actions[a].alert = Message.alert
          BY <4>2 DEF Update, HoldingDiscipline, HandDiscipline
        <5>2. QED BY <1>1, <2>5, <5>1, OnlyAction DEF Pending
      <4>3. QED BY <1>10, <4>1, <4>2
    <3>2. Follows(alertStream', position', step', actions[b].alert)
            = Follows(alertStream, position, step, actions[b].alert)
      BY <2>1, <2>2, <3>1 DEF Follows, Message, AfterWrite
    <3>3. QED BY <1>2, <2>1, <2>5, <3>2, CurrentKept
  <2>6. QED BY <2>1, <2>2, <2>4, <2>5
<1>11. CASE List \/ Point \/ Announce
  <2>1. /\ UNCHANGED <<actions, alertStream, position>>
        /\ step \in AfterWrite /\ step' \in {"point", "created", "ack"}
    BY <1>11 DEF List, Point, Announce, AfterWrite
  <2>2. QED BY <1>6, <2>1 DEF AfterWrite
<1>12. CASE Ack
  <2>1. /\ UNCHANGED <<actions, alertStream, delivered>> /\ step = "ack"
        /\ position' = position + 1
        /\ step' = IF position < delivered THEN "find" ELSE "read"
    BY <1>12 DEF Ack, store
  <2>2. step' = "read" => position' = delivered' + 1
    BY <1>3, <2>1
  <2>3. 1..(position' - 1) = 1..(position - 1) \cup {position} /\ step' \notin AfterWrite
    BY <1>3, <2>1 DEF AfterWrite
  <2>4. \A i : Follows(alertStream', position', step', i) = Follows(alertStream, position, step, i)
    BY <2>1, <2>3 DEF Follows, AfterWrite
  <2>5. QED BY <1>4, <2>1, <2>2, <2>4
<1>13. ASSUME NEW t \in PolicyThread, ThreadSave(t)
       PROVE  Goal
  <2>1. /\ UNCHANGED <<alertStream, position, delivered, step>>
        /\ ~Pending(actions'[target[t]])
        /\ \A b \in Action : b # target[t] => actions'[b] = actions[b]
    BY <1>13, Decided DEF reader, Pending
  <2>2. QED BY <1>2, <2>1 DEF Message
<1>14. ASSUME NEW t \in PolicyThread, ThreadLoad(t) \/ Actuate(t) \/ ThreadAnnounce(t)
       PROVE  Goal
  <2>1. UNCHANGED <<alertStream, actions, position, delivered, step>>
    BY <1>14 DEF ThreadLoad, Actuate, ThreadAnnounce, reader, store
  <2>2. QED BY <1>2, <2>1 DEF Message
<1>15. ASSUME NEW t \in PolicyThread, NEW c \in {"approve", "reject", "execute"}, NEW a \in Action,
              Dispatch(t, c, a)
       PROVE  Goal
  <2>1. UNCHANGED <<alertStream, actions, position, delivered, step>>
    BY <1>15 DEF Dispatch, reader, store
  <2>2. QED BY <1>2, <2>1 DEF Message
<1>16. CASE UNCHANGED vars
  <2>1. UNCHANGED <<alertStream, actions, position, delivered, step>>
    BY <1>16 DEF vars, policyVars, reader, store
  <2>2. QED BY <1>2, <2>1 DEF Message
<1>17. CASE Update
  <2>1. inHand \in Action
    BY <1>17 DEF Update, HoldingDiscipline, HandDiscipline
  <2>2. QED BY <1>10, <1>17, <2>1
<1>18. QED
  BY <1>1, <1>5, <1>7, <1>8, <1>9, <1>10, <1>11, <1>12, <1>13, <1>14, <1>15, <1>16, <1>17
  DEF Next, PolicyNext, Process, Serve

\* Without failures a pending action is what the rules make of the last message about its
\* alert that was not a resolution, for every batch size and whatever operators decided on
\* copies they had read before it came.
THEOREM PendingStaysLatest == Spec => []PendingIsLatest
<1>1. PendingDiscipline => PendingIsLatest
  <2> SUFFICES ASSUME PendingDiscipline, faults = 0, step \in {"idle", "read"}, NEW a \in Action,
                      actions[a] # Unsaved, actions[a].status = "PENDING_APPROVAL"
               PROVE  \E n \in Handled(actions[a].alert) :
                        /\ \A k \in Handled(actions[a].alert) : k <= n
                        /\ actions[a].action_type = Decide(alertStream[n]).action_type
      BY DEF PendingIsLatest
  <2>1. Settled(actions[a].alert) = Handled(actions[a].alert)
    BY DEF Settled
  <2>2. QED BY <2>1 DEF PendingDiscipline
<1>2. QED
  BY <1>1, ActionInit, ActionStep, PendingStep, HoldingInvariant, PTL DEF Spec

--------------------------------------------------------------------------------
(* Actions and messages. *)

LEMMA AskedInit == Init => ActionsAreAsked
BY DEF Init, ActionsAreAsked

\* The stream only grows.
LEMMA StreamGrows ==
  ASSUME TypeOK, [Next]_vars
  PROVE  \A n \in DOMAIN alertStream : n \in DOMAIN alertStream' /\ alertStream'[n] = alertStream[n]
<1>1. CASE UNCHANGED alertStream
  BY <1>1
<1>2. ASSUME NEW m \in AlertMessage, Alerted(m)
      PROVE  \A n \in DOMAIN alertStream :
               n \in DOMAIN alertStream' /\ alertStream'[n] = alertStream[n]
  BY <1>2 DEF Alerted, TypeOK
<1>3. CASE PolicyNext
  BY <1>1, <1>3
  DEF PolicyNext, Process, Serve, Read, ReadNothing, Find, Load, Create, List, Point, Update,
      Announce, Ack, MessageFails, AckFails, Restart, ThreadLoad, Actuate, ThreadSave,
      ThreadAnnounce, CallFails, Dispatch
<1>4. CASE UNCHANGED vars
  BY <1>1, <1>4 DEF vars
<1>5. QED BY <1>2, <1>3, <1>4 DEF Next

\* Only a creation saves an action that was not saved before.
LEMMA OnlyCreated ==
  ASSUME TypeOK, HoldingDiscipline, [Next]_vars, NEW a \in Action, actions[a] = Unsaved,
         actions'[a] # Unsaved
  PROVE  Create(a)
<1> USE DEF TypeOK
<1>1. CASE UNCHANGED actions
  BY <1>1
<1>2. CASE Update
  BY <1>2 DEF Update, HoldingDiscipline, HandDiscipline
<1>3. ASSUME NEW t \in PolicyThread, ThreadSave(t)
      PROVE  FALSE
  BY <1>3 DEF ThreadSave, HoldingDiscipline, ThreadDiscipline
<1>4. ASSUME NEW b \in Action, Create(b)
      PROVE  Create(a)
  BY <1>4 DEF Create
<1>5. CASE ~Update /\ (\A b \in Action : ~Create(b)) /\ \A t \in PolicyThread : ~ThreadSave(t)
  <2>1. UNCHANGED actions
    BY <1>5
    DEF Next, PolicyNext, Process, Serve, Alerted, Read, ReadNothing, Find, Load, List, Point,
        Announce, Ack, MessageFails, AckFails, Restart, ThreadLoad, Actuate, ThreadAnnounce,
        CallFails, Dispatch, vars, policyVars, store
  <2>2. QED BY <2>1, <1>1
<1>6. QED BY <1>2, <1>3, <1>4, <1>5

LEMMA AskedStep == TypeOK /\ HoldingDiscipline /\ ActionsAreAsked /\ [Next]_vars => ActionsAreAsked'
<1> SUFFICES ASSUME TypeOK, HoldingDiscipline, ActionsAreAsked, [Next]_vars,
                    NEW a \in Action, actions'[a] # Unsaved
             PROVE  \E n \in DOMAIN alertStream' : alertStream'[n].alert = actions'[a].alert
    BY DEF ActionsAreAsked
<1>1. CASE actions[a] # Unsaved
  <2>1. PICK n \in DOMAIN alertStream : alertStream[n].alert = actions[a].alert
    BY <1>1 DEF ActionsAreAsked
  <2>2. QED BY <1>1, <2>1, StreamGrows, ActionsAreKept
<1>2. CASE actions[a] = Unsaved
  <2>1. Create(a)
    BY <1>2, OnlyCreated
  <2>2. Message \in AlertMessage /\ position \in DOMAIN alertStream
    BY <2>1, MessageType DEF Create, TypeOK, HoldingDiscipline, ReadingDiscipline
  <2>3. actions'[a].alert = Message.alert
    BY <2>1, <2>2, RecommendType DEF Create, TypeOK
  <2>4. QED BY <2>2, <2>3, StreamGrows DEF Message
<1>3. QED BY <1>1, <1>2

\* No action comes from nowhere: each is for an alert that a message was about.
THEOREM ActionsComeFromMessages == Spec => []ActionsAreAsked
<1>1. QED BY AskedInit, AskedStep, HoldingInvariant, PTL DEF Spec

================================================================================
