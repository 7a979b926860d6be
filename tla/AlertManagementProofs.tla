------------------------- MODULE AlertManagementProofs -------------------------
(***************************************************************************)
(* Machine-checked proofs about AlertManagement, for every set of alerts,  *)
(* keys and operators, every batch size, and every number of events, calls *)
(* and faults.                                                             *)
(***************************************************************************)
EXTENDS AlertManagement, FiniteSetTheorems, SequenceTheorems, TLAPS

--------------------------------------------------------------------------------
(* The inductive invariants of AlertManagement. *)

\* There is an event in hand while one is handled; it is not benign once it has
\* been looked at.
BatchDiscipline ==
  /\ cpc \in {"idle", "read"} <=> batch = <<>>
  /\ cpc \notin {"idle", "read", "find", "ack"} => Head(batch).severity # Benign

\* What is listed is saved, and keys lead to their alerts.
DedupDiscipline == DedupConsistent /\ \A i \in listed : alerts[i] # Absent

\* The alert in hand is saved and has the key of the event in hand, and so does
\* the copy.
HandDiscipline ==
  /\ cpc \in {"load", "list", "point", "created", "update", "updated"} =>
       held \in Alert /\ alerts[held] # Absent /\ alerts[held].key = Head(batch).key
  /\ cpc = "point" => held \in listed
  /\ cpc \in {"list", "point", "created", "update", "updated"} =>
       copy \in AlertRecord /\ copy.key = Head(batch).key

\* An operator's thread has been called for an alert that is saved, and holds a
\* copy of it.
ThreadDiscipline ==
  \A h \in Operator :
    /\ hpc[h] # "idle" => hid[h] \in Alert /\ alerts[hid[h]] # Absent
    /\ hpc[h] \in {"save", "undedup", "announce"} =>
         hcopy[h] \in AlertRecord /\ hcopy[h].key = alerts[hid[h]].key

HoldingDiscipline ==
  BatchDiscipline /\ DedupDiscipline /\ HandDiscipline /\ ThreadDiscipline

\* The events of a batch that have not been counted yet.
Uncounted(k) ==
  IF cpc \in {"find", "load", "drop", "create", "update"} THEN Arrivals(batch, k)
  ELSE IF batch = <<>> THEN 0 ELSE Arrivals(Tail(batch), k)

\* No hash and no copy of one counts more than has been read and dealt with.
CountDiscipline ==
  /\ \A k \in Key : Uncounted(k) <= seen[k]
  /\ \A i \in Alert :
       alerts[i] # Absent => alerts[i].event_count + Uncounted(alerts[i].key) <= seen[alerts[i].key]
  /\ cpc = "update" => copy.event_count + Uncounted(copy.key) <= seen[copy.key]
  /\ \A h \in Operator :
       hpc[h] = "save" => hcopy[h].event_count + Uncounted(hcopy[h].key) <= seen[hcopy[h].key]

\* The stream says that alert i was created.
Announced(i) == \E m \in DOMAIN stream : stream[m].alert = i /\ stream[m].type = "created"

\* Without failures, an alert is announced unless the consumer is about to, and a
\* thread's alert is: its call began when the consumer slept.
AnnouncementDiscipline ==
  faults = 0 =>
    /\ \A i \in Alert :
         alerts[i] # Absent => Announced(i) \/ (held = i /\ cpc \in {"list", "point", "created"})
    /\ \A h \in Operator : hpc[h] # "idle" => Announced(hid[h])

\* A thread saves the status its operation gives, and only a resolution deletes a key;
\* the consumer updates what it has found active.
StatusDiscipline ==
  /\ \A h \in Operator :
       /\ hpc[h] = "save" => hcopy[h].status = NewStatus(h)
       /\ hpc[h] = "undedup" => op[h] = "resolve"
  /\ cpc = "update" => copy.status # "RESOLVED"

\* While key k has seen no resolution, it has one alert at most; that alert is active
\* and k points to it, or the consumer is about to let it.
OneAlert(k) ==
  /\ \A i \in Alert :
       alerts[i] # Absent /\ alerts[i].key = k =>
         /\ alerts[i].status # "RESOLVED"
         /\ dedup[k] = i \/ (held = i /\ cpc \in {"list", "point"})
         /\ cpc \in {"list", "point"} /\ Head(batch).key = k => held = i
  /\ cpc \in {"drop", "create"} /\ Head(batch).key = k =>
       /\ cpc = "create"
       /\ \A i \in Alert : alerts[i] # Absent => alerts[i].key # k

UniquenessDiscipline == faults = 0 => \A k \in Key : ResolvedOnce(k) \/ OneAlert(k)

\* Messages are about alerts that are saved and listed, and carry their keys; so do
\* those that the consumer and the operators' threads are about to write.
MessageDiscipline ==
  /\ \A n \in DOMAIN stream :
       LET i == stream[n].alert IN
       i \in listed /\ alerts[i] # Absent /\ stream[n].key = alerts[i].key
  /\ cpc \in {"load", "point", "created", "update", "updated"} => held \in listed
  /\ \A h \in Operator : hpc[h] # "idle" => hid[h] \in listed

(* Counting the events of a batch. *)

\* The positions of the events that Arrivals counts.
Counted(evs, k) == {n \in DOMAIN evs : evs[n].key = k /\ evs[n].severity # Benign}

LEMMA CountedType ==
  ASSUME NEW evs \in Seq(Event), NEW k
  PROVE  /\ IsFiniteSet(Counted(evs, k))
         /\ Counted(evs, k) \subseteq 1..Len(evs)
         /\ Arrivals(evs, k) = Cardinality(Counted(evs, k))
         /\ Arrivals(evs, k) \in Nat
<1>1. Counted(evs, k) \subseteq 1..Len(evs)
  BY DEF Counted
<1>2. IsFiniteSet(1..Len(evs))
  BY FS_Interval
<1>3. IsFiniteSet(Counted(evs, k))
  BY <1>1, <1>2, FS_Subset
<1>4. Arrivals(evs, k) = Cardinality(Counted(evs, k))
  BY DEF Arrivals, Counted
<1>5. QED BY <1>1, <1>3, <1>4, FS_CardinalityType

\* The head of a batch counts for its own key, unless it is benign; the others
\* are counted in the tail.
LEMMA ArrivalsOfTail ==
  ASSUME NEW evs \in Seq(Event), evs # <<>>, NEW k
  PROVE  Arrivals(evs, k) =
           IF Head(evs).key = k /\ Head(evs).severity # Benign
           THEN Arrivals(Tail(evs), k) + 1 ELSE Arrivals(Tail(evs), k)
<1> DEFINE S == Counted(evs, k)
           T == Counted(Tail(evs), k)
           f == [n \in T |-> n + 1]
<1>1. Len(evs) \in Nat /\ Len(evs) > 0
  BY EmptySeq
<1>2. /\ Tail(evs) \in Seq(Event) /\ Len(Tail(evs)) = Len(evs) - 1
      /\ \A n \in 1..Len(evs) - 1 : Tail(evs)[n] = evs[n + 1]
  BY <1>1, HeadTailProperties
<1>3. /\ IsFiniteSet(S) /\ S \subseteq 1..Len(evs) /\ Arrivals(evs, k) = Cardinality(S)
      /\ IsFiniteSet(T) /\ T \subseteq 1..Len(evs) - 1 /\ Arrivals(Tail(evs), k) = Cardinality(T)
  BY <1>2, CountedType
<1>4. \A n \in 1..Len(evs) - 1 : n \in T <=> n + 1 \in S
  BY <1>1, <1>2 DEF Counted
<1>5. \A n \in S : n # 1 => n - 1 \in T
  <2> SUFFICES ASSUME NEW n \in S, n # 1
               PROVE  n - 1 \in T
      OBVIOUS
  <2>1. n - 1 \in 1..Len(evs) - 1 /\ (n - 1) + 1 = n
    BY <1>1, <1>3
  <2>2. QED BY <2>1, <1>4
<1>6. \A n \in T : n \in Nat /\ n + 1 \in S \ {1}
  BY <1>1, <1>3, <1>4
<1>7. f \in Bijection(T, S \ {1})
  <2> HIDE DEF S, T
  <2>1. f \in [T -> S \ {1}]
    BY <1>6
  <2>2. f \in Injection(T, S \ {1})
    BY <2>1, <1>6 DEF Injection, IsInjective
  <2>3. \A n \in S \ {1} : \E m \in T : f[m] = n
    <3> SUFFICES ASSUME NEW n \in S \ {1}
                 PROVE  \E m \in T : f[m] = n
        OBVIOUS
    <3>1. n - 1 \in T /\ n \in Nat
      BY <1>3, <1>5
    <3>2. f[n - 1] = n
      BY <3>1
    <3>3. QED BY <3>1, <3>2
  <2>4. QED BY <2>1, <2>2, <2>3 DEF Bijection, Surjection
<1>8. Cardinality(S \ {1}) = Cardinality(T)
  BY <1>3, <1>7, FS_Bijection DEF ExistsBijection
<1>9. Cardinality(S \ {1}) = IF 1 \in S THEN Cardinality(S) - 1 ELSE Cardinality(S)
  BY <1>3, FS_RemoveElement
<1>10. 1 \in S <=> Head(evs).key = k /\ Head(evs).severity # Benign
  BY <1>1, HeadTailProperties DEF Counted
<1>11. Cardinality(S) \in Nat /\ Cardinality(T) \in Nat
  BY <1>3, FS_CardinalityType
<1>12. QED
  <2> HIDE DEF S, T
  <2>1. QED BY <1>3, <1>8, <1>9, <1>10, <1>11

\* A batch is a sequence of events, at least one.
LEMMA BatchesType ==
  ASSUME NEW evs \in Batches
  PROVE  evs \in Seq(Event) /\ evs # <<>>
<1>1. PICK n \in 1..MaxBatch : evs \in [1..n -> Event]
  BY DEF Batches
<1>2. n \in Nat /\ n > 0
  BY Parameters DEF Parameters
<1>3. evs \in Seq(Event)
  BY <1>1, <1>2, SeqDef
<1>4. Len(evs) = n
  BY <1>1, <1>2, <1>3, LenProperties
<1>5. QED BY <1>2, <1>3, <1>4, EmptySeq

--------------------------------------------------------------------------------
(* Types, and what is held. *)

LEMMA HoldingInit == Init => TypeOK /\ HoldingDiscipline
BY Parameters
   DEF Init, TypeOK, HoldingDiscipline, BatchDiscipline, DedupDiscipline, DedupConsistent,
       HandDiscipline, ThreadDiscipline, Parameters

\* While an event is handled, there is one.
LEMMA HeadType ==
  ASSUME TypeOK, BatchDiscipline, cpc \notin {"idle", "read"}
  PROVE  /\ batch \in Seq(Event) /\ batch # <<>> /\ Head(batch) \in Event
         /\ Head(batch).key \in Key
         /\ cpc \notin {"find", "ack"} => Head(batch).severity \in Severity
<1>1. batch \in Seq(Event) /\ batch # <<>>
  BY DEF TypeOK, BatchDiscipline
<1>2. Head(batch) \in Event
  BY <1>1, HeadTailProperties
<1>3. QED BY <1>1, <1>2 DEF Event, BatchDiscipline

\* What the consumer saves as new, and as updated, is a record of the event's key.
LEMMA CreatedType ==
  ASSUME TypeOK, BatchDiscipline, NEW i \in Alert, Create(i)
  PROVE  /\ copy' \in AlertRecord /\ copy'.key = Head(batch).key
         /\ copy'.event_count = 1 /\ copy'.status = "OPEN"
         /\ alerts' = [alerts EXCEPT ![i] = copy']
<1>1. cpc = "create"
  BY DEF Create
<1>2. Head(batch).key \in Key /\ Head(batch).severity \in Severity
  BY <1>1, HeadType
<1>3. QED BY <1>2 DEF Create, AlertRecord, AlertStatus

LEMMA UpdatedType ==
  ASSUME TypeOK, HoldingDiscipline, Update
  PROVE  /\ copy' \in AlertRecord /\ copy'.key = copy.key
         /\ copy'.event_count = copy.event_count + 1
         /\ alerts' = [alerts EXCEPT ![held] = copy']
<1>1. cpc = "update"
  BY DEF Update
<1>2. Head(batch).severity \in Severity
  BY <1>1, HeadType DEF HoldingDiscipline
<1>3. copy \in AlertRecord
  BY <1>1 DEF HoldingDiscipline, HandDiscipline
<1>4. copy' = [copy EXCEPT !.severity = Head(batch).severity, !.event_count = @ + 1]
  BY DEF Update
<1>5. alerts' = [alerts EXCEPT ![held] = copy']
  BY DEF Update
<1>6. copy.event_count + 1 \in Nat
  BY <1>3 DEF AlertRecord
<1>7. copy' = [copy EXCEPT !.severity = Head(batch).severity, !.event_count = copy.event_count + 1]
  BY <1>4
<1>8. QED BY <1>2, <1>3, <1>5, <1>6, <1>7 DEF AlertRecord

\* What a thread will save is a record.
LEMMA LoadedType ==
  ASSUME TypeOK, HoldingDiscipline, NEW h \in Operator, hpc[h] = "load"
  PROVE  /\ hid[h] \in Alert /\ alerts[hid[h]] \in AlertRecord
         /\ [alerts[hid[h]] EXCEPT !.status = NewStatus(h)] \in AlertRecord
         /\ [alerts[hid[h]] EXCEPT !.status = NewStatus(h)].key = alerts[hid[h]].key
         /\ [alerts[hid[h]] EXCEPT !.status = NewStatus(h)].event_count = alerts[hid[h]].event_count
<1>1. hid[h] \in Alert /\ alerts[hid[h]] # Absent
  BY DEF HoldingDiscipline, ThreadDiscipline
<1>2. alerts[hid[h]] \in AlertRecord
  BY <1>1 DEF TypeOK
<1>3. NewStatus(h) \in AlertStatus
  BY DEF NewStatus, AlertStatus
<1>4. QED BY <1>1, <1>2, <1>3 DEF AlertRecord

LEMMA TypeStep == TypeOK /\ HoldingDiscipline /\ [Next]_vars => TypeOK'
<1> SUFFICES ASSUME TypeOK, HoldingDiscipline, [Next]_vars
             PROVE  TypeOK'
    OBVIOUS
<1> USE Parameters DEF TypeOK, Parameters, consumer, handlers, Goto, HGoto, HReturn, Fault
<1>1. CASE UNCHANGED vars
  BY <1>1 DEF vars
<1>2. ASSUME NEW evs \in Batches, Read(evs)
      PROVE  TypeOK'
  <2>1. evs \in Seq(Event)
    BY BatchesType
  <2>2. \A k \in Key : Arrivals(evs, k) \in Nat
    BY <2>1, CountedType
  <2>3. seen' \in [Key -> Nat]
    BY <1>2, <2>2 DEF Read
  <2>4. QED BY <1>2, <2>1, <2>3 DEF Read
<1>3. CASE ReadNothing \/ Load
  BY <1>3 DEF ReadNothing, Load, HoldingDiscipline, HandDiscipline
<1>4. CASE Find \/ Drop \/ Point
  <2>1. Head(batch).key \in Key
    BY <1>4, HeadType DEF Find, Drop, Point, HoldingDiscipline
  <2>2. QED BY <1>4, <2>1 DEF Find, Drop, Point, HoldingDiscipline, HandDiscipline
<1>5. ASSUME NEW i \in Alert, Create(i)
      PROVE  TypeOK'
  BY <1>5, CreatedType DEF Create, HoldingDiscipline
<1>6. CASE List
  BY <1>6 DEF List, HoldingDiscipline, HandDiscipline
<1>7. CASE Update
  BY <1>7, UpdatedType DEF Update
<1>8. CASE Announce
  <2>1. copy \in AlertRecord /\ held \in Alert
    BY <1>8 DEF Announce, HoldingDiscipline, HandDiscipline
  <2>2. [type |-> cpc, alert |-> held, key |-> copy.key,
         status |-> copy.status, severity |-> copy.severity] \in Message
    BY <1>8, <2>1 DEF Announce, Message, AlertRecord
  <2>3. stream' \in Seq(Message)
    BY <1>8, <2>2, AppendProperties DEF Announce, Publish
  <2>4. QED BY <1>8, <2>3 DEF Announce
<1>9. CASE Ack
  <2>1. Tail(batch) \in Seq(Event)
    BY <1>9, HeadType, HeadTailProperties DEF Ack, HoldingDiscipline
  <2>2. QED BY <1>9, <2>1 DEF Ack
<1>10. CASE EventFails \/ AckFails \/ Restart
  <2>1. CASE EventFails
    BY <2>1 DEF EventFails
  <2>2. CASE AckFails
    <3>1. batch' \in Seq(Event)
      BY <2>2, EmptySeq DEF AckFails
    <3>2. QED BY <2>2, <3>1 DEF AckFails
  <2>3. CASE Restart
    <3>1. batch' \in Seq(Event)
      BY <2>3, EmptySeq DEF Restart
    <3>2. /\ hpc' \in [Operator -> {"idle", "load", "save", "undedup", "announce"}]
          /\ hid' \in [Operator -> Alert \cup {NoAlert}]
          /\ hcopy' \in [Operator -> AlertRecord \cup {Absent}]
      BY <2>3 DEF Restart
    <3>3. QED BY <2>3, <3>1, <3>2 DEF Restart
  <2>4. QED BY <1>10, <2>1, <2>2, <2>3
<1>11. ASSUME NEW h \in Operator, HLoad(h)
       PROVE  TypeOK'
  <2> DEFINE rec == [alerts[hid[h]] EXCEPT !.status = NewStatus(h)]
  <2>1. rec \in AlertRecord
    BY <1>11, LoadedType DEF HLoad
  <2>2. hcopy' = [hcopy EXCEPT ![h] = rec] \/ hcopy' = [hcopy EXCEPT ![h] = Absent]
    BY <1>11 DEF HLoad
  <2> HIDE DEF rec
  <2>3. hcopy' \in [Operator -> AlertRecord \cup {Absent}]
    BY <2>1, <2>2
  <2>4. QED BY <1>11, <2>3 DEF HLoad
<1>12. ASSUME NEW h \in Operator, HSave(h)
       PROVE  TypeOK'
  BY <1>12 DEF HSave, HoldingDiscipline, ThreadDiscipline
<1>13. ASSUME NEW h \in Operator, HUndedup(h)
       PROVE  TypeOK'
  BY <1>13 DEF HUndedup
<1>14. ASSUME NEW h \in Operator, HAnnounce(h)
       PROVE  TypeOK'
  <2>1. hcopy[h] \in AlertRecord /\ hid[h] \in Alert
    BY <1>14 DEF HAnnounce, HoldingDiscipline, ThreadDiscipline
  <2> DEFINE t == IF op[h] = "resolve" THEN "resolved" ELSE "acknowledged"
  <2>2. [type |-> t, alert |-> hid[h], key |-> hcopy[h].key,
         status |-> hcopy[h].status, severity |-> hcopy[h].severity] \in Message
    BY <2>1 DEF Message, AlertRecord
  <2>3. stream' \in Seq(Message)
    BY <1>14, <2>2, AppendProperties DEF HAnnounce, Publish
  <2>4. QED BY <1>14, <2>3 DEF HAnnounce
<1>15. ASSUME NEW h \in Operator, CallFails(h)
       PROVE  TypeOK'
  BY <1>15 DEF CallFails
<1>16. ASSUME NEW h \in Operator, NEW o \in {"acknowledge", "resolve"}, NEW i \in Alert,
              Dispatch(h, o, i)
       PROVE  TypeOK'
  BY <1>16 DEF Dispatch
<1>17. QED
  BY <1>1, <1>2, <1>3, <1>4, <1>5, <1>6, <1>7, <1>8, <1>9, <1>10, <1>11, <1>12, <1>13, <1>14,
     <1>15, <1>16
  DEF Next, Process, Serve

\* An alert that is saved stays saved, and keeps its key.
LEMMA AlertsAreKept ==
  ASSUME TypeOK, HoldingDiscipline, [Next]_vars
  PROVE  \A i \in Alert : alerts[i] # Absent =>
           alerts'[i] # Absent /\ alerts'[i].key = alerts[i].key
<1> USE AbsentIsNoRecord DEF TypeOK, HoldingDiscipline
<1>1. CASE UNCHANGED alerts
  BY <1>1
<1>2. ASSUME NEW i \in Alert, Create(i)
      PROVE  \A j \in Alert : alerts[j] # Absent => alerts'[j] = alerts[j]
  BY <1>2 DEF Create
<1>3. CASE Update
  <2>1. copy'.key = alerts[held].key /\ copy' \in AlertRecord
    BY <1>3, UpdatedType DEF Update, HandDiscipline
  <2>2. alerts' = [alerts EXCEPT ![held] = copy']
    BY <1>3, UpdatedType
  <2>3. QED BY <2>1, <2>2
<1>4. ASSUME NEW h \in Operator, HSave(h)
      PROVE  \A i \in Alert : alerts[i] # Absent =>
               alerts'[i] # Absent /\ alerts'[i].key = alerts[i].key
  <2>1. hcopy[h] \in AlertRecord /\ hcopy[h].key = alerts[hid[h]].key
    BY <1>4 DEF HSave, ThreadDiscipline
  <2>2. alerts' = [alerts EXCEPT ![hid[h]] = hcopy[h]]
    BY <1>4 DEF HSave
  <2>3. QED BY <2>1, <2>2
<1>5. CASE Next /\ ~Update /\ (\A i \in Alert : ~Create(i)) /\ (\A h \in Operator : ~HSave(h))
  <2>1. UNCHANGED alerts
    BY <1>5 DEF Next, Process, Serve, Read, ReadNothing, Find, Load, Drop, List, Point, Announce,
                Ack, EventFails, AckFails, Restart, HLoad, HUndedup, HAnnounce, CallFails, Dispatch
  <2>2. QED BY <2>1, <1>1
<1>6. CASE UNCHANGED vars
  BY <1>6, <1>1 DEF vars
<1>7. QED BY <1>2, <1>3, <1>4, <1>5, <1>6

LEMMA BatchStep == TypeOK /\ BatchDiscipline /\ [Next]_vars => BatchDiscipline'
<1> SUFFICES ASSUME TypeOK, BatchDiscipline, [Next]_vars
             PROVE  BatchDiscipline'
    OBVIOUS
<1> USE DEF BatchDiscipline, Goto
<1>1. CASE UNCHANGED <<batch, cpc>>
  BY <1>1
<1>2. ASSUME NEW evs \in Batches, Read(evs)
      PROVE  BatchDiscipline'
  BY <1>2, BatchesType DEF Read
<1>3. CASE ReadNothing \/ Find \/ Load \/ Drop \/ List \/ Point \/ Update \/ Announce
  BY <1>3 DEF ReadNothing, Find, Load, Drop, List, Point, Update, Announce
<1>4. ASSUME NEW i \in Alert, Create(i)
      PROVE  BatchDiscipline'
  BY <1>4 DEF Create
<1>5. CASE Ack
  <2>1. batch \in Seq(Event) /\ batch # <<>>
    BY <1>5, HeadType DEF Ack
  <2>2. Len(batch) \in Nat /\ Len(batch) > 0 /\ Len(Tail(batch)) = Len(batch) - 1
        /\ Tail(batch) \in Seq(Event)
    BY <2>1, EmptySeq, HeadTailProperties
  <2>3. Len(batch) > 1 <=> Tail(batch) # <<>>
    <3> DEFINE rest == Tail(batch)
    <3>1. rest \in Seq(Event) /\ Len(rest) = Len(batch) - 1
      BY <2>2
    <3> HIDE DEF rest
    <3>2. rest # <<>> => Len(rest) \in Nat \ {0}
      BY <3>1, EmptySeq
    <3>3. rest = <<>> => Len(rest) = 0
      BY EmptySeq
    <3>4. QED BY <2>2, <3>1, <3>2, <3>3 DEF rest
  <2>4. CASE Len(batch) > 1
    <3>1. cpc' = "find" /\ batch' # <<>>
      BY <1>5, <2>3, <2>4 DEF Ack
    <3>2. QED BY <3>1
  <2>5. CASE ~(Len(batch) > 1)
    <3>1. cpc' = "read" /\ batch' = <<>>
      BY <1>5, <2>3, <2>5 DEF Ack
    <3>2. QED BY <3>1
  <2>6. QED BY <2>4, <2>5
<1>6. CASE EventFails \/ AckFails \/ Restart
  BY <1>6 DEF EventFails, AckFails, Restart
<1>7. ASSUME NEW h \in Operator, Serve(h) \/ CallFails(h)
      PROVE  BatchDiscipline'
  <2>1. UNCHANGED <<batch, cpc>>
    BY <1>7 DEF Serve, HLoad, HSave, HUndedup, HAnnounce, CallFails, consumer
  <2>2. QED BY <2>1, <1>1
<1>8. ASSUME NEW h \in Operator, NEW o \in {"acknowledge", "resolve"}, NEW i \in Alert,
             Dispatch(h, o, i)
      PROVE  BatchDiscipline'
  BY <1>8, <1>1 DEF Dispatch, consumer
<1>9. CASE UNCHANGED vars
  BY <1>9, <1>1 DEF vars, consumer
<1>10. QED
  BY <1>2, <1>3, <1>4, <1>5, <1>6, <1>7, <1>8, <1>9 DEF Next, Process

LEMMA DedupStep == TypeOK /\ HoldingDiscipline /\ [Next]_vars => DedupDiscipline'
<1> SUFFICES ASSUME TypeOK, HoldingDiscipline, [Next]_vars
             PROVE  DedupDiscipline'
    OBVIOUS
<1> USE DEF HoldingDiscipline, DedupDiscipline, DedupConsistent, TypeOK
<1>1. CASE UNCHANGED <<listed, dedup>>
  BY <1>1, AlertsAreKept
<1>2. CASE List
  <2>1. held \in Alert /\ alerts[held] # Absent
    BY <1>2 DEF List, HandDiscipline
  <2>2. listed' = listed \cup {held} /\ dedup' = dedup
    BY <1>2 DEF List
  <2>3. QED BY <2>1, <2>2, AlertsAreKept
<1>3. CASE Point
  <2>1. held \in listed /\ held \in Alert /\ alerts[held] # Absent /\ alerts[held].key = Head(batch).key
    BY <1>3 DEF Point, HandDiscipline
  <2>2. listed' = listed /\ dedup' = [dedup EXCEPT ![Head(batch).key] = held]
    BY <1>3 DEF Point
  <2>3. QED BY <2>1, <2>2, AlertsAreKept
<1>4. ASSUME NEW k, UNCHANGED listed, dedup' = [dedup EXCEPT ![k] = NoAlert]
      PROVE  DedupDiscipline'
  BY <1>4, AlertsAreKept
<1>5. CASE Drop
  BY <1>5, <1>4 DEF Drop
<1>6. ASSUME NEW h \in Operator, HUndedup(h)
      PROVE  DedupDiscipline'
  BY <1>6, <1>4 DEF HUndedup
<1>7. CASE ~List /\ ~Point /\ ~Drop /\ \A h \in Operator : ~HUndedup(h)
  <2>1. UNCHANGED <<listed, dedup>>
    BY <1>7
    DEF Next, Process, Serve, Read, ReadNothing, Find, Load, Create, Update, Announce, Ack,
        EventFails, AckFails, Restart, HLoad, HSave, HAnnounce, CallFails, Dispatch, vars
  <2>2. QED BY <2>1, <1>1
<1>8. QED BY <1>2, <1>3, <1>5, <1>6, <1>7

LEMMA HandStep == TypeOK /\ HoldingDiscipline /\ [Next]_vars => HandDiscipline'
<1> SUFFICES ASSUME TypeOK, HoldingDiscipline, [Next]_vars
             PROVE  HandDiscipline'
    OBVIOUS
<1> USE DEF HoldingDiscipline, HandDiscipline, Goto
<1>1. CASE UNCHANGED <<batch, cpc, held, copy, listed>>
  BY <1>1, AlertsAreKept DEF TypeOK
<1>2. ASSUME NEW evs \in Batches, Read(evs)
      PROVE  HandDiscipline'
  BY <1>2 DEF Read
<1>3. CASE ReadNothing \/ Drop \/ Ack \/ EventFails \/ AckFails \/ Restart
  BY <1>3 DEF ReadNothing, Drop, Ack, EventFails, AckFails, Restart
<1>4. CASE Find
  <2>1. CASE cpc' = "load"
    <3>1. /\ dedup[Head(batch).key] # NoAlert
          /\ held' = dedup[Head(batch).key] /\ UNCHANGED <<alerts, batch>>
      BY <1>4, <2>1 DEF Find
    <3>2. Head(batch).key \in Key
      BY <1>4, HeadType DEF Find
    <3>3. held' \in Alert /\ alerts[held'] # Absent /\ alerts[held'].key = Head(batch).key
      BY <3>1, <3>2 DEF DedupDiscipline, DedupConsistent, TypeOK
    <3>4. QED BY <2>1, <3>1, <3>3
  <2>2. CASE cpc' # "load"
    BY <1>4, <2>2 DEF Find
  <2>3. QED BY <2>1, <2>2
<1>5. CASE Load
  <2>1. held \in Alert /\ alerts[held] # Absent /\ alerts[held].key = Head(batch).key
    BY <1>5 DEF Load
  <2>2. CASE Active(held)
    BY <1>5, <2>1, <2>2 DEF Load, TypeOK
  <2>3. CASE ~Active(held)
    BY <1>5, <2>3 DEF Load
  <2>4. QED BY <2>2, <2>3
<1>6. ASSUME NEW i \in Alert, Create(i)
      PROVE  HandDiscipline'
  <2>1. copy' \in AlertRecord /\ copy'.key = Head(batch).key /\ alerts' = [alerts EXCEPT ![i] = copy']
    BY <1>6, CreatedType
  <2>2. held' = i /\ cpc' = "list" /\ batch' = batch
    BY <1>6 DEF Create
  <2>3. QED BY <2>1, <2>2, AbsentIsNoRecord DEF TypeOK
<1>7. CASE List
  BY <1>7, AlertsAreKept DEF List
<1>8. CASE Point
  <2>1. /\ cpc = "point" /\ cpc' = "created"
        /\ UNCHANGED <<alerts, batch, held, copy>>
    BY <1>8 DEF Point
  <2>2. QED BY <1>8, <2>1
<1>9. CASE Update
  <2>1. /\ cpc = "update" /\ cpc' = "updated" /\ UNCHANGED <<batch, held>>
    BY <1>9 DEF Update
  <2>2. copy' \in AlertRecord /\ copy'.key = copy.key
    BY <1>9, UpdatedType
  <2>3. QED BY <2>1, <2>2, AlertsAreKept
<1>10. CASE Announce
  BY <1>10 DEF Announce
<1>11. ASSUME NEW h \in Operator, Serve(h) \/ CallFails(h)
       PROVE  HandDiscipline'
  <2>1. UNCHANGED <<batch, cpc, held, copy, listed>>
    BY <1>11 DEF Serve, HLoad, HSave, HUndedup, HAnnounce, CallFails, consumer
  <2>2. QED BY <2>1, <1>1
<1>12. ASSUME NEW h \in Operator, NEW o \in {"acknowledge", "resolve"}, NEW i \in Alert,
              Dispatch(h, o, i)
       PROVE  HandDiscipline'
  BY <1>12, <1>1 DEF Dispatch, consumer
<1>13. CASE UNCHANGED vars
  BY <1>13, <1>1 DEF vars, consumer
<1>14. QED
  BY <1>2, <1>3, <1>4, <1>5, <1>6, <1>7, <1>8, <1>9, <1>10, <1>11, <1>12, <1>13
  DEF Next, Process

LEMMA ThreadStep == TypeOK /\ HoldingDiscipline /\ [Next]_vars => ThreadDiscipline'
<1> SUFFICES ASSUME TypeOK, HoldingDiscipline, [Next]_vars
             PROVE  ThreadDiscipline'
    OBVIOUS
<1> USE DEF HoldingDiscipline, ThreadDiscipline, handlers, HGoto, HReturn, TypeOK
<1>1. CASE UNCHANGED <<hpc, hid, hcopy>>
  BY <1>1, AlertsAreKept
<1>2. ASSUME NEW h \in Operator, HLoad(h)
      PROVE  ThreadDiscipline'
  <2> DEFINE rec == [alerts[hid[h]] EXCEPT !.status = NewStatus(h)]
  <2>1. hid[h] \in Alert /\ alerts[hid[h]] # Absent /\ rec \in AlertRecord /\ rec.key = alerts[hid[h]].key
    BY <1>2, LoadedType, AbsentIsNoRecord DEF HLoad
  <2>2. UNCHANGED alerts
    BY <1>2 DEF HLoad
  <2>3. CASE hpc'[h] = "save"
    <3>1. hcopy' = [hcopy EXCEPT ![h] = rec] /\ hid' = hid /\ hpc' = [hpc EXCEPT ![h] = "save"]
      BY <1>2, <2>3 DEF HLoad
    <3> HIDE DEF rec
    <3>2. QED BY <2>1, <2>2, <3>1
  <2>4. CASE hpc'[h] # "save"
    <3>1. HReturn(h)
      BY <1>2, <2>4 DEF HLoad
    <3>2. QED BY <2>2, <3>1
  <2>5. QED BY <2>3, <2>4
<1>3. ASSUME NEW h \in Operator, HSave(h)
      PROVE  ThreadDiscipline'
  BY <1>3, AlertsAreKept DEF HSave
<1>4. ASSUME NEW h \in Operator, HUndedup(h)
      PROVE  ThreadDiscipline'
  BY <1>4 DEF HUndedup
<1>5. ASSUME NEW h \in Operator, HAnnounce(h) \/ CallFails(h)
      PROVE  ThreadDiscipline'
  BY <1>5 DEF HAnnounce, CallFails
<1>6. ASSUME NEW h \in Operator, NEW o \in {"acknowledge", "resolve"}, NEW i \in Alert,
             Dispatch(h, o, i)
      PROVE  ThreadDiscipline'
  BY <1>6 DEF Dispatch, DedupDiscipline
<1>7. CASE Restart
  BY <1>7 DEF Restart
<1>8. ASSUME NEW evs \in Batches, Read(evs)
      PROVE  ThreadDiscipline'
  BY <1>8, <1>1 DEF Read
<1>9. CASE ReadNothing \/ Process \/ EventFails \/ AckFails
  <2>1. UNCHANGED <<hpc, hid, hcopy>>
    BY <1>9 DEF ReadNothing, Process, Find, Load, Drop, Create, List, Point, Update, Announce, Ack,
                EventFails, AckFails
  <2>2. QED BY <2>1, <1>1
<1>10. CASE UNCHANGED vars
  BY <1>10, <1>1 DEF vars
<1>11. QED
  BY <1>2, <1>3, <1>4, <1>5, <1>6, <1>7, <1>8, <1>9, <1>10 DEF Next, Serve

LEMMA HoldingInvariant == Spec => [](TypeOK /\ HoldingDiscipline)
<1>1. TypeOK /\ HoldingDiscipline /\ [Next]_vars => (TypeOK /\ HoldingDiscipline)'
  BY TypeStep, BatchStep, DedupStep, HandStep, ThreadStep DEF HoldingDiscipline
<1>2. QED BY <1>1, HoldingInit, PTL DEF Spec

\* Every variable keeps its type in every behaviour of the service.
THEOREM AlertTypeCorrect == Spec => []TypeOK
<1>1. QED BY HoldingInvariant, PTL

\* A deduplication key leads to an alert that is saved, listed and its own,
\* wherever the service stops and whatever operators do meanwhile.
THEOREM DedupIsConsistent == Spec => []DedupConsistent
<1>1. HoldingDiscipline => DedupConsistent
  BY DEF HoldingDiscipline, DedupDiscipline
<1>2. QED BY <1>1, HoldingInvariant, PTL

--------------------------------------------------------------------------------
(* Counting. *)

LEMMA UncountedType ==
  ASSUME TypeOK, NEW k \in Key
  PROVE  /\ Uncounted(k) \in Nat
         /\ cpc \in {"idle", "read"} /\ BatchDiscipline => Uncounted(k) = 0
<1>1. batch \in Seq(Event)
  BY DEF TypeOK
<1>2. batch # <<>> => Tail(batch) \in Seq(Event)
  BY <1>1, HeadTailProperties
<1>3. Arrivals(batch, k) \in Nat /\ (batch # <<>> => Arrivals(Tail(batch), k) \in Nat)
  BY <1>1, <1>2, CountedType
<1>4. QED BY <1>3 DEF Uncounted, BatchDiscipline

\* Once it is read, the work left only decreases, and it does when an event is counted.
LEMMA UncountedFalls ==
  ASSUME TypeOK, BatchDiscipline, [Next]_vars, \A evs \in Batches : ~Read(evs), NEW k \in Key
  PROVE  /\ Uncounted(k)' \in Nat /\ Uncounted(k) \in Nat /\ Uncounted(k)' <= Uncounted(k)
         /\ (Update \/ \E i \in Alert : Create(i)) /\ k = Head(batch).key =>
              Uncounted(k)' + 1 = Uncounted(k)
<1> DEFINE here == Arrivals(batch, k)
           rest == Arrivals(Tail(batch), k)
<1>1. batch \in Seq(Event)
  BY DEF TypeOK
<1>2. cpc \notin {"idle", "read"} =>
        /\ here \in Nat /\ rest \in Nat
        /\ here = IF Head(batch).key = k /\ Head(batch).severity # Benign THEN rest + 1 ELSE rest
  <2> SUFFICES ASSUME cpc \notin {"idle", "read"}
               PROVE  /\ here \in Nat /\ rest \in Nat
                      /\ here = IF Head(batch).key = k /\ Head(batch).severity # Benign
                                THEN rest + 1 ELSE rest
      OBVIOUS
  <2>1. batch # <<>>
    BY DEF BatchDiscipline
  <2>2. Tail(batch) \in Seq(Event)
    BY <1>1, <2>1, HeadTailProperties
  <2>3. QED BY <1>1, <2>1, <2>2, CountedType, ArrivalsOfTail
<1>3. Uncounted(k) \in Nat /\ (cpc \in {"idle", "read"} => Uncounted(k) = 0)
  BY UncountedType
<1> USE DEF Goto
<1>4. CASE UNCHANGED <<batch, cpc>>
  <2>1. Uncounted(k)' = Uncounted(k)
    BY <1>4 DEF Uncounted
  <2>2. ~Update /\ \A i \in Alert : ~Create(i)
    BY <1>4 DEF Update, Create
  <2>3. QED BY <1>3, <2>1, <2>2
<1>5. CASE ReadNothing
  <2>1. batch' = batch /\ batch = <<>> /\ cpc' = "idle"
    BY <1>5 DEF ReadNothing, BatchDiscipline
  <2>2. Uncounted(k)' = 0
    BY <2>1 DEF Uncounted
  <2>3. ~Update /\ \A i \in Alert : ~Create(i)
    BY <1>5 DEF ReadNothing, Update, Create
  <2>4. QED BY <1>3, <2>2, <2>3
<1>6. CASE Find \/ Load \/ Drop \/ List \/ Point \/ Announce \/ EventFails
  <2>1. batch' = batch /\ batch # <<>>
    BY <1>6 DEF Find, Load, Drop, List, Point, Announce, EventFails, BatchDiscipline
  <2>2. /\ cpc \in {"find", "load", "drop", "create", "update"} => Uncounted(k) = here
        /\ cpc \notin {"find", "load", "drop", "create", "update"} =>
              /\ Uncounted(k) = rest
              /\ cpc' \notin {"find", "load", "drop", "create", "update"}
    BY <1>6, <2>1 DEF Find, Load, Drop, List, Point, Announce, EventFails, Uncounted
  <2>3. Uncounted(k)' \in {here, rest}
        /\ (cpc' \notin {"find", "load", "drop", "create", "update"} => Uncounted(k)' = rest)
    BY <2>1 DEF Uncounted
  <2>4. ~Update /\ \A i \in Alert : ~Create(i)
    <3>1. CASE EventFails
      BY <3>1 DEF EventFails, Update, Create
    <3>2. CASE Find \/ Load \/ Drop \/ List \/ Point \/ Announce
      BY <3>2 DEF Find, Load, Drop, List, Point, Announce, Update, Create
    <3>3. QED BY <1>6, <3>1, <3>2
  <2>5. cpc \notin {"idle", "read"}
    BY <1>6 DEF Find, Load, Drop, List, Point, Announce, EventFails
  <2> HIDE DEF here, rest
  <2>6. QED BY <1>2, <2>2, <2>3, <2>4, <2>5
<1>7. ASSUME Update \/ \E i \in Alert : Create(i)
      PROVE  /\ Uncounted(k)' \in Nat /\ Uncounted(k)' <= Uncounted(k)
             /\ k = Head(batch).key => Uncounted(k)' + 1 = Uncounted(k)
  <2>1. /\ cpc \in {"create", "update"} /\ cpc' \in {"list", "updated"} /\ batch' = batch
        /\ batch # <<>> /\ Head(batch).severity # Benign
    BY <1>7 DEF Update, Create, BatchDiscipline
  <2>2. Uncounted(k) = here /\ Uncounted(k)' = rest
    BY <2>1 DEF Uncounted
  <2> HIDE DEF here, rest
  <2>3. QED BY <1>2, <2>1, <2>2
<1>8. CASE Ack
  <2>1. cpc = "ack" /\ batch # <<>> /\ batch' = Tail(batch) /\ cpc' \in {"find", "read"}
    BY <1>8 DEF Ack, BatchDiscipline
  <2>2. cpc' = "read" <=> batch' = <<>>
    BY <1>8, <2>1, BatchStep DEF BatchDiscipline, Ack, TypeOK
  <2>3. Uncounted(k) = rest
    BY <2>1 DEF Uncounted
  <2>4. Uncounted(k)' = rest \/ Uncounted(k)' = 0
    BY <2>1, <2>2 DEF Uncounted
  <2>5. ~Update /\ \A i \in Alert : ~Create(i)
    BY <2>1 DEF Update, Create
  <2> HIDE DEF here, rest
  <2>6. QED BY <1>2, <2>1, <2>3, <2>4, <2>5
<1>9. CASE AckFails \/ Restart
  <2>1. batch' = <<>> /\ cpc' = "idle"
    BY <1>9 DEF AckFails, Restart
  <2>2. Uncounted(k)' = 0
    BY <2>1 DEF Uncounted
  <2>3. ~Update /\ \A i \in Alert : ~Create(i)
    BY <2>1 DEF Update, Create
  <2>4. QED BY <1>3, <2>2, <2>3
<1>10. CASE \E h \in Operator : Serve(h) \/ CallFails(h)
  <2>1. UNCHANGED <<batch, cpc>>
    BY <1>10 DEF Serve, HLoad, HSave, HUndedup, HAnnounce, CallFails, consumer
  <2>2. QED BY <2>1, <1>4
<1>11. CASE \E h \in Operator, o \in {"acknowledge", "resolve"}, i \in Alert : Dispatch(h, o, i)
  <2>1. UNCHANGED <<batch, cpc>>
    BY <1>11 DEF Dispatch, consumer
  <2>2. QED BY <2>1, <1>4
<1>12. CASE UNCHANGED vars
  BY <1>12, <1>4 DEF vars, consumer
<1>13. QED
  BY <1>3, <1>5, <1>6, <1>7, <1>8, <1>9, <1>10, <1>11, <1>12 DEF Next, Process

\* A record counts no more than has been read of its key and dealt with.
Sound(rec) == rec.event_count + Uncounted(rec.key) <= seen[rec.key]

LEMMA CountInit == Init => CountDiscipline
BY Parameters DEF Init, CountDiscipline, Uncounted, Parameters

\* What was sound stays sound: reading raises what is left and what is seen alike.
LEMMA SoundStep ==
  ASSUME TypeOK, BatchDiscipline, [Next]_vars
  PROVE  /\ \A k \in Key : Uncounted(k) <= seen[k] => Uncounted(k)' <= seen'[k]
         /\ \A rec \in AlertRecord : Sound(rec) => Sound(rec)'
<1>1. \A rec \in AlertRecord : rec.key \in Key /\ rec.event_count \in Nat
  BY DEF AlertRecord
<1>2. CASE \E evs \in Batches : Read(evs)
  <2>1. PICK evs \in Batches : Read(evs)
    BY <1>2
  <2>2. \A k \in Key : Arrivals(evs, k) \in Nat
    BY BatchesType, CountedType
  <2>3. \A k \in Key : Uncounted(k) = 0
    BY <2>1, UncountedType DEF Read
  <2>4. cpc' = "find" /\ batch' = evs
    BY <2>1 DEF Read
  <2>5. \A k \in Key : Uncounted(k)' = Arrivals(evs, k)
    BY <2>4 DEF Uncounted
  <2>6. \A k \in Key : seen[k] \in Nat /\ seen'[k] = seen[k] + Arrivals(evs, k)
    BY <2>1 DEF Read, TypeOK
  <2>7. \A k \in Key : Uncounted(k)' <= seen'[k]
    BY <2>2, <2>5, <2>6
  <2>8. ASSUME NEW rec \in AlertRecord, Sound(rec)
        PROVE  Sound(rec)'
    <3>1. rec.event_count + 0 <= seen[rec.key]
      BY <1>1, <2>3, <2>8 DEF Sound
    <3>2. rec.event_count + Arrivals(evs, rec.key) <= seen'[rec.key]
      BY <1>1, <2>2, <2>6, <3>1
    <3>3. QED BY <1>1, <2>5, <3>2 DEF Sound
  <2>9. QED BY <2>7, <2>8
<1>3. CASE \A evs \in Batches : ~Read(evs)
  <2>1. \A k \in Key : Uncounted(k)' \in Nat /\ Uncounted(k) \in Nat /\ Uncounted(k)' <= Uncounted(k)
    BY <1>3, UncountedFalls
  <2>2. seen' = seen
    BY <1>3
    DEF Next, Process, Serve, ReadNothing, Find, Load, Drop, Create, List, Point, Update, Announce,
        Ack, EventFails, AckFails, Restart, HLoad, HSave, HUndedup, HAnnounce, CallFails, Dispatch,
        vars, consumer, Goto
  <2>3. \A k \in Key : seen[k] \in Nat
    BY DEF TypeOK
  <2>4. ASSUME NEW rec \in AlertRecord, Sound(rec)
        PROVE  Sound(rec)'
    BY <1>1, <2>1, <2>2, <2>3, <2>4 DEF Sound
  <2>5. QED BY <2>1, <2>2, <2>3, <2>4
<1>4. QED BY <1>2, <1>3

\* The hashes, the consumer's copy and the threads' copies are sound.
LEMMA CountParts ==
  CountDiscipline <=>
    /\ \A k \in Key : Uncounted(k) <= seen[k]
    /\ \A i \in Alert : alerts[i] # Absent => Sound(alerts[i])
    /\ cpc = "update" => Sound(copy)
    /\ \A h \in Operator : hpc[h] = "save" => Sound(hcopy[h])
BY DEF CountDiscipline, Sound

LEMMA CountStep == TypeOK /\ HoldingDiscipline /\ CountDiscipline /\ [Next]_vars => CountDiscipline'
<1> SUFFICES ASSUME TypeOK, HoldingDiscipline, CountDiscipline, [Next]_vars
             PROVE  CountDiscipline'
    OBVIOUS
<1>1. TypeOK'
  BY TypeStep
<1>2. \A rec \in AlertRecord : Sound(rec) => Sound(rec)'
  BY SoundStep DEF HoldingDiscipline
<1>3. /\ \A i \in Alert : alerts[i] # Absent => alerts[i] \in AlertRecord /\ Sound(alerts[i])
      /\ cpc = "update" => copy \in AlertRecord /\ Sound(copy)
      /\ \A h \in Operator : hpc[h] = "save" => hcopy[h] \in AlertRecord /\ Sound(hcopy[h])
  BY CountParts DEF HoldingDiscipline, HandDiscipline, ThreadDiscipline, TypeOK
\* What is created or updated is sound after it.
<1>4. ASSUME Update \/ \E i \in Alert : Create(i)
      PROVE  \A rec \in AlertRecord : rec = copy' => Sound(rec)'
  <2>1. \A evs \in Batches : ~Read(evs)
    BY <1>4 DEF Read, Update, Create
  <2>a. cpc \in {"create", "update"} /\ Head(batch).key \in Key /\ seen' = seen
    BY <1>4, HeadType DEF Update, Create, Goto, HoldingDiscipline
  <2>b. PICK k \in Key : k = Head(batch).key
    BY <2>a
  <2>2. cpc \in {"create", "update"} /\ seen' = seen /\ seen[k] \in Nat
    BY <2>a DEF TypeOK
  <2>3. Uncounted(k)' \in Nat /\ Uncounted(k) \in Nat /\ Uncounted(k)' + 1 = Uncounted(k)
    BY <1>4, <2>1, <2>b, UncountedFalls DEF HoldingDiscipline
  <2>4. CASE Update
    <3>1. copy \in AlertRecord /\ copy.key = k /\ Sound(copy)
      BY <1>3, <2>b, <2>4 DEF Update, HoldingDiscipline, HandDiscipline
    <3>2. copy'.key = k /\ copy'.event_count = copy.event_count + 1
      BY <2>4, <3>1, UpdatedType
    <3>3. copy.event_count \in Nat /\ copy.event_count + Uncounted(k) <= seen[k]
      BY <3>1 DEF Sound, AlertRecord
    <3>4. copy'.event_count + Uncounted(k)' <= seen'[k]
      BY <2>2, <2>3, <3>2, <3>3
    <3>5. QED BY <3>2, <3>4 DEF Sound
  <2>5. CASE \E i \in Alert : Create(i)
    <3>1. copy'.key = k /\ copy'.event_count = 1
      BY <2>b, <2>5, CreatedType DEF HoldingDiscipline
    <3>2. Uncounted(k) <= seen[k]
      BY <2>2 DEF CountDiscipline
    <3>3. 1 + Uncounted(k)' <= seen'[k]
      BY <2>2, <2>3, <3>2
    <3>4. QED BY <3>1, <3>3 DEF Sound
  <2>6. QED BY <1>4, <2>4, <2>5
<1>5. \A i \in Alert : \A rec \in AlertRecord : rec = alerts'[i] => Sound(rec)'
  <2>1. CASE Update \/ \E i \in Alert : Create(i)
    <3>1. \E i \in Alert \cup {NoAlert} : alerts' = [alerts EXCEPT ![i] = copy']
      BY <2>1, UpdatedType, CreatedType DEF HoldingDiscipline, TypeOK
    <3>2. QED BY <1>2, <1>3, <1>4, <2>1, <3>1, AbsentIsNoRecord DEF TypeOK
  <2>2. CASE \E h \in Operator : HSave(h)
    <3>1. PICK h \in Operator : HSave(h)
      BY <2>2
    <3>2. hpc[h] = "save" /\ alerts' = [alerts EXCEPT ![hid[h]] = hcopy[h]]
      BY <3>1 DEF HSave
    <3>3. QED BY <1>2, <1>3, <3>2, AbsentIsNoRecord DEF TypeOK
  <2>3. CASE ~Update /\ (\A i \in Alert : ~Create(i)) /\ (\A h \in Operator : ~HSave(h))
    <3>1. UNCHANGED alerts
      BY <2>3 DEF Next, Process, Serve, Read, ReadNothing, Find, Load, Drop, List, Point, Announce,
                  Ack, EventFails, AckFails, Restart, HLoad, HUndedup, HAnnounce, CallFails,
                  Dispatch, vars
    <3>2. QED BY <1>2, <1>3, <3>1, AbsentIsNoRecord
  <2>4. QED BY <2>1, <2>2, <2>3
<1>6. \A rec \in AlertRecord : cpc' = "update" /\ rec = copy' => Sound(rec)'
  <2>1. CASE Load
    <3>1. cpc' = "update" => copy' = alerts[held] /\ held \in Alert /\ alerts[held] # Absent
      BY <2>1 DEF Load, Goto, HoldingDiscipline, HandDiscipline
    <3>2. QED BY <1>2, <1>3, <3>1
  <2>2. CASE ~Load
    <3>1. cpc' = "update" => UNCHANGED <<cpc, copy>>
      BY <2>2 DEF Next, Process, Serve, Read, ReadNothing, Find, Drop, Create, List, Point, Update,
                  Announce, Ack, EventFails, AckFails, Restart, HLoad, HSave, HUndedup, HAnnounce,
                  CallFails, Dispatch, vars, consumer, Goto
    <3>2. QED BY <1>2, <1>3, <3>1
  <2>3. QED BY <2>1, <2>2
<1>7. \A h \in Operator : \A rec \in AlertRecord : hpc'[h] = "save" /\ rec = hcopy'[h] => Sound(rec)'
  <2> SUFFICES ASSUME NEW h \in Operator, NEW rec \in AlertRecord, hpc'[h] = "save", rec = hcopy'[h]
               PROVE  Sound(rec)'
      OBVIOUS
  <2>1. CASE HLoad(h)
    <3> DEFINE new == [alerts[hid[h]] EXCEPT !.status = NewStatus(h)]
    <3>1. /\ hid[h] \in Alert /\ alerts[hid[h]] \in AlertRecord
          /\ new.key = alerts[hid[h]].key /\ new.event_count = alerts[hid[h]].event_count
          /\ new \in AlertRecord
      BY <2>1, LoadedType DEF HLoad
    <3>2. rec = new
      BY <2>1 DEF HLoad, HGoto, HReturn, TypeOK
    <3>3. Sound(alerts[hid[h]])
      BY <1>3, <3>1, AbsentIsNoRecord
    <3> HIDE DEF new
    <3>4. Sound(rec)
      BY <3>1, <3>2, <3>3 DEF Sound
    <3>5. QED BY <1>2, <3>4
  <2>2. CASE ~HLoad(h)
    <3>1. hpc[h] = "save" /\ hcopy'[h] = hcopy[h]
      <4>1. CASE \E g \in Operator : HLoad(g)
        BY <2>2, <4>1 DEF HLoad, HGoto, HReturn, TypeOK
      <4>2. CASE \E g \in Operator : HSave(g) \/ HUndedup(g) \/ HAnnounce(g) \/ CallFails(g)
        BY <4>2 DEF HSave, HUndedup, HAnnounce, CallFails, HGoto, HReturn, TypeOK
      <4>3. CASE \E g \in Operator, o \in {"acknowledge", "resolve"}, i \in Alert : Dispatch(g, o, i)
        BY <4>3 DEF Dispatch, TypeOK
      <4>4. CASE Restart
        BY <4>4 DEF Restart
      <4>5. CASE UNCHANGED handlers
        BY <4>5 DEF handlers
      <4>6. QED
        BY <4>1, <4>2, <4>3, <4>4, <4>5
        DEF Next, Process, Serve, Read, ReadNothing, Find, Load, Drop, Create, List, Point, Update,
            Announce, Ack, EventFails, AckFails, vars
    <3>2. QED BY <1>2, <1>3, <3>1
  <2>3. QED BY <2>1, <2>2
<1>8. \A k \in Key : Uncounted(k)' <= seen'[k]
  BY SoundStep DEF HoldingDiscipline, CountDiscipline
<1>9. HandDiscipline' /\ ThreadDiscipline'
  BY HandStep, ThreadStep
<1>10. /\ \A i \in Alert : alerts'[i] # Absent => alerts'[i] \in AlertRecord
       /\ cpc' = "update" => copy' \in AlertRecord
       /\ \A h \in Operator : hpc'[h] = "save" => hcopy'[h] \in AlertRecord
  BY <1>1, <1>9 DEF TypeOK, HandDiscipline, ThreadDiscipline
<1>11. QED
  BY <1>5, <1>6, <1>7, <1>8, <1>10 DEF CountDiscipline, Sound

LEMMA CountHolds == Spec => []CountDiscipline
<1>1. QED BY CountInit, CountStep, HoldingInvariant, PTL DEF Spec

\* No event is counted twice: every alert has counted at most the events that
\* were read for its key, in any interleaving of the consumer with stale saves
\* of operators, failures and restarts.
THEOREM CountsStayHonest == Spec => []CountsAreHonest
<1>1. TypeOK /\ CountDiscipline => CountsAreHonest
  <2> SUFFICES ASSUME TypeOK, CountDiscipline, NEW i \in Alert, alerts[i] # Absent
               PROVE  alerts[i].event_count <= seen[alerts[i].key]
      BY DEF CountsAreHonest
  <2>1. /\ alerts[i].key \in Key /\ alerts[i].event_count \in Nat /\ seen[alerts[i].key] \in Nat
    BY DEF TypeOK, AlertRecord
  <2>2. Uncounted(alerts[i].key) \in Nat
    BY <2>1, UncountedType
  <2>3. alerts[i].event_count + Uncounted(alerts[i].key) <= seen[alerts[i].key]
    BY DEF CountDiscipline
  <2>4. QED BY <2>1, <2>2, <2>3
<1>2. QED BY <1>1, CountHolds, HoldingInvariant, PTL

--------------------------------------------------------------------------------
(* Announcements. *)

\* The stream only grows.
LEMMA StreamGrows ==
  ASSUME TypeOK, HoldingDiscipline, [Next]_vars
  PROVE  /\ DOMAIN stream = 1..Len(stream) /\ DOMAIN stream' = 1..Len(stream')
         /\ Len(stream) \in Nat /\ Len(stream') \in Nat /\ Len(stream) <= Len(stream')
         /\ \A n \in DOMAIN stream : stream'[n] = stream[n]
<1>1. stream \in Seq(Message) /\ stream' \in Seq(Message)
  BY TypeStep DEF TypeOK
<1>2. /\ DOMAIN stream = 1..Len(stream) /\ DOMAIN stream' = 1..Len(stream')
      /\ Len(stream) \in Nat /\ Len(stream') \in Nat
  BY <1>1, LenProperties
<1>3. CASE UNCHANGED stream
  BY <1>2, <1>3
<1>4. CASE Announce \/ \E h \in Operator : HAnnounce(h)
  <2>1. PICK msg : stream' = Append(stream, msg)
    BY <1>4 DEF Announce, HAnnounce, Publish
  <2>2. Len(stream') = Len(stream) + 1 /\ \A n \in 1..Len(stream) : stream'[n] = stream[n]
    BY <1>1, <2>1
  <2>3. QED BY <1>2, <2>2
<1>5. CASE ~Announce /\ \A h \in Operator : ~HAnnounce(h)
  <2>1. UNCHANGED stream
    BY <1>5
    DEF Next, Process, Serve, Read, ReadNothing, Find, Load, Drop, Create, List, Point, Update, Ack,
        EventFails, AckFails, Restart, HLoad, HSave, HUndedup, CallFails, Dispatch, vars
  <2>2. QED BY <2>1, <1>3
<1>6. QED BY <1>4, <1>5

\* While nothing has failed, nothing fails.
LEMMA CleanStep ==
  ASSUME TypeOK, [Next]_vars, faults' = 0
  PROVE  /\ faults = 0 /\ ~EventFails /\ ~AckFails /\ ~Restart
         /\ \A h \in Operator : ~CallFails(h)
<1>1. faults \in Nat
  BY Parameters DEF TypeOK, Parameters
<1>2. ~Fault
  BY <1>1 DEF Fault
<1>3. ~EventFails /\ ~AckFails /\ ~Restart /\ \A h \in Operator : ~CallFails(h)
  BY <1>2 DEF EventFails, AckFails, Restart, CallFails
<1>4. faults' = faults
  BY <1>3
  DEF Next, Process, Serve, Read, ReadNothing, Find, Load, Drop, Create, List, Point, Update,
      Announce, Ack, HLoad, HSave, HUndedup, HAnnounce, Dispatch, vars
<1>5. QED BY <1>3, <1>4

\* Announced, of any stream.
Says(messages, i) == \E m \in DOMAIN messages : messages[m].alert = i /\ messages[m].type = "created"

\* What is announced stays announced.
LEMMA AnnouncedStays ==
  ASSUME TypeOK, HoldingDiscipline, [Next]_vars
  PROVE  \A i : Says(stream, i) => Says(stream', i)
BY StreamGrows DEF Says

\* The message that is appended is the last one.
LEMMA Appended ==
  ASSUME TypeOK, NEW type, NEW i, NEW rec, Publish(type, i, rec)
  PROVE  LET n == Len(stream) + 1 IN
         /\ n \in DOMAIN stream' /\ stream'[n].type = type /\ stream'[n].alert = i
         /\ stream'[n].key = rec.key
         /\ \A m \in DOMAIN stream' : m = n \/ m \in DOMAIN stream
<1> DEFINE msg == [type |-> type, alert |-> i, key |-> rec.key,
                   status |-> rec.status, severity |-> rec.severity]
<1>1. stream \in Seq(Message) /\ stream' = Append(stream, msg)
  BY DEF TypeOK, Publish
<1>2. DOMAIN stream = 1..Len(stream) /\ Len(stream) \in Nat
  BY <1>1, LenProperties
<1>3. DOMAIN stream' = 1..Len(stream) + 1 /\ stream'[Len(stream) + 1] = msg
  <2> HIDE DEF msg
  <2>1. QED BY <1>1, <1>2
<1>4. msg.type = type /\ msg.alert = i /\ msg.key = rec.key
  OBVIOUS
<1> HIDE DEF msg
<1>5. QED BY <1>2, <1>3, <1>4

LEMMA AnnouncementInit == Init => AnnouncementDiscipline /\ CreatedFirst
BY DEF Init, AnnouncementDiscipline, CreatedFirst

LEMMA AnnouncementStep ==
  TypeOK /\ HoldingDiscipline /\ AnnouncementDiscipline /\ [Next]_vars => AnnouncementDiscipline'
<1> SUFFICES ASSUME TypeOK, HoldingDiscipline, AnnouncementDiscipline, [Next]_vars, faults' = 0
             PROVE  /\ \A i \in Alert :
                         alerts'[i] # Absent =>
                           Says(stream', i) \/ (held' = i /\ cpc' \in {"list", "point", "created"})
                    /\ \A h \in Operator : hpc'[h] # "idle" => Says(stream', hid'[h])
    BY DEF AnnouncementDiscipline, Announced, Says
<1>1. \A i : Says(stream, i) => Says(stream', i)
  BY AnnouncedStays
<1>2. /\ faults = 0 /\ ~EventFails /\ ~AckFails /\ ~Restart
      /\ \A h \in Operator : ~CallFails(h)
  BY CleanStep
<1>3. /\ \A i \in Alert :
           alerts[i] # Absent => Says(stream, i) \/ (held = i /\ cpc \in {"list", "point", "created"})
      /\ \A h \in Operator : hpc[h] # "idle" => Says(stream, hid[h])
  BY <1>2 DEF AnnouncementDiscipline, Announced, Says
<1> USE DEF Goto
<1>4. CASE UNCHANGED <<alerts, held, cpc, hpc, hid>>
  BY <1>1, <1>3, <1>4
<1>5. CASE (\E evs \in Batches : Read(evs)) \/ ReadNothing \/ Find \/ Load \/ Drop \/ List \/ Point \/ Ack
  <2>1. /\ UNCHANGED <<alerts, hpc, hid>>
        /\ cpc \in {"list", "point", "created"} =>
             cpc' \in {"list", "point", "created"} /\ held' = held
    BY <1>5 DEF Read, ReadNothing, Find, Load, Drop, List, Point, Ack, handlers
  <2>2. QED BY <1>1, <1>3, <2>1
<1>6. ASSUME NEW i \in Alert, Create(i)
      PROVE  /\ \A j \in Alert :
                  alerts'[j] # Absent =>
                    Says(stream', j) \/ (held' = j /\ cpc' \in {"list", "point", "created"})
             /\ \A h \in Operator : hpc'[h] # "idle" => Says(stream', hid'[h])
  <2>1. /\ cpc = "create" /\ cpc' = "list" /\ held' = i /\ UNCHANGED <<hpc, hid>>
        /\ \A j \in Alert : j # i => alerts'[j] = alerts[j]
    BY <1>6 DEF Create, handlers, TypeOK
  <2>2. QED BY <1>1, <1>3, <2>1
<1>7. CASE Update
  <2>1. /\ cpc = "update" /\ UNCHANGED <<held, hpc, hid>> /\ held \in Alert /\ alerts[held] # Absent
        /\ \A j \in Alert : j # held => alerts'[j] = alerts[j]
    BY <1>7 DEF Update, handlers, HoldingDiscipline, HandDiscipline, TypeOK
  <2>2. QED BY <1>1, <1>3, <2>1
<1>8. CASE Announce
  <2>1. cpc \in {"created", "updated"} /\ UNCHANGED <<alerts, held, hpc, hid>>
    BY <1>8 DEF Announce, handlers
  <2>2. cpc = "created" => Says(stream', held)
    <3>1. Publish(cpc, held, copy)
      BY <1>8 DEF Announce
    <3>2. QED BY <3>1, Appended DEF Says
  <2>3. QED BY <1>1, <1>3, <2>1, <2>2
<1>9. ASSUME NEW h \in Operator, Serve(h)
      PROVE  /\ \A j \in Alert :
                  alerts'[j] # Absent =>
                    Says(stream', j) \/ (held' = j /\ cpc' \in {"list", "point", "created"})
             /\ \A g \in Operator : hpc'[g] # "idle" => Says(stream', hid'[g])
  <2>1. UNCHANGED <<cpc, held>>
    BY <1>9 DEF Serve, HLoad, HSave, HUndedup, HAnnounce, consumer
  <2>2. hpc[h] # "idle" /\ hid[h] \in Alert /\ alerts[hid[h]] # Absent
    BY <1>9 DEF Serve, HLoad, HSave, HUndedup, HAnnounce, HoldingDiscipline, ThreadDiscipline
  <2>3. \A j \in Alert : j # hid[h] => alerts'[j] = alerts[j]
    BY <1>9 DEF Serve, HLoad, HSave, HUndedup, HAnnounce, TypeOK
  <2>4. \A g \in Operator : hpc'[g] # "idle" => hpc[g] # "idle" /\ hid'[g] = hid[g]
    BY <1>9, <2>2 DEF Serve, HLoad, HSave, HUndedup, HAnnounce, HGoto, HReturn, TypeOK
  <2>5. QED BY <1>1, <1>3, <2>1, <2>2, <2>3, <2>4
<1>10. ASSUME NEW h \in Operator, NEW o \in {"acknowledge", "resolve"}, NEW i \in Alert,
              Dispatch(h, o, i)
       PROVE  /\ \A j \in Alert :
                   alerts'[j] # Absent =>
                     Says(stream', j) \/ (held' = j /\ cpc' \in {"list", "point", "created"})
              /\ \A g \in Operator : hpc'[g] # "idle" => Says(stream', hid'[g])
  <2>1. cpc = "idle" /\ alerts[i] # Absent /\ UNCHANGED <<alerts, cpc, held>>
    BY <1>10 DEF Dispatch, consumer, HoldingDiscipline, DedupDiscipline
  <2>2. \A g \in Operator : hpc'[g] # "idle" => hid'[g] = i \/ (hpc[g] # "idle" /\ hid'[g] = hid[g])
    BY <1>10 DEF Dispatch, TypeOK
  <2>3. QED BY <1>1, <1>3, <2>1, <2>2
<1>11. CASE UNCHANGED vars
  BY <1>11, <1>4 DEF vars, consumer, handlers
<1>12. QED
  BY <1>2, <1>5, <1>6, <1>7, <1>8, <1>9, <1>10, <1>11 DEF Next, Process

LEMMA CreatedFirstStep ==
  TypeOK /\ HoldingDiscipline /\ AnnouncementDiscipline /\ CreatedFirst /\ [Next]_vars => CreatedFirst'
<1> SUFFICES ASSUME TypeOK, HoldingDiscipline, AnnouncementDiscipline, CreatedFirst, [Next]_vars,
                    faults' = 0, NEW n \in DOMAIN stream'
             PROVE  \E m \in 1..n : stream'[m].alert = stream'[n].alert /\ stream'[m].type = "created"
    BY DEF CreatedFirst
<1>1. faults = 0
  BY CleanStep
<1>2. /\ DOMAIN stream = 1..Len(stream) /\ DOMAIN stream' = 1..Len(stream')
      /\ Len(stream) \in Nat /\ \A m \in DOMAIN stream : stream'[m] = stream[m]
  BY StreamGrows
<1>3. CASE n \in DOMAIN stream
  <2>1. PICK m \in 1..n : stream[m].alert = stream[n].alert /\ stream[m].type = "created"
    BY <1>1, <1>3 DEF CreatedFirst
  <2>2. m \in DOMAIN stream
    BY <1>2, <1>3
  <2>3. QED BY <1>2, <1>3, <2>1, <2>2
<1>4. ASSUME NEW type, NEW i, NEW rec, Publish(type, i, rec), n \notin DOMAIN stream,
             type = "created" \/ Says(stream, i)
      PROVE  \E m \in 1..n : stream'[m].alert = stream'[n].alert /\ stream'[m].type = "created"
  <2>1. n = Len(stream) + 1 /\ stream'[n].type = type /\ stream'[n].alert = i
    BY <1>4, Appended
  <2>2. CASE type = "created"
    BY <1>2, <2>1, <2>2
  <2>3. CASE Says(stream, i)
    <3>1. PICK m \in DOMAIN stream : stream[m].alert = i /\ stream[m].type = "created"
      BY <2>3 DEF Says
    <3>2. m \in 1..n /\ stream'[m] = stream[m]
      BY <1>2, <2>1, <3>1
    <3>3. QED BY <2>1, <3>1, <3>2
  <2>4. QED BY <1>4, <2>2, <2>3
<1>5. CASE Announce /\ n \notin DOMAIN stream
  <2>1. /\ Publish(cpc, held, copy) /\ cpc \in {"created", "updated"}
        /\ held \in Alert /\ alerts[held] # Absent
    BY <1>5 DEF Announce, HoldingDiscipline, HandDiscipline
  <2>2. cpc = "created" \/ Says(stream, held)
    BY <1>1, <2>1 DEF AnnouncementDiscipline, Announced, Says
  <2>3. QED BY <1>4, <1>5, <2>1, <2>2
<1>6. CASE (\E h \in Operator : HAnnounce(h)) /\ n \notin DOMAIN stream
  <2>1. PICK h \in Operator : HAnnounce(h)
    BY <1>6
  <2>2. Says(stream, hid[h])
    BY <1>1, <2>1 DEF HAnnounce, AnnouncementDiscipline, Announced, Says
  <2>3. \E type : Publish(type, hid[h], hcopy[h])
    BY <2>1 DEF HAnnounce
  <2>4. QED BY <1>4, <1>6, <2>2, <2>3
<1>7. CASE ~Announce /\ \A h \in Operator : ~HAnnounce(h)
  <2>1. UNCHANGED stream
    BY <1>7
    DEF Next, Process, Serve, Read, ReadNothing, Find, Load, Drop, Create, List, Point, Update, Ack,
        EventFails, AckFails, Restart, HLoad, HSave, HUndedup, CallFails, Dispatch, vars
  <2>2. QED BY <2>1, <1>3
<1>8. QED BY <1>3, <1>5, <1>6, <1>7

\* Subscribers hear of an alert's creation before anything else about it, however many
\* operators call while the consumer creates it, as long as no command fails.
THEOREM CreationComesFirst == Spec => []CreatedFirst
<1>1. QED
  BY AnnouncementInit, AnnouncementStep, CreatedFirstStep, HoldingInvariant, PTL DEF Spec

--------------------------------------------------------------------------------
(* Duplicates. *)

LEMMA StatusInit == Init => StatusDiscipline
BY DEF Init, StatusDiscipline

LEMMA StatusStep == TypeOK /\ HoldingDiscipline /\ StatusDiscipline /\ [Next]_vars => StatusDiscipline'
<1> SUFFICES ASSUME TypeOK, HoldingDiscipline, StatusDiscipline, [Next]_vars
             PROVE  StatusDiscipline'
    OBVIOUS
<1> USE DEF StatusDiscipline, NewStatus
<1>1. cpc' = "update" => copy'.status # "RESOLVED"
  <2>1. CASE Load
    BY <2>1 DEF Load, Goto, Active
  <2>2. CASE ~Load
    <3>1. cpc' = "update" => UNCHANGED <<cpc, copy>>
      BY <2>2 DEF Next, Process, Serve, Read, ReadNothing, Find, Drop, Create, List, Point, Update,
                  Announce, Ack, EventFails, AckFails, Restart, HLoad, HSave, HUndedup, HAnnounce,
                  CallFails, Dispatch, vars, consumer, Goto
    <3>2. QED BY <3>1
  <2>3. QED BY <2>1, <2>2
<1> USE DEF HGoto, HReturn, TypeOK
<1>2. CASE UNCHANGED <<hpc, op, hcopy>>
  BY <1>1, <1>2
<1>3. ASSUME NEW h \in Operator, HLoad(h)
      PROVE  StatusDiscipline'
  <2>1. CASE alerts[hid[h]].status = "RESOLVED"
    BY <1>1, <1>3, <2>1 DEF HLoad
  <2>2. CASE alerts[hid[h]].status # "RESOLVED"
    <3> DEFINE new == [alerts[hid[h]] EXCEPT !.status = NewStatus(h)]
    <3>1. new.status = NewStatus(h)
      <4>1. alerts[hid[h]] \in AlertRecord
        BY <1>3, LoadedType DEF HLoad
      <4>2. QED BY <4>1 DEF AlertRecord
    <3>2. /\ hcopy' = [hcopy EXCEPT ![h] = new] /\ hpc' = [hpc EXCEPT ![h] = "save"]
          /\ op' = op
      BY <1>3, <2>2 DEF HLoad
    <3> HIDE DEF new
    <3>3. QED BY <1>1, <3>1, <3>2
  <2>3. QED BY <2>1, <2>2
<1>4. ASSUME NEW h \in Operator, HSave(h) \/ HUndedup(h) \/ HAnnounce(h) \/ CallFails(h)
      PROVE  StatusDiscipline'
  BY <1>1, <1>4 DEF HSave, HUndedup, HAnnounce, CallFails
<1>5. ASSUME NEW h \in Operator, NEW o \in {"acknowledge", "resolve"}, NEW i \in Alert,
             Dispatch(h, o, i)
      PROVE  StatusDiscipline'
  BY <1>1, <1>5 DEF Dispatch
<1>6. CASE Restart
  BY <1>1, <1>6 DEF Restart
<1>7. CASE \/ \E evs \in Batches : Read(evs)
           \/ ReadNothing \/ Process \/ EventFails \/ AckFails \/ UNCHANGED vars
  <2>1. UNCHANGED <<hpc, op, hcopy>>
    BY <1>7 DEF Read, ReadNothing, Process, Find, Load, Drop, Create, List, Point, Update, Announce,
                Ack, EventFails, AckFails, vars, handlers
  <2>2. QED BY <2>1, <1>2
<1>8. QED
  BY <1>3, <1>4, <1>5, <1>6, <1>7 DEF Next, Serve

\* Without failures, a resolution that has begun comes to its message.
LEMMA ResolvedStays ==
  ASSUME TypeOK, HoldingDiscipline, [Next]_vars, faults' = 0, NEW k, ResolvedOnce(k)
  PROVE  ResolvedOnce(k)'
<1>1. ~Restart /\ \A h \in Operator : ~CallFails(h)
  BY CleanStep
<1>2. CASE \E n \in DOMAIN stream : stream[n].type = "resolved" /\ stream[n].key = k
  BY <1>2, StreamGrows DEF ResolvedOnce
<1>3. ASSUME NEW h \in Operator,
             op[h] = "resolve", hpc[h] \in {"undedup", "announce"}, hcopy[h].key = k
      PROVE  ResolvedOnce(k)'
  <2>1. CASE HAnnounce(h)
    <3>1. Publish("resolved", hid[h], hcopy[h])
      BY <1>3, <2>1 DEF HAnnounce
    <3>2. QED BY <1>3, <3>1, Appended DEF ResolvedOnce
  <2>2. CASE ~HAnnounce(h)
    <3>1. op'[h] = op[h] /\ hpc'[h] \in {"undedup", "announce"} /\ hcopy'[h] = hcopy[h]
      <4>1. CASE HUndedup(h)
        BY <1>3, <4>1 DEF HUndedup, HGoto, TypeOK
      <4>2. CASE \E g \in Operator : g # h /\ Serve(g)
        BY <1>3, <4>2 DEF Serve, HLoad, HSave, HUndedup, HAnnounce, HGoto, HReturn, TypeOK
      <4>3. CASE \E g \in Operator, o \in {"acknowledge", "resolve"}, i \in Alert : Dispatch(g, o, i)
        BY <1>3, <4>3 DEF Dispatch, TypeOK
      <4>4. CASE UNCHANGED <<op, hpc, hcopy>>
        BY <1>3, <4>4
      <4>5. CASE HLoad(h) \/ HSave(h)
        BY <1>3, <4>5 DEF HLoad, HSave
      <4>6. QED
        BY <1>1, <2>2, <4>1, <4>2, <4>3, <4>4, <4>5
        DEF Next, Process, Serve, Read, ReadNothing, Find, Load, Drop, Create, List, Point, Update,
            Announce, Ack, EventFails, AckFails, vars, handlers
    <3>2. QED BY <1>3, <3>1 DEF ResolvedOnce
  <2>3. QED BY <2>1, <2>2
<1>4. QED BY <1>2, <1>3 DEF ResolvedOnce

LEMMA UniquenessInit == Init => UniquenessDiscipline
BY DEF Init, UniquenessDiscipline, OneAlert

\* Key k keeps its one alert until a resolution begins.
LEMMA OneAlertStep ==
  ASSUME TypeOK, HoldingDiscipline, StatusDiscipline, [Next]_vars, faults' = 0,
         NEW k \in Key, OneAlert(k), ~ResolvedOnce(k)'
  PROVE  OneAlert(k)'
<1>1. /\ ~EventFails /\ ~AckFails /\ ~Restart
      /\ \A h \in Operator : ~CallFails(h)
  BY CleanStep
<1>2. \A i \in Alert : alerts[i] # Absent =>
        /\ alerts[i] \in AlertRecord /\ alerts[i].status \in {"OPEN", "ACKNOWLEDGED", "RESOLVED"}
        /\ i # NoAlert
  BY Parameters DEF TypeOK, AlertRecord, AlertStatus, Parameters
<1> USE DEF OneAlert, Goto
<1>3. CASE UNCHANGED <<alerts, dedup, batch, cpc, held>>
  BY <1>3
<1>4. CASE (\E evs \in Batches : Read(evs)) \/ ReadNothing \/ Announce \/ Ack
  <2>1. /\ UNCHANGED <<alerts, dedup>> /\ cpc \notin {"list", "point"}
        /\ cpc' \notin {"list", "point", "drop", "create"}
    BY <1>4 DEF Read, ReadNothing, Announce, Ack
  <2>2. QED BY <2>1
<1>5. CASE Find
  <2>1. /\ UNCHANGED <<alerts, dedup, batch>> /\ cpc = "find"
        /\ cpc' \in {"ack", "create", "load"}
        /\ cpc' = "create" => dedup[Head(batch).key] = NoAlert
    BY <1>5 DEF Find
  <2>2. QED BY <1>2, <2>1
<1>6. CASE Load
  <2>1. /\ UNCHANGED <<alerts, dedup, batch>> /\ cpc = "load"
        /\ cpc' = "update" \/ (cpc' = "drop" /\ ~Active(held))
        /\ held \in Alert /\ alerts[held] # Absent /\ alerts[held].key = Head(batch).key
    BY <1>6 DEF Load, HoldingDiscipline, HandDiscipline
  <2>2. cpc' = "drop" => Head(batch).key # k
    BY <1>2, <2>1 DEF Active
  <2>3. QED BY <2>1, <2>2
<1>7. CASE Drop
  <2>1. /\ UNCHANGED <<alerts, batch>> /\ cpc = "drop" /\ cpc' = "create"
        /\ dedup' = [dedup EXCEPT ![Head(batch).key] = NoAlert]
    BY <1>7 DEF Drop
  <2>2. Head(batch).key # k
    BY <2>1
  <2>3. dedup'[k] = dedup[k]
    BY <2>1, <2>2 DEF TypeOK
  <2>4. QED BY <2>1, <2>2, <2>3
<1>8. ASSUME NEW i \in Alert, Create(i)
      PROVE  OneAlert(k)'
  <2>1. /\ copy'.key = Head(batch).key /\ copy'.status = "OPEN"
        /\ alerts' = [alerts EXCEPT ![i] = copy']
    BY <1>8, CreatedType DEF HoldingDiscipline
  <2>2. /\ cpc = "create" /\ cpc' = "list" /\ held' = i /\ UNCHANGED <<dedup, batch>>
    BY <1>8 DEF Create
  <2>3. alerts'[i] = copy' /\ \A j \in Alert : j # i => alerts'[j] = alerts[j]
    BY <2>1 DEF TypeOK
  <2>4. QED BY <2>1, <2>2, <2>3
<1>9. CASE List
  BY <1>9 DEF List
<1>10. CASE Point
  <2>1. /\ UNCHANGED <<alerts, batch>> /\ cpc = "point" /\ cpc' = "created"
        /\ dedup' = [dedup EXCEPT ![Head(batch).key] = held]
        /\ alerts[held].key = Head(batch).key
    BY <1>10 DEF Point, HoldingDiscipline, HandDiscipline
  <2>2. dedup'[k] = IF Head(batch).key = k THEN held ELSE dedup[k]
    BY <2>1 DEF TypeOK
  <2>3. QED BY <2>1, <2>2
<1>11. CASE Update
  <2>1. /\ cpc = "update" /\ cpc' = "updated" /\ UNCHANGED <<dedup, batch, held>>
        /\ copy \in AlertRecord /\ copy.key = Head(batch).key /\ copy.status # "RESOLVED"
        /\ held \in Alert /\ alerts[held] # Absent /\ alerts[held].key = Head(batch).key
    BY <1>11 DEF Update, HoldingDiscipline, HandDiscipline, StatusDiscipline
  <2>2. copy'.status = copy.status /\ copy'.key = copy.key
    <3>1. copy' = [copy EXCEPT !.severity = Head(batch).severity, !.event_count = @ + 1]
      BY <1>11 DEF Update
    <3>2. QED BY <2>1, <3>1 DEF AlertRecord
  <2>3. alerts' = [alerts EXCEPT ![held] = copy']
    BY <1>11 DEF Update
  <2>4. alerts'[held] = copy' /\ \A j \in Alert : j # held => alerts'[j] = alerts[j]
    BY <2>1, <2>3 DEF TypeOK
  <2>5. QED BY <2>1, <2>2, <2>4
<1>12. ASSUME NEW h \in Operator, HSave(h)
       PROVE  OneAlert(k)'
  <2>1. /\ hid[h] \in Alert /\ alerts[hid[h]] # Absent /\ hcopy[h].key = alerts[hid[h]].key
        /\ hcopy[h].status = NewStatus(h)
    BY <1>12 DEF HSave, HoldingDiscipline, ThreadDiscipline, StatusDiscipline
  <2>2. UNCHANGED <<dedup, batch, cpc, held, op, hcopy>>
    BY <1>12 DEF HSave, HGoto, consumer
  <2>3. alerts'[hid[h]] = hcopy[h] /\ \A j \in Alert : j # hid[h] => alerts'[j] = alerts[j]
    BY <1>12, <2>1 DEF HSave, TypeOK
  <2>4. hcopy[h].key = k => op[h] # "resolve"
    <3>1. op[h] = "resolve" => hpc'[h] = "undedup"
      BY <1>12 DEF HSave, HGoto, TypeOK
    <3>2. QED BY <2>2, <3>1 DEF ResolvedOnce
  <2>5. hcopy[h].key = k => hcopy[h].status # "RESOLVED"
    BY <2>1, <2>4 DEF NewStatus
  <2>6. QED BY <2>1, <2>2, <2>3, <2>5
<1>13. ASSUME NEW h \in Operator, HUndedup(h)
       PROVE  OneAlert(k)'
  <2>1. /\ UNCHANGED <<alerts, batch, cpc, held, op, hcopy>> /\ op[h] = "resolve"
        /\ dedup' = [dedup EXCEPT ![hcopy[h].key] = NoAlert]
    BY <1>13 DEF HUndedup, HGoto, consumer, StatusDiscipline
  <2>2. hpc'[h] = "announce"
    BY <1>13 DEF HUndedup, HGoto, TypeOK
  <2>3. hcopy[h].key # k
    BY <2>1, <2>2 DEF ResolvedOnce
  <2>4. dedup'[k] = dedup[k]
    BY <2>1, <2>3 DEF TypeOK
  <2>5. QED BY <2>1, <2>4
<1>14. ASSUME NEW h \in Operator, HLoad(h) \/ HAnnounce(h)
       PROVE  OneAlert(k)'
  BY <1>3, <1>14 DEF HLoad, HAnnounce, consumer
<1>15. ASSUME NEW h \in Operator, NEW o \in {"acknowledge", "resolve"}, NEW i \in Alert,
              Dispatch(h, o, i)
       PROVE  OneAlert(k)'
  BY <1>3, <1>15 DEF Dispatch, consumer
<1>16. CASE UNCHANGED vars
  BY <1>3, <1>16 DEF vars, consumer
<1>17. QED
  BY <1>1, <1>4, <1>5, <1>6, <1>7, <1>8, <1>9, <1>10, <1>11, <1>12, <1>13, <1>14, <1>15, <1>16
  DEF Next, Process, Serve

LEMMA UniquenessStep ==
  TypeOK /\ HoldingDiscipline /\ StatusDiscipline /\ UniquenessDiscipline /\ [Next]_vars
    => UniquenessDiscipline'
<1> SUFFICES ASSUME TypeOK, HoldingDiscipline, StatusDiscipline, UniquenessDiscipline, [Next]_vars,
                    faults' = 0, NEW k \in Key
             PROVE  ResolvedOnce(k)' \/ OneAlert(k)'
    BY DEF UniquenessDiscipline
<1>1. ResolvedOnce(k) \/ OneAlert(k)
  BY CleanStep DEF UniquenessDiscipline
<1>2. QED BY <1>1, ResolvedStays, OneAlertStep

\* Without failures a key gets a second active alert only by a resolution: however
\* repeated events, acknowledgements and their stale saves interleave.
THEOREM DuplicatesNeedResolutions == Spec => []DuplicateNeedsResolve
<1>1. TypeOK /\ HoldingDiscipline /\ UniquenessDiscipline => DuplicateNeedsResolve
  <2> SUFFICES ASSUME TypeOK, HoldingDiscipline, UniquenessDiscipline, faults = 0,
                      NEW i \in Alert, NEW j \in Alert, Active(i), Active(j), alerts[i].key = alerts[j].key,
                      ~ResolvedOnce(alerts[i].key)
               PROVE  i = j
      BY DEF DuplicateNeedsResolve
  <2>1. alerts[i].key \in Key /\ alerts[i] # Absent /\ alerts[j] # Absent
    BY DEF TypeOK, Active, AlertRecord
  <2>2. PICK k \in Key : k = alerts[i].key
    BY <2>1
  <2>3. OneAlert(k)
    BY <2>2 DEF UniquenessDiscipline
  <2>4. /\ dedup[k] = i \/ (held = i /\ cpc \in {"list", "point"})
        /\ dedup[k] = j \/ (held = j /\ cpc \in {"list", "point"})
    BY <2>1, <2>2, <2>3 DEF OneAlert
  <2>5. cpc \in {"list", "point"} => Head(batch).key = alerts[held].key
    BY DEF HoldingDiscipline, HandDiscipline
  <2>6. QED BY <2>1, <2>2, <2>3, <2>4, <2>5 DEF OneAlert
<1>2. QED
  BY <1>1, StatusInit, StatusStep, UniquenessInit, UniquenessStep, HoldingInvariant, PTL DEF Spec

--------------------------------------------------------------------------------
(* What subscribers can look up. *)

LEMMA MessageInit == Init => MessageDiscipline
BY DEF Init, MessageDiscipline

\* What is appended carries the key of an alert that is listed.
LEMMA AppendedMessage ==
  ASSUME TypeOK, HoldingDiscipline, MessageDiscipline, NEW type, NEW i \in listed, NEW rec,
         Publish(type, i, rec), rec.key = alerts[i].key, UNCHANGED <<alerts, listed>>
  PROVE  \A n \in DOMAIN stream' :
           /\ stream'[n].alert \in listed' /\ alerts'[stream'[n].alert] # Absent
           /\ stream'[n].key = alerts'[stream'[n].alert].key
<1>1. alerts[i] # Absent
  BY DEF HoldingDiscipline, DedupDiscipline
<1>2. \A n \in DOMAIN stream : n \in DOMAIN stream' /\ stream'[n] = stream[n]
  BY DEF TypeOK, Publish
<1>3. QED BY <1>1, <1>2, Appended DEF MessageDiscipline

LEMMA MessageStep ==
  TypeOK /\ HoldingDiscipline /\ MessageDiscipline /\ [Next]_vars => MessageDiscipline'
<1> SUFFICES ASSUME TypeOK, HoldingDiscipline, MessageDiscipline, [Next]_vars
             PROVE  MessageDiscipline'
    OBVIOUS
<1>1. listed \subseteq listed' /\ listed \subseteq Alert
  BY DEF Next, Process, Serve, Read, ReadNothing, Find, Load, Drop, Create, List, Point, Update,
         Announce, Ack, EventFails, AckFails, Restart, HLoad, HSave, HUndedup, HAnnounce, CallFails,
         Dispatch, vars, TypeOK
<1>2. \A n \in DOMAIN stream' :
        /\ stream'[n].alert \in listed' /\ alerts'[stream'[n].alert] # Absent
        /\ stream'[n].key = alerts'[stream'[n].alert].key
  <2>1. CASE UNCHANGED stream
    BY <1>1, <2>1, AlertsAreKept DEF MessageDiscipline
  <2>2. CASE Announce
    <3>1. held \in listed /\ copy.key = alerts[held].key
      BY <2>2 DEF Announce, MessageDiscipline, HoldingDiscipline, HandDiscipline
    <3>2. Publish(cpc, held, copy) /\ UNCHANGED <<alerts, listed>>
      BY <2>2 DEF Announce
    <3>3. QED BY <3>1, <3>2, AppendedMessage
  <2>3. ASSUME NEW h \in Operator, HAnnounce(h)
        PROVE  \A n \in DOMAIN stream' :
                 /\ stream'[n].alert \in listed' /\ alerts'[stream'[n].alert] # Absent
                 /\ stream'[n].key = alerts'[stream'[n].alert].key
    <3>1. hid[h] \in listed /\ hcopy[h].key = alerts[hid[h]].key
      BY <2>3 DEF HAnnounce, MessageDiscipline, HoldingDiscipline, ThreadDiscipline
    <3>2. PICK type : Publish(type, hid[h], hcopy[h])
      BY <2>3 DEF HAnnounce
    <3>3. UNCHANGED <<alerts, listed>>
      BY <2>3 DEF HAnnounce
    <3>4. QED BY <3>1, <3>2, <3>3, AppendedMessage
  <2>4. CASE ~Announce /\ \A h \in Operator : ~HAnnounce(h)
    <3>1. UNCHANGED stream
      BY <2>4
      DEF Next, Process, Serve, Read, ReadNothing, Find, Load, Drop, Create, List, Point, Update,
          Ack, EventFails, AckFails, Restart, HLoad, HSave, HUndedup, CallFails, Dispatch, vars
    <3>2. QED BY <3>1, <2>1
  <2>5. QED BY <2>2, <2>3, <2>4
<1>3. cpc' \in {"load", "point", "created", "update", "updated"} => held' \in listed'
  <2> USE DEF Goto
  <2>1. CASE Find
    <3>1. Head(batch).key \in Key
      BY <2>1, HeadType DEF Find, HoldingDiscipline
    <3>2. QED
      BY <1>1, <2>1, <3>1 DEF Find, HoldingDiscipline, DedupDiscipline, DedupConsistent
  <2>2. CASE List
    BY <2>2 DEF List
  <2>3. CASE Process /\ ~Find /\ ~List
    BY <1>1, <2>3 DEF Process, Load, Drop, Create, Point, Update, Announce, Ack, MessageDiscipline
  <2>4. CASE UNCHANGED <<cpc, held>>
    BY <1>1, <2>4 DEF MessageDiscipline
  <2>5. CASE ~Process /\ ~UNCHANGED <<cpc, held>>
    BY <2>5
    DEF Next, Serve, Read, ReadNothing, EventFails, AckFails, Restart, HLoad, HSave, HUndedup,
        HAnnounce, CallFails, Dispatch, vars, consumer
  <2>6. QED BY <2>1, <2>2, <2>3, <2>4, <2>5
<1>4. \A h \in Operator : hpc'[h] # "idle" => hid'[h] \in listed'
  <2> USE DEF HGoto, HReturn, handlers, TypeOK
  <2>1. CASE UNCHANGED <<hpc, hid>>
    BY <1>1, <2>1 DEF MessageDiscipline
  <2>2. ASSUME NEW h \in Operator, Serve(h) \/ CallFails(h)
        PROVE  \A g \in Operator : hpc'[g] # "idle" => hid'[g] \in listed'
    BY <1>1, <2>2 DEF Serve, HLoad, HSave, HUndedup, HAnnounce, CallFails, MessageDiscipline
  <2>3. ASSUME NEW h \in Operator, NEW o \in {"acknowledge", "resolve"}, NEW i \in Alert,
               Dispatch(h, o, i)
        PROVE  \A g \in Operator : hpc'[g] # "idle" => hid'[g] \in listed'
    BY <1>1, <2>3 DEF Dispatch, MessageDiscipline
  <2>4. CASE Restart
    BY <2>4 DEF Restart
  <2>5. CASE (\E evs \in Batches : Read(evs)) \/ ReadNothing \/ Process \/ EventFails \/ AckFails
             \/ UNCHANGED vars
    <3>1. UNCHANGED <<hpc, hid>>
      BY <2>5
      DEF Read, ReadNothing, Process, Find, Load, Drop, Create, List, Point, Update, Announce, Ack,
          EventFails, AckFails, vars
    <3>2. QED BY <3>1, <2>1
  <2>6. QED BY <2>2, <2>3, <2>4, <2>5 DEF Next
<1>5. QED BY <1>2, <1>3, <1>4 DEF MessageDiscipline

\* What the stream speaks of can be looked up, under the key it gives.
THEOREM MessagesAreAboutAlerts == Spec => []MessageDiscipline
<1>1. QED BY MessageInit, MessageStep, HoldingInvariant, PTL DEF Spec

================================================================================
