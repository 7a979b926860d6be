---------------------------- MODULE AlertManagement ----------------------------
(***************************************************************************)
(* The alert lifecycle service (control-tier/alert-management).            *)
(*                                                                         *)
(* The consumer reads AIOps events in batches and turns each into a new    *)
(* alert or an update of the active alert with the same deduplication key. *)
(* Operators acknowledge and resolve alerts through the REST API.  An      *)
(* alert is a Redis hash, saved whole; a second Redis key points from the  *)
(* deduplication key to the alert.  One action is one Redis command.       *)
(*                                                                         *)
(* The consumer runs on the event loop and blocks it: an HTTP call is      *)
(* given to a thread only while the consumer sleeps, but then runs beside  *)
(* it.  Redis survives a restart of the service.                           *)
(***************************************************************************)
EXTENDS Naturals, Sequences, FiniteSets

CONSTANTS
  Alert,      \* identifiers of alerts
  Key,        \* deduplication keys: entity|type|source
  Severity,   \* severities of alerts
  Benign,     \* the severity of an event that is filtered out
  Operator,   \* threads that serve acknowledge and resolve calls
  NoAlert,    \* no alert
  Absent,     \* the hash of an alert that was never saved
  MaxEvents,  \* bound: events per key
  MaxBatch,   \* READ_COUNT
  MaxCalls,   \* bound: acknowledge and resolve calls
  MaxFaults   \* bound: failed commands and restarts

ASSUME Parameters ==
  /\ NoAlert \notin Alert
  /\ Benign \notin Severity
  /\ MaxEvents \in Nat /\ MaxBatch \in Nat /\ MaxCalls \in Nat /\ MaxFaults \in Nat

VARIABLES
  alerts,  \* the hashes control:alerts:{id}
  listed,  \* the set control:alerts:index
  dedup,   \* the keys control:alerts:dedup:{key}
  stream,  \* stream:control.alerts, everything published
  batch,   \* events read and not acknowledged yet
  cpc,     \* the consumer's next command
  held,    \* the alert the consumer has in hand
  copy,    \* the consumer's copy of its hash
  hpc,     \* of each operator thread: its next command
  op,      \* of each operator thread: "acknowledge" or "resolve"
  hid,     \* of each operator thread: the alert it was called for
  hcopy,   \* of each operator thread: the hash it will save
  seen,    \* history: events read, by key
  calls,   \* history: calls so far
  faults   \* history: faults so far

consumer == <<batch, cpc, held, copy, seen>>
handlers == <<hpc, op, hid, hcopy, calls>>
vars == <<alerts, listed, dedup, stream, consumer, handlers, faults>>

--------------------------------------------------------------------------------
AlertStatus == {"OPEN", "ACKNOWLEDGED", "RESOLVED"}

AlertRecord == [key : Key, status : AlertStatus, severity : Severity, event_count : Nat]

ASSUME AbsentIsNoRecord == Absent \notin AlertRecord

Event == [key : Key, severity : Severity \cup {Benign}]

Message == [type : {"created", "updated", "acknowledged", "resolved"},
            alert : Alert, key : Key, status : AlertStatus, severity : Severity]

Active(i) == alerts[i] # Absent /\ alerts[i].status \in {"OPEN", "ACKNOWLEDGED"}

Init ==
  /\ alerts = [i \in Alert |-> Absent]
  /\ listed = {}
  /\ dedup = [k \in Key |-> NoAlert]
  /\ stream = <<>>
  /\ batch = <<>>
  /\ cpc = "idle"
  /\ held = NoAlert
  /\ copy = Absent
  /\ hpc = [h \in Operator |-> "idle"]
  /\ op = [h \in Operator |-> "acknowledge"]
  /\ hid = [h \in Operator |-> NoAlert]
  /\ hcopy = [h \in Operator |-> Absent]
  /\ seen = [k \in Key |-> 0]
  /\ calls = 0
  /\ faults = 0

Goto(step) == cpc' = step /\ UNCHANGED <<batch, seen>>

HGoto(h, step) == hpc' = [hpc EXCEPT ![h] = step] /\ UNCHANGED <<op, hid, calls>>

HReturn(h) ==
  /\ hpc' = [hpc EXCEPT ![h] = "idle"]
  /\ hid' = [hid EXCEPT ![h] = NoAlert]
  /\ hcopy' = [hcopy EXCEPT ![h] = Absent]
  /\ UNCHANGED <<op, calls>>

\* Mutant: a stream that is trimmed to its last message.
PublishMutant(type, i, rec) ==
  stream' = <<[type |-> type, alert |-> i, key |-> rec.key,
               status |-> rec.status, severity |-> rec.severity]>>

Publish(type, i, rec) ==
  stream' = Append(stream, [type |-> type, alert |-> i, key |-> rec.key,
                            status |-> rec.status, severity |-> rec.severity])

Fault == faults < MaxFaults /\ faults' = faults + 1

--------------------------------------------------------------------------------
(* The consumer. *)

Batches == UNION {[1..n -> Event] : n \in 1..MaxBatch}

\* Events of a batch that become alerts, by key.
Arrivals(evs, k) == Cardinality({n \in DOMAIN evs : evs[n].key = k /\ evs[n].severity # Benign})

\* XREADGROUP with ">": what is delivered is never delivered again.
Read(evs) ==
  /\ cpc \in {"idle", "read"}
  /\ seen' = [k \in Key |-> seen[k] + Arrivals(evs, k)]
  /\ \A k \in Key : seen'[k] <= MaxEvents
  /\ batch' = evs
  /\ cpc' = "find"
  /\ UNCHANGED <<alerts, listed, dedup, stream, held, copy, handlers, faults>>

\* Nothing to read: the consumer sleeps and the event loop runs.
ReadNothing ==
  /\ cpc \in {"idle", "read"}
  /\ Goto("idle")
  /\ UNCHANGED <<alerts, listed, dedup, stream, held, copy, handlers, faults>>

\* Benign events are skipped; GET control:alerts:dedup:{key} for the others.
Find ==
  /\ cpc = "find"
  /\ LET e == Head(batch) IN
     \/ /\ e.severity = Benign
        /\ Goto("ack")
        /\ UNCHANGED held
     \/ /\ e.severity # Benign /\ dedup[e.key] = NoAlert
        /\ Goto("create")
        /\ UNCHANGED held
     \/ /\ e.severity # Benign /\ dedup[e.key] # NoAlert
        /\ Goto("load")
        /\ held' = dedup[e.key]
  /\ UNCHANGED <<alerts, listed, dedup, stream, copy, handlers, faults>>

\* Mutant: only open alerts are unresolved.
LoadMutant ==
  /\ cpc = "load"
  /\ IF alerts[held] # Absent /\ alerts[held].status = "OPEN"
     THEN Goto("update") /\ copy' = alerts[held] /\ UNCHANGED held
     ELSE Goto("drop") /\ held' = NoAlert /\ UNCHANGED copy
  /\ UNCHANGED <<alerts, listed, dedup, stream, handlers, faults>>

\* Mutant: an event for a resolved alert is skipped.
LoadSkips ==
  /\ cpc = "load"
  /\ IF Active(held)
     THEN Goto("update") /\ copy' = alerts[held] /\ UNCHANGED held
     ELSE Goto("ack") /\ UNCHANGED <<held, copy>>
  /\ UNCHANGED <<alerts, listed, dedup, stream, handlers, faults>>

\* HGETALL of the alert the key points to: it is updated while it is active.
Load ==
  /\ cpc = "load"
  /\ IF Active(held)
     THEN Goto("update") /\ copy' = alerts[held] /\ UNCHANGED held
     ELSE Goto("drop") /\ held' = NoAlert /\ UNCHANGED copy
  /\ UNCHANGED <<alerts, listed, dedup, stream, handlers, faults>>

\* DEL of a key whose alert is resolved.
Drop ==
  /\ cpc = "drop"
  /\ dedup' = [dedup EXCEPT ![Head(batch).key] = NoAlert]
  /\ Goto("create")
  /\ UNCHANGED <<alerts, listed, stream, held, copy, handlers, faults>>

\* Mutant: the new alert is not added to the index.
CreateMutant(i) ==
  /\ cpc = "create"
  /\ alerts[i] = Absent
  /\ copy' = [key |-> Head(batch).key, status |-> "OPEN",
              severity |-> Head(batch).severity, event_count |-> 1]
  /\ alerts' = [alerts EXCEPT ![i] = copy']
  /\ held' = i
  /\ Goto("point")
  /\ UNCHANGED <<listed, dedup, stream, handlers, faults>>

\* HSET of a new alert under a fresh identifier.
Create(i) ==
  /\ cpc = "create"
  /\ alerts[i] = Absent
  /\ copy' = [key |-> Head(batch).key, status |-> "OPEN",
              severity |-> Head(batch).severity, event_count |-> 1]
  /\ alerts' = [alerts EXCEPT ![i] = copy']
  /\ held' = i
  /\ Goto("list")
  /\ UNCHANGED <<listed, dedup, stream, handlers, faults>>

\* SADD control:alerts:index
List ==
  /\ cpc = "list"
  /\ listed' = listed \cup {held}
  /\ Goto("point")
  /\ UNCHANGED <<alerts, dedup, stream, held, copy, handlers, faults>>

\* SET control:alerts:dedup:{key}
Point ==
  /\ cpc = "point"
  /\ dedup' = [dedup EXCEPT ![Head(batch).key] = held]
  /\ Goto("created")
  /\ UNCHANGED <<alerts, listed, stream, held, copy, handlers, faults>>

\* HSET of every field, as read and then changed; the SADD that follows finds
\* the alert listed.
Update ==
  /\ cpc = "update"
  /\ copy' = [copy EXCEPT !.severity = Head(batch).severity, !.event_count = @ + 1]
  /\ alerts' = [alerts EXCEPT ![held] = copy']
  /\ Goto("updated")
  /\ UNCHANGED <<listed, dedup, stream, held, handlers, faults>>

\* XADD stream:control.alerts
Announce ==
  /\ cpc \in {"created", "updated"}
  /\ Publish(cpc, held, copy)
  /\ Goto("ack")
  /\ UNCHANGED <<alerts, listed, dedup, held, copy, handlers, faults>>

\* XACK; the next event of the batch, or the next read.
Ack ==
  /\ cpc = "ack"
  /\ batch' = Tail(batch)
  /\ cpc' = IF Len(batch) > 1 THEN "find" ELSE "read"
  /\ held' = NoAlert
  /\ copy' = Absent
  /\ UNCHANGED <<alerts, listed, dedup, stream, seen, handlers, faults>>

\* Mutant: the event is tried again.
EventFailsMutant ==
  /\ Fault
  /\ cpc \notin {"idle", "read", "ack"}
  /\ Goto("find")
  /\ UNCHANGED <<alerts, listed, dedup, stream, held, copy, handlers>>

\* A command raises: the event is given up and acknowledged.
EventFails ==
  /\ Fault
  /\ cpc \notin {"idle", "read", "ack"}
  /\ Goto("ack")
  /\ UNCHANGED <<alerts, listed, dedup, stream, held, copy, handlers>>

\* XACK raises: the loop starts again, the rest of the batch is given up.
AckFails ==
  /\ Fault
  /\ cpc = "ack"
  /\ batch' = <<>>
  /\ cpc' = "idle"
  /\ held' = NoAlert
  /\ copy' = Absent
  /\ UNCHANGED <<alerts, listed, dedup, stream, seen, handlers>>

--------------------------------------------------------------------------------
(* POST /alerts/{id}/acknowledge and POST /alerts/{id}/resolve *)

\* Mutant: the name of the operation for the name of the status.
NewStatusMutant(h) == op[h]

\* The status the operation gives an alert.
NewStatus(h) == IF op[h] = "resolve" THEN "RESOLVED" ELSE "ACKNOWLEDGED"

\* Mutant: calls are served while the consumer works, as by a consumer that
\* awaits its Redis commands.
DispatchMutant(h, o, i) ==
  /\ hpc[h] = "idle"
  /\ i \in listed
  /\ calls < MaxCalls
  /\ calls' = calls + 1
  /\ hpc' = [hpc EXCEPT ![h] = "load"]
  /\ op' = [op EXCEPT ![h] = o]
  /\ hid' = [hid EXCEPT ![h] = i]
  /\ UNCHANGED <<alerts, listed, dedup, stream, consumer, hcopy, faults>>

\* The event loop gives a call for a listed alert to a thread.
Dispatch(h, o, i) ==
  /\ cpc = "idle"
  /\ hpc[h] = "idle"
  /\ i \in listed
  /\ calls < MaxCalls
  /\ calls' = calls + 1
  /\ hpc' = [hpc EXCEPT ![h] = "load"]
  /\ op' = [op EXCEPT ![h] = o]
  /\ hid' = [hid EXCEPT ![h] = i]
  /\ UNCHANGED <<alerts, listed, dedup, stream, consumer, hcopy, faults>>

\* HGETALL; a resolved alert is refused with 409.
HLoad(h) ==
  /\ hpc[h] = "load"
  /\ LET rec == alerts[hid[h]] IN
     \/ /\ rec.status = "RESOLVED"
        /\ HReturn(h)
     \/ /\ rec.status # "RESOLVED"
        /\ hcopy' = [hcopy EXCEPT ![h] = [rec EXCEPT !.status = NewStatus(h)]]
        /\ HGoto(h, "save")
  /\ UNCHANGED <<alerts, listed, dedup, stream, consumer, faults>>

\* HSET of every field, as read and then changed.
HSave(h) ==
  /\ hpc[h] = "save"
  /\ alerts' = [alerts EXCEPT ![hid[h]] = hcopy[h]]
  /\ HGoto(h, IF op[h] = "resolve" THEN "undedup" ELSE "announce")
  /\ UNCHANGED <<listed, dedup, stream, consumer, hcopy, faults>>

\* DEL control:alerts:dedup:{key}, whatever it points to by now.
HUndedup(h) ==
  /\ hpc[h] = "undedup"
  /\ dedup' = [dedup EXCEPT ![hcopy[h].key] = NoAlert]
  /\ HGoto(h, "announce")
  /\ UNCHANGED <<alerts, listed, stream, consumer, hcopy, faults>>

\* XADD stream:control.alerts
HAnnounce(h) ==
  /\ hpc[h] = "announce"
  /\ Publish(IF op[h] = "resolve" THEN "resolved" ELSE "acknowledged", hid[h], hcopy[h])
  /\ HReturn(h)
  /\ UNCHANGED <<alerts, listed, dedup, consumer, faults>>

\* A command of a call raises: the caller gets an error.
CallFails(h) ==
  /\ Fault
  /\ hpc[h] # "idle"
  /\ HReturn(h)
  /\ UNCHANGED <<alerts, listed, dedup, stream, consumer>>

\* The service dies and is restarted.
Restart ==
  /\ Fault
  /\ batch' = <<>>
  /\ cpc' = "idle"
  /\ held' = NoAlert
  /\ copy' = Absent
  /\ hpc' = [h \in Operator |-> "idle"]
  /\ hid' = [h \in Operator |-> NoAlert]
  /\ hcopy' = [h \in Operator |-> Absent]
  /\ UNCHANGED <<alerts, listed, dedup, stream, op, seen, calls>>

--------------------------------------------------------------------------------
\* What the consumer does with a batch it has read.
Process ==
  \/ Find \/ Load \/ Drop \/ (\E i \in Alert : Create(i)) \/ List \/ Point
  \/ Update \/ Announce \/ Ack

Serve(h) == HLoad(h) \/ HSave(h) \/ HUndedup(h) \/ HAnnounce(h)

Next ==
  \/ \E evs \in Batches : Read(evs)
  \/ ReadNothing \/ Process \/ EventFails \/ AckFails \/ Restart
  \/ \E h \in Operator :
       \/ Serve(h) \/ CallFails(h)
       \/ \E o \in {"acknowledge", "resolve"}, i \in Alert : Dispatch(h, o, i)

Spec == Init /\ [][Next]_vars

--------------------------------------------------------------------------------
(* Properties. *)

\* Every variable keeps its type.
TypeOK ==
  /\ alerts \in [Alert -> AlertRecord \cup {Absent}]
  /\ listed \subseteq Alert
  /\ dedup \in [Key -> Alert \cup {NoAlert}]
  /\ stream \in Seq(Message)
  /\ batch \in Seq(Event)
  /\ cpc \in {"idle", "read", "find", "load", "drop", "create", "list", "point",
              "created", "update", "updated", "ack"}
  /\ held \in Alert \cup {NoAlert}
  /\ copy \in AlertRecord \cup {Absent}
  /\ hpc \in [Operator -> {"idle", "load", "save", "undedup", "announce"}]
  /\ op \in [Operator -> {"acknowledge", "resolve"}]
  /\ hid \in [Operator -> Alert \cup {NoAlert}]
  /\ hcopy \in [Operator -> AlertRecord \cup {Absent}]
  /\ seen \in [Key -> Nat]
  /\ calls \in 0..MaxCalls
  /\ faults \in 0..MaxFaults

\* A deduplication key never leads astray: what it points to is saved, can be
\* listed and has that key, wherever the service stops between the commands
\* of a creation.
DedupConsistent ==
  \A k \in Key :
    dedup[k] # NoAlert =>
      dedup[k] \in listed /\ alerts[dedup[k]] # Absent /\ alerts[dedup[k]].key = k

\* At most once: no event is counted twice, whatever fails and is started
\* again, and no stale save adds to a count.
CountsAreHonest ==
  \A i \in Alert : alerts[i] # Absent => alerts[i].event_count <= seen[alerts[i].key]

\* Subscribers hear of the creation of an alert before anything else about
\* it, as long as no command fails: operators cannot overtake the consumer
\* between its HSET and its XADD, because their calls wait for the event loop.
CreatedFirst ==
  faults = 0 =>
    \A n \in DOMAIN stream :
      \E m \in 1..n : stream[m].alert = stream[n].alert /\ stream[m].type = "created"

\* A resolution of key k has taken place, or is being carried out.
ResolvedOnce(k) ==
  \/ \E n \in DOMAIN stream : stream[n].type = "resolved" /\ stream[n].key = k
  \/ \E h \in Operator :
       op[h] = "resolve" /\ hpc[h] \in {"undedup", "announce"} /\ hcopy[h].key = k

\* Without failures, only resolutions can put two active alerts on one key:
\* neither acknowledgements nor repeated events do, in any interleaving.
DuplicateNeedsResolve ==
  faults = 0 =>
    \A i, j \in Alert :
      Active(i) /\ Active(j) /\ alerts[i].key = alerts[j].key /\ i # j
        => ResolvedOnce(alerts[i].key)

\* An event is not swallowed: while the consumer handles one, there comes a
\* moment at which its key has an active alert, also when operators resolve
\* the alert it was going to update.
EventLands ==
  \A k \in Key :
    cpc = "find" /\ Head(batch).key = k /\ Head(batch).severity # Benign
      ~> \E i \in Alert : Active(i) /\ alerts[i].key = k

================================================================================
