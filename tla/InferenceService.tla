--------------------------- MODULE InferenceService ---------------------------
(***************************************************************************)
(* The inference services (congestion-detector, sla-assurance,             *)
(* slice-classifier): consumers of one shape that read a batch of the      *)
(* normalised telemetry, publish a prediction for each event and           *)
(* acknowledge it, whatever happened, in a finally block.  An operator     *)
(* pauses and resumes them by a flag that they look at every two seconds.  *)
(*                                                                         *)
(* Event i is the i-th message of stream:norm.telemetry.  What a           *)
(* prediction says, and its copies in the state hashes, Kafka and InfluxDB *)
(* are left out; messages are well formed.                                 *)
(***************************************************************************)
EXTENDS Naturals, Sequences

CONSTANTS
  Models,         \* how many models: one service for each
  MaxTelemetry,   \* bound: telemetry events
  MaxBatch,       \* READ_COUNT of the services
  Paused,         \* bound: the models whose services are paused at times
  MaxScoringFaults  \* bound: failed commands and restarts

ASSUME ServiceParameters ==
  /\ Models \in Nat \ {0} /\ MaxTelemetry \in Nat /\ MaxBatch \in Nat \ {0}
  /\ Paused \subseteq 1..Models /\ MaxScoringFaults \in Nat

Model == 1..Models

VARIABLES
  telemetry,    \* length of stream:norm.telemetry
  predictions,  \* the output stream of each service: the events its messages are about
  delivered,    \* the position of each service's consumer group
  inHand,       \* the event a service works on; one more than delivered: none
  answered,     \* it has been published, or has failed, and is to be acknowledged
  enabled,      \* the runtime flag of each service
  gate,         \* what the service has last read of it
  lost,         \* history: events that a fault kept from being scored
  scoringFaults

inferenceVars ==
  <<telemetry, predictions, delivered, inHand, answered, enabled, gate, lost, scoringFaults>>

ServiceInit ==
  /\ telemetry = 0
  /\ predictions = [m \in Model |-> << >>]
  /\ delivered = [m \in Model |-> 0]
  /\ inHand = [m \in Model |-> 1]
  /\ answered = [m \in Model |-> FALSE]
  /\ enabled = [m \in Model |-> TRUE]
  /\ gate = [m \in Model |-> TRUE]
  /\ lost = [m \in Model |-> {}]
  /\ scoringFaults = 0

ScoringFault == scoringFaults < MaxScoringFaults /\ scoringFaults' = scoringFaults + 1

Resting(m) == inHand[m] > delivered[m]

flags == <<enabled, gate>>
scored == <<telemetry, predictions, delivered, inHand, answered, lost>>

-----------------------------------------------------------------------------
\* The normalizer publishes an event.
Normalize ==
  /\ telemetry < MaxTelemetry /\ telemetry' = telemetry + 1
  /\ UNCHANGED <<predictions, delivered, inHand, answered, flags, lost, scoringFaults>>

\* An operator pauses a service, or resumes it.
SetEnabled(m) ==
  /\ m \in Paused /\ enabled' = [enabled EXCEPT ![m] = ~@]
  /\ UNCHANGED <<scored, gate, scoringFaults>>

\* Mutant: what has been switched off stays so.
is_enabledMutant(m) ==
  /\ Resting(m) /\ gate' = [gate EXCEPT ![m] = gate[m] /\ enabled[m]]
  /\ UNCHANGED <<scored, enabled, scoringFaults>>

\* Between two batches, after two seconds, the flag is read again.
is_enabled(m) ==
  /\ Resting(m) /\ gate' = [gate EXCEPT ![m] = enabled[m]]
  /\ UNCHANGED <<scored, enabled, scoringFaults>>

\* XREADGROUP with ">": all there is, up to READ_COUNT; what was delivered once is not delivered again.
read_group(m) ==
  /\ Resting(m) /\ gate[m] /\ delivered[m] < telemetry
  /\ \E n \in delivered[m] + 1 .. telemetry :
       /\ n = telemetry \/ n = delivered[m] + MaxBatch
       /\ n <= delivered[m] + MaxBatch
       /\ delivered' = [delivered EXCEPT ![m] = n]
  /\ UNCHANGED <<telemetry, predictions, inHand, answered, flags, lost, scoringFaults>>

publish(m) ==
  /\ ~Resting(m) /\ ~answered[m]
  /\ predictions' = [predictions EXCEPT ![m] = Append(@, inHand[m])]
  /\ answered' = [answered EXCEPT ![m] = TRUE]
  /\ UNCHANGED <<telemetry, delivered, inHand, flags, lost, scoringFaults>>

\* The event fails before it is published: it is acknowledged all the same.
PublishFails(m) ==
  /\ ~Resting(m) /\ ~answered[m] /\ ScoringFault
  /\ answered' = [answered EXCEPT ![m] = TRUE]
  /\ lost' = [lost EXCEPT ![m] = @ \cup {inHand[m]}]
  /\ UNCHANGED <<telemetry, predictions, delivered, inHand, flags>>

ack_message(m) ==
  /\ ~Resting(m) /\ answered[m]
  /\ inHand' = [inHand EXCEPT ![m] = @ + 1]
  /\ answered' = [answered EXCEPT ![m] = FALSE]
  /\ UNCHANGED <<telemetry, predictions, delivered, flags, lost, scoringFaults>>

\* What is in hand and behind it is dropped; the gate is read anew after a restart.
Drop(m, keep) ==
  /\ ~Resting(m) /\ ScoringFault
  /\ inHand' = [inHand EXCEPT ![m] = delivered[m] + 1]
  /\ answered' = [answered EXCEPT ![m] = FALSE]
  /\ lost' = [lost EXCEPT ![m] = @ \cup (keep .. delivered[m])]

Unscored(m) == IF answered[m] THEN inHand[m] + 1 ELSE inHand[m]

\* An acknowledgement that fails leaves the loop over the batch.
AckFails(m) ==
  /\ answered[m] /\ Drop(m, inHand[m] + 1)
  /\ UNCHANGED <<telemetry, predictions, delivered, flags>>

\* Mutant: a service that starts takes up what it had not acknowledged.
ServiceDiesMutant(m) ==
  /\ ~Resting(m) /\ ScoringFault
  /\ answered' = [answered EXCEPT ![m] = FALSE]
  /\ gate' = [gate EXCEPT ![m] = enabled[m]]
  /\ UNCHANGED <<telemetry, predictions, delivered, inHand, enabled, lost>>

\* A service dies over a batch and is started again.
ServiceDies(m) ==
  /\ Drop(m, Unscored(m))
  /\ gate' = [gate EXCEPT ![m] = enabled[m]]
  /\ UNCHANGED <<telemetry, predictions, delivered, enabled>>

Works(m) == is_enabled(m) \/ read_group(m) \/ publish(m) \/ ack_message(m)

ServiceNext ==
  \/ Normalize
  \/ \E m \in Model :
       SetEnabled(m) \/ Works(m) \/ PublishFails(m) \/ AckFails(m) \/ ServiceDies(m)

-----------------------------------------------------------------------------

ServiceTypeOK ==
  /\ telemetry \in 0..MaxTelemetry
  /\ predictions \in [Model -> Seq(1..MaxTelemetry)]
  /\ delivered \in [Model -> 0..MaxTelemetry]
  /\ inHand \in [Model -> 1 .. MaxTelemetry + 1]
  /\ answered \in [Model -> BOOLEAN]
  /\ enabled \in [Model -> BOOLEAN] /\ gate \in [Model -> BOOLEAN]
  /\ lost \in [Model -> SUBSET (1..MaxTelemetry)]
  /\ scoringFaults \in 0..MaxScoringFaults

\* Every stream of predictions is in the order of the telemetry, with no event scored
\* twice, through failed commands, failed acknowledgements and deaths over a batch.
PredictedInOrder ==
  \A m \in Model : \A i, j \in 1..Len(predictions[m]) :
    i < j => predictions[m][i] < predictions[m][j]

Scored(m, e) == \E i \in 1..Len(predictions[m]) : predictions[m][i] = e

\* A service that stays enabled from some time on comes to have scored every event but
\* those lost to a fault, also what was published while it was paused.  (The telemetry
\* of the model ends, so it catches up.)
TelemetryIsScored ==
  \A m \in Model :
    <>[]enabled[m] => []<>(\A e \in 1..telemetry : Scored(m, e) \/ e \in lost[m])

================================================================================
