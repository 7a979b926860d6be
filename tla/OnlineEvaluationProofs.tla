------------------------ MODULE OnlineEvaluationProofs ------------------------
(***************************************************************************)
(* Machine-checked proofs about InferenceService and OnlineEvaluation, for *)
(* every number of models, events and faults, and all read counts.         *)
(***************************************************************************)
EXTENDS OnlineEvaluation, SequenceTheorems, TLAPS

--------------------------------------------------------------------------------
(* The inductive invariants of InferenceService. *)

\* A service works only on what was published, and has scored nothing beyond it.
InBatch(m) ==
  /\ inHand[m] <= delivered[m] + 1 /\ delivered[m] <= telemetry
  /\ answered[m] => ~Resting(m)
  /\ \A i \in 1..Len(predictions[m]) :
       predictions[m][i] < inHand[m] \/ (predictions[m][i] = inHand[m] /\ answered[m])

BatchDiscipline == \A m \in Model : InBatch(m)

\* A service that lost nothing has scored everything up to the event in hand.
NothingSkipped ==
  \A m \in Model : lost[m] = {} =>
    /\ Len(predictions[m]) = IF answered[m] THEN inHand[m] ELSE inHand[m] - 1
    /\ \A i \in 1..Len(predictions[m]) : predictions[m][i] = i

--------------------------------------------------------------------------------
(* The inductive invariants of OnlineEvaluation. *)

\* The place up to which a stream has been handled.
Position(s) ==
  IF from[s] # Newest THEN from[s] ELSE IF loop = "read" THEN Length(s) ELSE cur[s]

\* Where the answer in hand lies, and the positions beside it.
ReadDiscipline ==
  \A s \in Stream :
    /\ from[s] # Newest => from[s] <= Length(s)
    /\ loop # "read" =>
         /\ cur[s] <= upto[s] /\ upto[s] <= Length(s) /\ from[s] \in {Newest, cur[s]}
         /\ loop = "blocked" => cur[s] = upto[s]

\* What is kept or counted has been read, and is not read again.
OnceDiscipline ==
  \A m \in Model, e \in 1..MaxTelemetry :
    /\ e \in kept[m] => samples[m][e] = 0
    /\ e \in kept[m] \/ samples[m][e] # 0 =>
         \E i \in 1..Position(m) : i <= Len(predictions[m]) /\ predictions[m][i] = e

\* Nothing is kept, or will be by the answer in hand, that the telemetry has not passed.
JoinDiscipline ==
  \A m \in Model :
    /\ lag <= MaxRead \/ lost[m] = {} =>
         /\ \A e \in kept[m] : e <= Position(0)
         /\ loop = "busy" => \A i \in 1..upto[m] : cur[m] < i => predictions[m][i] <= upto[0]
    /\ lost[m] = {} =>
         /\ from[m] # Newest => from[m] <= Position(0)
         /\ loop = "blocked" => cur[m] <= cur[0]

-----------------------------------------------------------------------------
\* The services.

LEMMA ServiceTypeInit == ServiceInit => ServiceTypeOK
BY ServiceParameters DEF ServiceParameters, ServiceInit, ServiceTypeOK

LEMMA ServiceTypeStep == ServiceTypeOK /\ ServiceNext => ServiceTypeOK'
<1> SUFFICES ASSUME ServiceTypeOK, ServiceNext PROVE ServiceTypeOK'
  OBVIOUS
<1> USE ServiceParameters DEF ServiceParameters, ServiceTypeOK, flags, scored, Resting
<1>1. CASE Normalize
  BY <1>1 DEF Normalize
<1>2. ASSUME NEW m \in Model, SetEnabled(m) PROVE ServiceTypeOK'
  BY <1>2 DEF SetEnabled
<1>3. ASSUME NEW m \in Model, is_enabled(m) PROVE ServiceTypeOK'
  BY <1>3 DEF is_enabled
<1>4. ASSUME NEW m \in Model, read_group(m) PROVE ServiceTypeOK'
  BY <1>4 DEF read_group
<1>5. ASSUME NEW m \in Model, publish(m) PROVE ServiceTypeOK'
  <2>1. inHand[m] \in 1..MaxTelemetry
    BY <1>5 DEF publish
  <2>2. Append(predictions[m], inHand[m]) \in Seq(1..MaxTelemetry)
    BY <2>1
  <2>3. predictions' \in [Model -> Seq(1..MaxTelemetry)]
    BY <1>5, <2>2 DEF publish
  <2>4. QED
    BY <1>5, <2>3 DEF publish
<1>6. ASSUME NEW m \in Model, PublishFails(m) PROVE ServiceTypeOK'
  <2>1. inHand[m] \in 1..MaxTelemetry
    BY <1>6 DEF PublishFails
  <2>2. QED
    BY <1>6, <2>1 DEF PublishFails, ScoringFault
<1>7. ASSUME NEW m \in Model, ack_message(m) PROVE ServiceTypeOK'
  BY <1>7 DEF ack_message
<1>8. ASSUME NEW m \in Model, NEW keep \in Nat \ {0}, Drop(m, keep)
      PROVE  /\ inHand' \in [Model -> 1 .. MaxTelemetry + 1]
             /\ answered' \in [Model -> BOOLEAN]
             /\ lost' \in [Model -> SUBSET (1..MaxTelemetry)]
             /\ scoringFaults' \in 0..MaxScoringFaults
  <2>1. keep .. delivered[m] \subseteq 1..MaxTelemetry /\ delivered[m] + 1 \in 1 .. MaxTelemetry + 1
    OBVIOUS
  <2>2. QED
    BY <1>8, <2>1 DEF Drop, ScoringFault
<1>9. ASSUME NEW m \in Model, AckFails(m) PROVE ServiceTypeOK'
  <2>1. inHand[m] + 1 \in Nat \ {0}
    OBVIOUS
  <2>2. QED
    BY <1>8, <1>9, <2>1 DEF AckFails
<1>10. ASSUME NEW m \in Model, ServiceDies(m) PROVE ServiceTypeOK'
  <2>1. Unscored(m) \in Nat \ {0}
    BY DEF Unscored
  <2>2. gate' \in [Model -> BOOLEAN]
    BY <1>10 DEF ServiceDies
  <2>3. QED
    BY <1>8, <1>10, <2>1, <2>2 DEF ServiceDies
<1>11. QED
  BY <1>1, <1>2, <1>3, <1>4, <1>5, <1>6, <1>7, <1>9, <1>10 DEF ServiceNext, Works

\* What one service does is no matter for another.
LEMMA OneServiceMoves ==
  ASSUME ServiceTypeOK, ServiceNext
  PROVE  \/ telemetry' = telemetry + 1 /\ UNCHANGED <<predictions, delivered, inHand, answered, lost>>
         \/ /\ telemetry' = telemetry
            /\ \E m \in Model : \A n \in Model \ {m} :
                 /\ predictions'[n] = predictions[n] /\ delivered'[n] = delivered[n]
                 /\ inHand'[n] = inHand[n] /\ answered'[n] = answered[n] /\ lost'[n] = lost[n]
<1> USE DEF ServiceTypeOK, flags, scored
<1>1. CASE Normalize
  BY <1>1 DEF Normalize
<1>2. ASSUME NEW m \in Model,
             SetEnabled(m) \/ Works(m) \/ PublishFails(m) \/ AckFails(m) \/ ServiceDies(m)
      PROVE  /\ telemetry' = telemetry
             /\ \A n \in Model \ {m} :
                  /\ predictions'[n] = predictions[n] /\ delivered'[n] = delivered[n]
                  /\ inHand'[n] = inHand[n] /\ answered'[n] = answered[n] /\ lost'[n] = lost[n]
  BY <1>2 DEF SetEnabled, Works, is_enabled, read_group, publish, ack_message, PublishFails,
              AckFails, ServiceDies, Drop
<1>3. QED
  BY <1>1, <1>2 DEF ServiceNext

\* What a publication leaves in a stream.
LEMMA Published ==
  ASSUME NEW s \in Seq(1..MaxTelemetry), NEW e \in 1..MaxTelemetry
  PROVE  /\ Len(Append(s, e)) = Len(s) + 1 /\ Append(s, e)[Len(s) + 1] = e
         /\ \A i \in 1..Len(s) : Append(s, e)[i] = s[i]
OBVIOUS

\* A step of a service leaves its stream alone or publishes the event in hand.
LEMMA StreamsGrow ==
  ASSUME ServiceTypeOK, ServiceNext
  PROVE  \A m \in Model :
           \/ predictions'[m] = predictions[m]
           \/ /\ ~Resting(m) /\ ~answered[m] /\ inHand[m] \in 1..MaxTelemetry
              /\ predictions'[m] = Append(predictions[m], inHand[m])
              /\ answered'[m] /\ inHand'[m] = inHand[m] /\ delivered'[m] = delivered[m]
              /\ lost'[m] = lost[m] /\ telemetry' = telemetry
<1> USE DEF ServiceTypeOK, flags, scored
<1>1. CASE Normalize
  BY <1>1 DEF Normalize
<1>2. ASSUME NEW m \in Model, publish(m)
      PROVE  /\ ~Resting(m) /\ ~answered[m] /\ inHand[m] \in 1..MaxTelemetry
             /\ predictions'[m] = Append(predictions[m], inHand[m])
             /\ answered'[m] /\ inHand'[m] = inHand[m] /\ delivered'[m] = delivered[m]
             /\ lost'[m] = lost[m] /\ telemetry' = telemetry
             /\ \A n \in Model \ {m} : predictions'[n] = predictions[n]
  BY <1>2, ServiceParameters DEF publish, Resting, ServiceParameters
<1>3. ASSUME NEW m \in Model,
             \/ SetEnabled(m) \/ is_enabled(m) \/ read_group(m) \/ ack_message(m)
             \/ PublishFails(m) \/ AckFails(m) \/ ServiceDies(m)
      PROVE  predictions' = predictions
  BY <1>3 DEF SetEnabled, is_enabled, read_group, ack_message, PublishFails, AckFails,
              ServiceDies, Drop
<1>4. QED
  BY <1>1, <1>2, <1>3 DEF ServiceNext, Works

LEMMA BatchInit == ServiceInit => BatchDiscipline
BY DEF ServiceInit, BatchDiscipline, InBatch, Resting

LEMMA Element == ASSUME NEW S, NEW s \in Seq(S), NEW i \in 1..Len(s) PROVE s[i] \in S
OBVIOUS

\* The event in hand is the last that can have been scored.
LEMMA InHandIsLast ==
  ASSUME ServiceTypeOK, NEW n \in Model, InBatch(n)
  PROVE  /\ \A i \in 1..Len(predictions[n]) : predictions[n][i] \in 1..MaxTelemetry
         /\ \A i \in 1..Len(predictions[n]) : predictions[n][i] <= inHand[n]
         /\ \A i \in 1..Len(predictions[n]) : predictions[n][i] < inHand[n] + 1
         /\ inHand[n] <= delivered[n] =>
              \A i \in 1..Len(predictions[n]) : predictions[n][i] < delivered[n] + 1
<1>1. predictions[n] \in Seq(1..MaxTelemetry) /\ inHand[n] \in Nat /\ delivered[n] \in Nat
  BY ServiceParameters DEF ServiceTypeOK, ServiceParameters
<1>2. MaxTelemetry \in Nat
  BY ServiceParameters DEF ServiceParameters
<1>3. ASSUME NEW i \in 1..Len(predictions[n])
      PROVE  /\ predictions[n][i] \in 1..MaxTelemetry /\ predictions[n][i] \in Nat
             /\ predictions[n][i] <= inHand[n]
  <2>1. predictions[n][i] \in 1..MaxTelemetry
    BY <1>1, Element
  <2>2. predictions[n][i] < inHand[n] \/ predictions[n][i] = inHand[n]
    BY DEF InBatch
  <2>3. QED
    BY <1>1, <1>2, <2>1, <2>2
<1>4. QED
  BY <1>1, <1>3

LEMMA BatchStep == ServiceTypeOK /\ BatchDiscipline /\ ServiceNext => BatchDiscipline'
<1> SUFFICES ASSUME ServiceTypeOK, BatchDiscipline, ServiceNext, NEW n \in Model
             PROVE  InBatch(n)'
  BY DEF BatchDiscipline
<1>1. /\ InBatch(n)
      /\ \A i \in 1..Len(predictions[n]) : predictions[n][i] \in 1..MaxTelemetry
      /\ \A i \in 1..Len(predictions[n]) : predictions[n][i] <= inHand[n]
      /\ \A i \in 1..Len(predictions[n]) : predictions[n][i] < inHand[n] + 1
      /\ inHand[n] <= delivered[n] =>
           \A i \in 1..Len(predictions[n]) : predictions[n][i] < delivered[n] + 1
  <2>1. InBatch(n)
    BY DEF BatchDiscipline
  <2>2. QED
    BY <2>1, InHandIsLast
<1>a. ASSUME predictions'[n] = predictions[n], delivered'[n] = delivered[n],
             inHand'[n] = inHand[n], answered'[n] = answered[n], telemetry' = telemetry
      PROVE  InBatch(n)'
  BY <1>1, <1>a DEF InBatch, Resting
<1>b. /\ inHand[n] \in Nat /\ delivered[n] \in Nat /\ telemetry \in Nat
      /\ inHand[n] <= delivered[n] + 1 /\ delivered[n] <= telemetry
  BY <1>1, ServiceParameters DEF ServiceTypeOK, ServiceParameters, InBatch
<1>2. CASE Normalize
  BY <1>1, <1>b, <1>2 DEF Normalize, InBatch, Resting
<1>3. ASSUME NEW m \in Model, is_enabled(m) \/ SetEnabled(m) PROVE InBatch(n)'
  BY <1>a, <1>3 DEF is_enabled, SetEnabled, scored
<1>4. ASSUME NEW m \in Model, read_group(m) PROVE InBatch(n)'
  <2>1. UNCHANGED <<telemetry, predictions, inHand, answered>>
    BY <1>4 DEF read_group
  <2>2. CASE m # n
    <3>1. delivered'[n] = delivered[n]
      BY <1>4, <2>2 DEF read_group, ServiceTypeOK
    <3>2. QED
      BY <1>a, <2>1, <3>1
  <2>3. CASE m = n
    <3>1. delivered'[n] \in delivered[n] + 1 .. telemetry /\ Resting(n)
      BY <1>4, <2>3 DEF read_group, ServiceTypeOK
    <3>2. ~answered[n]
      BY <1>1, <3>1 DEF InBatch
    <3>3. inHand'[n] <= delivered'[n] + 1 /\ delivered'[n] <= telemetry'
      BY <1>b, <2>1, <3>1
    <3>4. QED
      BY <1>1, <2>1, <3>2, <3>3 DEF InBatch
  <2>4. QED
    BY <2>2, <2>3
<1>5. ASSUME NEW m \in Model, publish(m) PROVE InBatch(n)'
  <2>1. CASE m # n
    <3>1. /\ predictions'[n] = predictions[n] /\ answered'[n] = answered[n]
          /\ UNCHANGED <<telemetry, delivered, inHand>>
      BY <1>5, <2>1 DEF publish, ServiceTypeOK
    <3>2. QED
      BY <1>a, <3>1
  <2>2. CASE m = n
    <3>1. inHand[n] \in 1..MaxTelemetry
      BY <1>5, <2>2, ServiceParameters DEF publish, ServiceTypeOK, ServiceParameters, Resting
    <3>2. /\ predictions'[n] = Append(predictions[n], inHand[n])
          /\ answered'[n] /\ ~Resting(n)
          /\ UNCHANGED <<telemetry, delivered, inHand>>
      BY <1>5, <2>2 DEF publish, ServiceTypeOK
    <3>3. predictions[n] \in Seq(1..MaxTelemetry) /\ Len(predictions[n]) \in Nat
      BY DEF ServiceTypeOK
    <3>4. /\ Len(predictions'[n]) = Len(predictions[n]) + 1
          /\ predictions'[n][Len(predictions[n]) + 1] = inHand[n]
          /\ \A i \in 1..Len(predictions[n]) : predictions'[n][i] = predictions[n][i]
      BY <3>1, <3>2, <3>3, Published
    <3>5. \A i \in 1..Len(predictions'[n]) :
            i \in 1..Len(predictions[n]) \/ i = Len(predictions[n]) + 1
      BY <3>3, <3>4
    <3>6. \A i \in 1..Len(predictions'[n]) :
            predictions'[n][i] = inHand[n] \/ predictions'[n][i] < inHand[n]
      BY <1>1, <3>4, <3>5 DEF InBatch
    <3>7. QED
      BY <1>b, <3>2, <3>6 DEF InBatch, Resting
  <2>3. QED
    BY <2>1, <2>2
<1>6. ASSUME NEW m \in Model, PublishFails(m) PROVE InBatch(n)'
  <2>1. CASE m # n
    <3>1. /\ answered'[n] = answered[n]
          /\ UNCHANGED <<telemetry, predictions, delivered, inHand>>
      BY <1>6, <2>1 DEF PublishFails, ServiceTypeOK
    <3>2. QED
      BY <1>a, <3>1
  <2>2. CASE m = n
    BY <1>1, <1>6, <2>2 DEF PublishFails, InBatch, Resting, ServiceTypeOK
  <2>3. QED
    BY <2>1, <2>2
<1>7. ASSUME NEW m \in Model, ack_message(m) PROVE InBatch(n)'
  <2>1. CASE m # n
    <3>1. /\ inHand'[n] = inHand[n] /\ answered'[n] = answered[n]
          /\ UNCHANGED <<telemetry, predictions, delivered>>
      BY <1>7, <2>1 DEF ack_message, ServiceTypeOK
    <3>2. QED
      BY <1>a, <3>1
  <2>2. CASE m = n
    <3>1. /\ ~Resting(n) /\ inHand'[n] = inHand[n] + 1 /\ ~answered'[n]
          /\ UNCHANGED <<telemetry, predictions, delivered>>
      BY <1>7, <2>2 DEF ack_message, ServiceTypeOK
    <3>2. inHand[n] + 1 <= delivered[n] + 1
      BY <1>b, <3>1 DEF Resting
    <3>3. QED
      BY <1>1, <1>b, <3>1, <3>2 DEF InBatch
  <2>3. QED
    BY <2>1, <2>2
<1>8. ASSUME NEW m \in Model, AckFails(m) \/ ServiceDies(m) PROVE InBatch(n)'
  <2>1. UNCHANGED <<telemetry, predictions, delivered>> /\ ~Resting(m)
    BY <1>8 DEF AckFails, ServiceDies, Drop
  <2>2. /\ inHand' = [inHand EXCEPT ![m] = delivered[m] + 1]
        /\ answered' = [answered EXCEPT ![m] = FALSE]
    BY <1>8 DEF AckFails, ServiceDies, Drop
  <2>3. CASE m # n
    <3>1. inHand'[n] = inHand[n] /\ answered'[n] = answered[n]
      BY <2>2, <2>3 DEF ServiceTypeOK
    <3>2. QED
      BY <1>a, <2>1, <3>1
  <2>4. CASE m = n
    <3>1. inHand'[n] = delivered[n] + 1 /\ ~answered'[n] /\ ~Resting(n)
      BY <2>1, <2>2, <2>4 DEF ServiceTypeOK
    <3>2. inHand[n] <= delivered[n]
      BY <1>b, <3>1 DEF Resting
    <3>3. QED
      BY <1>1, <1>b, <2>1, <3>1, <3>2 DEF InBatch
  <2>5. QED
    BY <2>3, <2>4
<1>9. QED
  BY <1>2, <1>3, <1>4, <1>5, <1>6, <1>7, <1>8 DEF ServiceNext, Works

LEMMA OrderStep ==
  ASSUME ServiceTypeOK, BatchDiscipline, PredictedInOrder, ServiceNext
  PROVE  PredictedInOrder'
<1> SUFFICES ASSUME NEW m \in Model
             PROVE  \A i, j \in 1..Len(predictions'[m]) :
                      i < j => predictions'[m][i] < predictions'[m][j]
  BY DEF PredictedInOrder
<1>1. CASE predictions'[m] = predictions[m]
  BY <1>1 DEF PredictedInOrder
<1>2. CASE ~answered[m] /\ inHand[m] \in 1..MaxTelemetry
           /\ predictions'[m] = Append(predictions[m], inHand[m])
  <2>1. \A i \in 1..Len(predictions[m]) : predictions[m][i] < inHand[m]
    BY <1>2 DEF BatchDiscipline, InBatch
  <2>2. predictions[m] \in Seq(1..MaxTelemetry)
    BY DEF ServiceTypeOK
  <2>3. QED
    BY <1>2, <2>1, <2>2, Published DEF PredictedInOrder
<1>3. QED
  BY <1>1, <1>2, StreamsGrow

LEMMA SkipInit == ServiceInit => NothingSkipped
BY DEF ServiceInit, NothingSkipped

LEMMA SkipStep ==
  ASSUME ServiceTypeOK, BatchDiscipline, NothingSkipped, ServiceNext
  PROVE  NothingSkipped'
<1> SUFFICES ASSUME NEW n \in Model, lost'[n] = {}
             PROVE  /\ Len(predictions'[n]) = IF answered'[n] THEN inHand'[n] ELSE inHand'[n] - 1
                    /\ \A i \in 1..Len(predictions'[n]) : predictions'[n][i] = i
  BY DEF NothingSkipped
<1> USE ServiceParameters DEF ServiceParameters, ServiceTypeOK, flags, scored, Resting
<1> DEFINE Whole ==
      /\ Len(predictions'[n]) = IF answered'[n] THEN inHand'[n] ELSE inHand'[n] - 1
      /\ \A i \in 1..Len(predictions'[n]) : predictions'[n][i] = i
<1>1. lost[n] = {} =>
        /\ Len(predictions[n]) = IF answered[n] THEN inHand[n] ELSE inHand[n] - 1
        /\ \A i \in 1..Len(predictions[n]) : predictions[n][i] = i
  BY DEF NothingSkipped
<1>2. CASE Normalize
  BY <1>1, <1>2 DEF Normalize
<1>3. ASSUME NEW m \in Model, is_enabled(m) \/ SetEnabled(m) PROVE Whole
  BY <1>1, <1>3 DEF is_enabled, SetEnabled
<1>4. ASSUME NEW m \in Model, read_group(m) PROVE Whole
  BY <1>1, <1>4 DEF read_group
<1>5. ASSUME NEW m \in Model, publish(m) PROVE Whole
  <2>1. CASE m # n
    BY <1>1, <1>5, <2>1 DEF publish
  <2>2. CASE m = n
    <3>1. inHand[n] \in 1..MaxTelemetry
      BY <1>5, <2>2 DEF publish
    <3>2. /\ predictions'[n] = Append(predictions[n], inHand[n]) /\ answered'[n] /\ ~answered[n]
          /\ inHand'[n] = inHand[n] /\ lost[n] = {}
      BY <1>5, <2>2 DEF publish
    <3>3. QED
      BY <1>1, <3>1, <3>2, Published
  <2>3. QED
    BY <2>1, <2>2
<1>6. ASSUME NEW m \in Model, PublishFails(m) PROVE Whole
  BY <1>1, <1>6 DEF PublishFails
<1>7. ASSUME NEW m \in Model, ack_message(m) PROVE Whole
  BY <1>1, <1>7 DEF ack_message
<1>8. ASSUME NEW m \in Model, AckFails(m) PROVE Whole
  <2>1. CASE m # n
    BY <1>1, <1>8, <2>1 DEF AckFails, Drop
  <2>2. CASE m = n
    <3>1. /\ answered[n] /\ inHand[n] <= delivered[n] /\ lost[n] = {}
          /\ (inHand[n] + 1) .. delivered[n] = {}
      BY <1>8, <2>2 DEF AckFails, Drop
    <3>2. delivered[n] \notin (inHand[n] + 1) .. delivered[n]
      BY <3>1
    <3>3. inHand[n] = delivered[n]
      BY <3>1, <3>2
    <3>4. /\ inHand'[n] = inHand[n] + 1 /\ ~answered'[n] /\ predictions' = predictions
      BY <1>8, <2>2, <3>3 DEF AckFails, Drop
    <3>5. QED
      BY <1>1, <3>1, <3>4
  <2>3. QED
    BY <2>1, <2>2
<1>9. ASSUME NEW m \in Model, ServiceDies(m) PROVE Whole
  <2>1. CASE m # n
    BY <1>1, <1>9, <2>1 DEF ServiceDies, Drop
  <2>2. CASE m = n
    <3>1. inHand[n] <= delivered[n] /\ lost[n] = {} /\ Unscored(n) .. delivered[n] = {}
      BY <1>9, <2>2 DEF ServiceDies, Drop
    <3>2. delivered[n] \notin Unscored(n) .. delivered[n] /\ Unscored(n) \in Nat
      BY <3>1 DEF Unscored
    <3>3. inHand[n] = delivered[n] /\ answered[n]
      BY <3>1, <3>2 DEF Unscored
    <3>4. /\ inHand'[n] = inHand[n] + 1 /\ ~answered'[n] /\ predictions' = predictions
      BY <1>9, <2>2, <3>3 DEF ServiceDies, Drop
    <3>5. QED
      BY <1>1, <3>1, <3>3, <3>4
  <2>3. QED
    BY <2>1, <2>2
<1>10. QED
  BY <1>2, <1>3, <1>4, <1>5, <1>6, <1>7, <1>8, <1>9 DEF ServiceNext, Works

\* All that holds of the services.
ServicesSound == ServiceTypeOK /\ BatchDiscipline /\ PredictedInOrder /\ NothingSkipped

LEMMA ServicesInit == ServiceInit => ServicesSound
<1>1. ServiceInit => PredictedInOrder
  BY DEF ServiceInit, PredictedInOrder
<1>2. QED
  BY <1>1, ServiceTypeInit, BatchInit, SkipInit DEF ServicesSound

LEMMA ServicesStep == ServicesSound /\ ServiceNext => ServicesSound'
BY ServiceTypeStep, BatchStep, OrderStep, SkipStep DEF ServicesSound

LEMMA ServicesRest ==
  ASSUME ServicesSound, UNCHANGED <<scored, flags>>, scoringFaults' \in 0..MaxScoringFaults
  PROVE  ServicesSound'
BY DEF ServicesSound, ServiceTypeOK, BatchDiscipline, InBatch, Resting, PredictedInOrder,
       NothingSkipped, scored, flags

\* What is scored has been published.
LEMMA ScoredIsPublished ==
  ASSUME ServicesSound, NEW m \in Model
  PROVE  /\ Len(predictions[m]) \in Nat
         /\ \A i \in 1..Len(predictions[m]) :
              predictions[m][i] \in 1..MaxTelemetry /\ predictions[m][i] <= telemetry
         /\ lost[m] = {} =>
              /\ Len(predictions[m]) <= telemetry
              /\ \A i \in 1..Len(predictions[m]) : predictions[m][i] = i
<1> USE ServiceParameters DEF ServiceParameters, ServicesSound, ServiceTypeOK
<1>1. predictions[m] \in Seq(1..MaxTelemetry) /\ Len(predictions[m]) \in Nat
  OBVIOUS
<1>2. /\ inHand[m] <= telemetry + 1
      /\ answered[m] => inHand[m] <= telemetry
      /\ \A i \in 1..Len(predictions[m]) :
           predictions[m][i] < inHand[m] \/ (predictions[m][i] = inHand[m] /\ answered[m])
  BY DEF BatchDiscipline, InBatch, Resting
<1>3. \A i \in 1..Len(predictions[m]) :
        predictions[m][i] \in 1..MaxTelemetry /\ predictions[m][i] <= telemetry
  BY <1>1, <1>2
<1>4. lost[m] = {} =>
        /\ Len(predictions[m]) <= telemetry
        /\ \A i \in 1..Len(predictions[m]) : predictions[m][i] = i
  <2>1. lost[m] = {} =>
          /\ Len(predictions[m]) = IF answered[m] THEN inHand[m] ELSE inHand[m] - 1
          /\ \A i \in 1..Len(predictions[m]) : predictions[m][i] = i
    BY DEF NothingSkipped
  <2>2. inHand[m] \in Nat /\ telemetry \in Nat
    OBVIOUS
  <2>3. QED
    BY <1>1, <1>2, <2>1, <2>2
<1>5. QED
  BY <1>1, <1>3, <1>4

-----------------------------------------------------------------------------
\* The streams as the evaluator sees them.

LEMMA Streams == /\ 0 \in Stream /\ Model \subseteq Stream /\ 0 \notin Model
                 /\ \A m \in Model : m \in Nat /\ 0 < m
BY ServiceParameters DEF ServiceParameters, Stream, Model

LEMMA LengthType == ASSUME ServiceTypeOK, NEW s \in Stream PROVE Length(s) \in Nat
<1>1. ASSUME NEW m \in Model PROVE Len(predictions[m]) \in Nat
  BY DEF ServiceTypeOK
<1>2. QED
  BY <1>1, ServiceParameters DEF ServiceParameters, ServiceTypeOK, Stream, Length

LEMMA LengthTypeNext == ASSUME ServiceTypeOK', NEW s \in Stream PROVE Length(s)' \in Nat
<1>1. ASSUME NEW m \in Model PROVE Len(predictions'[m]) \in Nat
  BY DEF ServiceTypeOK
<1>2. QED
  BY <1>1, ServiceParameters DEF ServiceParameters, ServiceTypeOK, Stream, Length

\* Services append to the streams, and lose more.
Grown ==
  /\ telemetry <= telemetry' /\ \A s \in Stream : Length(s) <= Length(s)'
  /\ \A m \in Model :
       /\ \A i \in 1..Len(predictions[m]) : predictions'[m][i] = predictions[m][i]
       /\ lost[m] \subseteq lost'[m]

LEMMA Growth == ASSUME ServiceTypeOK, ServiceNext PROVE Grown
<1> USE ServiceParameters DEF ServiceParameters, ServiceTypeOK, flags, scored
<1>1. ASSUME NEW m \in Model
      PROVE  /\ Len(predictions[m]) <= Len(predictions'[m])
             /\ \A i \in 1..Len(predictions[m]) : predictions'[m][i] = predictions[m][i]
  <2>1. predictions[m] \in Seq(1..MaxTelemetry) /\ Len(predictions[m]) \in Nat
    OBVIOUS
  <2>2. CASE predictions'[m] = predictions[m]
    BY <2>1, <2>2
  <2>3. CASE /\ inHand[m] \in 1..MaxTelemetry
             /\ predictions'[m] = Append(predictions[m], inHand[m])
    BY <2>1, <2>3, Published
  <2>4. QED
    BY <2>2, <2>3, StreamsGrow
<1>2. telemetry <= telemetry'
  BY OneServiceMoves
<1>3. \A m \in Model : lost[m] \subseteq lost'[m]
  <2>1. ASSUME NEW m \in Model, PublishFails(m) \/ AckFails(m) \/ ServiceDies(m)
        PROVE  \A n \in Model : lost[n] \subseteq lost'[n]
    <3>1. \E more : lost' = [lost EXCEPT ![m] = @ \cup more]
      BY <2>1 DEF PublishFails, AckFails, ServiceDies, Drop
    <3>2. QED
      BY <3>1
  <2>2. ASSUME NEW m \in Model, SetEnabled(m) \/ Works(m) PROVE lost' = lost
    BY <2>2 DEF SetEnabled, Works, is_enabled, read_group, publish, ack_message
  <2>3. CASE Normalize
    BY <2>3 DEF Normalize
  <2>4. QED
    BY <2>1, <2>2, <2>3 DEF ServiceNext
<1>4. \A s \in Stream : Length(s) <= Length(s)'
  BY <1>1, <1>2 DEF Length, Stream
<1>5. QED
  BY <1>1, <1>2, <1>3, <1>4 DEF Grown

\* A step is one of a service, or leaves the streams alone.
LEMMA WhoSteps ==
  ASSUME ServiceTypeOK, ScoringNext
  PROVE  \/ ServiceNext /\ UNCHANGED evaluatorVars
         \/ UNCHANGED <<scored, flags>> /\ scoringFaults' \in 0..MaxScoringFaults
<1> USE ServiceParameters DEF ServiceParameters, ServiceTypeOK, inferenceVars, scored, flags
<1>1. CASE Evaluates
  BY <1>1 DEF Evaluates, xread, Wake, TimesOut, AnswerHandled, _evaluate_telemetry,
              _record_prediction
<1>2. CASE EvaluationFails \/ EvaluatorRestarts
  BY <1>2 DEF EvaluationFails, EvaluatorRestarts, ScoringFault
<1>3. CASE \E m \in Model, e \in 1..MaxTelemetry : TimeGoesBy(m, e)
  BY <1>3 DEF TimeGoesBy
<1>4. QED
  BY <1>1, <1>2, <1>3 DEF ScoringNext

-----------------------------------------------------------------------------
\* The evaluator's steps.

LEMMA PositionType ==
  ASSUME ServiceTypeOK, EvaluatorTypeOK, ReadDiscipline, NEW s \in Stream
  PROVE  /\ Position(s) \in Nat /\ Position(s) <= Length(s)
         /\ loop # "read" => Position(s) = cur[s] /\ cur[s] \in Nat /\ upto[s] \in Nat
         /\ loop = "read" /\ from[s] = Newest => Position(s) = Length(s)
<1>1. Length(s) \in Nat
  BY LengthType
<1>2. QED
  BY <1>1, EvaluationParameters
  DEF EvaluationParameters, EvaluatorTypeOK, ReadDiscipline, Position

\* Both reads begin where the streams have been handled to.
LEMMA Reading ==
  ASSUME ServiceTypeOK, EvaluatorTypeOK, ReadDiscipline, xread \/ Wake
  PROVE  /\ UNCHANGED <<inferenceVars, from, waiting, samples>>
         /\ cur' = [s \in Stream |-> Position(s)] /\ cur' \in [Stream -> Nat]
         /\ upto' \in [Stream -> Nat]
         /\ \A s \in Stream :
              /\ upto'[s] = IF Length(s) <= Position(s) + MaxRead THEN Length(s)
                            ELSE Position(s) + MaxRead
              /\ Position(s) <= upto'[s] /\ upto'[s] <= Length(s)
         /\ loop' = IF upto' = cur' THEN "blocked" ELSE "busy"
         /\ lag' \in Nat /\ lag <= lag' /\ telemetry - Position(0) <= lag'
<1> DEFINE start == [s \in Stream |-> Position(s)]
<1>1. start \in [Stream -> Nat] /\ \A s \in Stream : start[s] <= Length(s) /\ Length(s) \in Nat
  BY PositionType, LengthType
<1>2. Answer(start) /\ UNCHANGED <<inferenceVars, from, waiting, samples>>
  <2>1. CASE xread
    <3>1. start = [s \in Stream |-> IF from[s] = Newest THEN Length(s) ELSE from[s]]
      BY <2>1 DEF xread, Position
    <3>2. QED
      BY <2>1, <3>1 DEF xread
  <2>2. CASE Wake
    <3>1. start = cur
      BY <2>2, PositionType DEF Wake, Woken, EvaluatorTypeOK
    <3>2. QED
      BY <2>2, <3>1 DEF Wake
  <2>3. QED
    BY <2>1, <2>2
<1>3. MaxRead \in Nat \ {0} /\ telemetry \in Nat /\ lag \in Nat /\ start[0] \in Nat
      /\ 0 \in Stream
  BY <1>1, Streams, EvaluationParameters DEF EvaluationParameters, ServiceTypeOK, EvaluatorTypeOK
<1>4. /\ cur' = start /\ loop' = IF upto' = start THEN "blocked" ELSE "busy"
      /\ upto' = [s \in Stream |->
           IF Length(s) <= start[s] + MaxRead THEN Length(s) ELSE start[s] + MaxRead]
      /\ lag' = IF telemetry - start[0] <= lag THEN lag ELSE telemetry - start[0]
  BY <1>2 DEF Answer
<1>5. /\ lag' \in Nat /\ lag <= lag' /\ telemetry - start[0] <= lag'
  BY <1>1, <1>3, <1>4
<1>6. \A s \in Stream :
        /\ upto'[s] = IF Length(s) <= start[s] + MaxRead THEN Length(s) ELSE start[s] + MaxRead
        /\ start[s] <= upto'[s] /\ upto'[s] <= Length(s) /\ upto'[s] \in Nat
  BY <1>1, <1>3, <1>4
<1>7. upto' \in [Stream -> Nat]
  BY <1>4, <1>6
<1>8. start[0] = Position(0) /\ \A s \in Stream : start[s] = Position(s)
  BY <1>3
<1>9. QED
  BY <1>1, <1>2, <1>4, <1>5, <1>6, <1>7, <1>8

\* The message that is handled is in the stream; its stream moves by one.
LEMMA Handling ==
  ASSUME ServiceTypeOK, EvaluatorTypeOK, ReadDiscipline, NEW s \in Stream, Turn(s)
  PROVE  /\ loop = "busy" /\ cur[s] + 1 \in 1..Length(s) /\ cur[s] + 1 <= upto[s]
         /\ upto[s] \in Nat /\ Position(s) = cur[s]
         /\ s \in Model => cur[0] = upto[0]
         /\ Handled(s) =>
              /\ cur' \in [Stream -> Nat] /\ from' \in [Stream -> Nat \cup {Newest}]
              /\ cur'[s] = cur[s] + 1 /\ from'[s] = cur[s] + 1
              /\ \A r \in Stream \ {s} : cur'[r] = cur[r] /\ from'[r] = from[r]
<1>1. /\ cur[s] \in Nat /\ upto[s] \in Nat /\ Length(s) \in Nat /\ cur[s] < upto[s]
      /\ upto[s] <= Length(s) /\ loop = "busy"
  BY LengthType DEF Turn, EvaluatorTypeOK, ReadDiscipline
<1>2. Position(s) = cur[s]
  BY <1>1, PositionType
<1>3. s \in Model => cur[0] = upto[0]
  BY Streams DEF Turn
<1>4. cur[s] + 1 \in 1..Length(s) /\ cur[s] + 1 <= upto[s]
  BY <1>1
<1>5. ASSUME Handled(s)
      PROVE  /\ cur' \in [Stream -> Nat] /\ from' \in [Stream -> Nat \cup {Newest}]
             /\ cur'[s] = cur[s] + 1 /\ from'[s] = cur[s] + 1
             /\ \A r \in Stream \ {s} : cur'[r] = cur[r] /\ from'[r] = from[r]
  <2>1. /\ cur' = [cur EXCEPT ![s] = cur[s] + 1] /\ from' = [from EXCEPT ![s] = cur[s] + 1]
        /\ cur \in [Stream -> Nat] /\ from \in [Stream -> Nat \cup {Newest}]
        /\ cur[s] + 1 \in Nat
    BY <1>1, <1>5 DEF Handled, EvaluatorTypeOK
  <2>2. QED
    BY <2>1
<1>6. QED
  BY <1>1, <1>2, <1>3, <1>4, <1>5

\* Counting and popping keep the types.
LEMMA Popping ==
  ASSUME EvaluatorTypeOK, NEW e \in 1..MaxTelemetry, NEW hit, Pop(hit, e)
  PROVE  /\ samples' \in [Model -> [1..MaxTelemetry -> Nat]]
         /\ kept' \in [Model -> SUBSET (1..MaxTelemetry)]
         /\ stale' \in [Model -> SUBSET (1..MaxTelemetry)]
         /\ \A m \in Model : stale'[m] \subseteq kept'[m]
<1> USE DEF EvaluatorTypeOK
<1>1. ASSUME NEW m \in Model PROVE samples'[m] \in [1..MaxTelemetry -> Nat]
  <2>1. samples[m] \in [1..MaxTelemetry -> Nat]
    OBVIOUS
  <2>2. samples'[m] = IF m \in hit THEN [samples[m] EXCEPT ![e] = samples[m][e] + 1] ELSE samples[m]
    BY DEF Pop
  <2>3. samples[m][e] \in Nat
    BY <2>1
  <2>4. QED
    BY <2>1, <2>2, <2>3
<1>2. /\ samples' = [m \in Model |->
           IF m \in hit THEN [samples[m] EXCEPT ![e] = @ + 1] ELSE samples[m]]
      /\ kept' = [m \in Model |-> IF m \in hit THEN kept[m] \ {e} ELSE kept[m]]
      /\ stale' = [m \in Model |-> IF m \in hit THEN stale[m] \ {e} ELSE stale[m]]
  BY DEF Pop
<1>3. samples' \in [Model -> [1..MaxTelemetry -> Nat]]
  BY <1>1, <1>2
<1>4. kept' \in [Model -> SUBSET (1..MaxTelemetry)] /\ stale' \in [Model -> SUBSET (1..MaxTelemetry)]
  BY <1>2
<1>5. QED
  BY <1>1, <1>2, <1>3, <1>4

-----------------------------------------------------------------------------
\* Types and positions.

LEMMA EvaluatorInitially ==
  ASSUME ScoringInit
  PROVE  /\ EvaluatorTypeOK /\ ReadDiscipline /\ OnceDiscipline /\ SampledOnce
         /\ JoinDiscipline /\ EvaluatesInVain
<1>1. /\ from = [s \in Stream |-> Newest] /\ loop = "read"
      /\ cur \in [Stream -> Nat] /\ upto \in [Stream -> Nat]
      /\ kept = [m \in Model |-> {}] /\ stale = [m \in Model |-> {}]
      /\ samples = [m \in Model |-> [e \in 1..MaxTelemetry |-> 0]] /\ lag = 0
  BY DEF ScoringInit, EvaluatorInit, Nothing, NonePending
<1>2. EvaluatorTypeOK
  BY <1>1 DEF EvaluatorTypeOK
<1>3. ReadDiscipline
  BY <1>1 DEF ReadDiscipline
<1>4. \A m \in Model, e \in 1..MaxTelemetry : samples[m][e] = 0
  BY <1>1
<1>5. \A m \in Model : kept[m] = {} /\ from[m] = Newest
  BY <1>1, Streams
<1>6. OnceDiscipline /\ SampledOnce /\ JoinDiscipline /\ EvaluatesInVain
  BY <1>1, <1>4, <1>5 DEF OnceDiscipline, SampledOnce, JoinDiscipline, EvaluatesInVain
<1>7. QED
  BY <1>2, <1>3, <1>6

LEMMA EvaluatorTypeStep ==
  ASSUME ServiceTypeOK, EvaluatorTypeOK, ReadDiscipline, ScoringNext
  PROVE  EvaluatorTypeOK'
<1>1. CASE UNCHANGED evaluatorVars
  BY <1>1 DEF evaluatorVars, EvaluatorTypeOK
<1>2. CASE xread \/ Wake
  <2>1. UNCHANGED <<from, kept, stale, samples>> /\ loop' \in {"blocked", "busy"}
    BY <1>2, Reading DEF waiting
  <2>2. QED
    BY <1>2, <2>1, Reading DEF EvaluatorTypeOK
<1>3. ASSUME Rest PROVE loop' \in {"read"} /\ cur' \in [Stream -> Nat] /\ upto' \in [Stream -> Nat]
  BY <1>3 DEF Rest, Nothing
<1>4. CASE TimesOut \/ AnswerHandled
  BY <1>3, <1>4 DEF TimesOut, AnswerHandled, _cleanup_pending, Expired, EvaluatorTypeOK
<1>5. CASE EvaluatorRestarts
  BY <1>3, <1>5 DEF EvaluatorRestarts, NonePending, EvaluatorTypeOK
<1>6. CASE \E m \in Model, e \in 1..MaxTelemetry : TimeGoesBy(m, e)
  BY <1>6 DEF TimeGoesBy, position, EvaluatorTypeOK
<1>7. ASSUME NEW m \in Model, _record_prediction(m) PROVE EvaluatorTypeOK'
  <2>1. m \in Stream /\ Turn(m) /\ Handled(m) /\ Length(m) = Len(predictions[m])
    BY <1>7, Streams DEF _record_prediction, Length
  <2>2. predictions[m][cur[m] + 1] \in 1..MaxTelemetry
    <3>1. predictions[m] \in Seq(1..MaxTelemetry)
      BY DEF ServiceTypeOK
    <3>2. \A i \in 1..Len(predictions[m]) : predictions[m][i] \in 1..MaxTelemetry
      BY <3>1, ElementOfSeq
    <3>3. cur[m] + 1 \in 1..Len(predictions[m])
      BY <2>1, Handling
    <3>4. QED
      BY <3>2, <3>3
  <2>3. /\ UNCHANGED <<loop, upto, lag, samples>>
        /\ kept' = [kept EXCEPT ![m] = @ \cup {predictions[m][cur[m] + 1]}]
        /\ stale' = [stale EXCEPT ![m] = @ \ {predictions[m][cur[m] + 1]}]
    BY <1>7 DEF _record_prediction, Handled
  <2>4. QED
    BY <2>1, <2>2, <2>3, Handling DEF EvaluatorTypeOK
<1>8. ASSUME Turn(0) PROVE cur[0] + 1 \in 1..MaxTelemetry
  <2>1. Length(0) \in 0..MaxTelemetry
    BY ServiceParameters DEF ServiceParameters, ServiceTypeOK, Length
  <2>2. cur[0] + 1 \in 1..Length(0)
    BY <1>8, Streams, Handling
  <2>3. QED
    BY <2>1, <2>2, ServiceParameters DEF ServiceParameters
<1>9. CASE _evaluate_telemetry
  <2>1. Turn(0) /\ Handled(0) /\ Pop(Awaiting(cur[0] + 1), cur[0] + 1)
    BY <1>9 DEF _evaluate_telemetry
  <2>2. UNCHANGED <<loop, upto, lag>>
    BY <2>1 DEF Handled
  <2>3. QED
    BY <1>8, <2>1, <2>2, Streams, Handling, Popping DEF EvaluatorTypeOK
<1>10. CASE EvaluationFails
  <2>1. PICK f \in Awaiting(cur[0] + 1) :
          Pop({m \in Awaiting(cur[0] + 1) : m <= f}, cur[0] + 1)
    BY <1>10 DEF EvaluationFails
  <2>2. Turn(0) /\ Rest /\ UNCHANGED <<from, lag>>
    BY <1>10 DEF EvaluationFails
  <2>3. QED
    BY <1>3, <1>8, <2>1, <2>2, Popping DEF EvaluatorTypeOK
<1>11. QED
  BY <1>1, <1>2, <1>4, <1>5, <1>6, <1>7, <1>9, <1>10 DEF ScoringNext, Evaluates

LEMMA ReadStep ==
  ASSUME ServiceTypeOK, ServiceTypeOK', EvaluatorTypeOK, EvaluatorTypeOK', ReadDiscipline,
         ScoringNext
  PROVE  ReadDiscipline'
<1> SUFFICES ASSUME NEW s \in Stream
             PROVE  /\ from'[s] # Newest => from'[s] <= Length(s)'
                    /\ loop' # "read" =>
                         /\ cur'[s] <= upto'[s] /\ upto'[s] <= Length(s)'
                         /\ from'[s] \in {Newest, cur'[s]}
                         /\ loop' = "blocked" => cur'[s] = upto'[s]
  BY DEF ReadDiscipline
<1>1. /\ from[s] # Newest => from[s] <= Length(s)
      /\ loop # "read" =>
           /\ cur[s] <= upto[s] /\ upto[s] <= Length(s) /\ from[s] \in {Newest, cur[s]}
           /\ loop = "blocked" => cur[s] = upto[s]
  BY DEF ReadDiscipline
<1>2. /\ from[s] \in Nat \cup {Newest} /\ cur[s] \in Nat /\ upto[s] \in Nat
      /\ Length(s) \in Nat /\ Length(s)' \in Nat
  BY LengthType, LengthTypeNext DEF EvaluatorTypeOK
<1>3. CASE ServiceNext /\ UNCHANGED evaluatorVars
  <2>1. Length(s) <= Length(s)' /\ UNCHANGED <<from, loop, cur, upto>>
    BY <1>3, Growth DEF Grown, evaluatorVars
  <2>2. QED
    BY <1>1, <1>2, <2>1
<1>4. CASE UNCHANGED <<scored, flags>>
  <2>1. Length(s)' = Length(s)
    BY <1>4 DEF Length, scored
  <2>2. CASE xread \/ Wake
    <3>1. from[s] \in {Newest, Position(s)}
      BY DEF Position
    <3>2. from' = from /\ cur'[s] = Position(s)
      BY <2>2, Reading
    <3>3. loop' = IF upto' = cur' THEN "blocked" ELSE "busy"
      BY <2>2, Reading
    <3>4. cur'[s] <= upto'[s] /\ upto'[s] <= Length(s)
      BY <2>2, <3>2, Reading
    <3>5. QED
      BY <1>1, <2>1, <3>1, <3>2, <3>3, <3>4
  <2>3. CASE /\ Rest
             /\ \/ UNCHANGED from
                \/ from' = [r \in Stream |-> Newest]
    BY <1>1, <2>1, <2>3 DEF Rest
  <2>4. ASSUME NEW r \in Stream, Turn(r), Handled(r)
        PROVE  /\ from'[s] # Newest => from'[s] <= Length(s)'
               /\ cur'[s] <= upto'[s] /\ upto'[s] <= Length(s)'
               /\ from'[s] \in {Newest, cur'[s]} /\ loop' = "busy"
    <3>1. loop = "busy" /\ UNCHANGED <<loop, upto>>
      BY <2>4 DEF Turn, Handled
    <3>2. CASE s = r
      <4>1. cur'[s] = cur[s] + 1 /\ from'[s] = cur[s] + 1 /\ cur[s] + 1 <= upto[s]
        BY <2>4, <3>2, Handling
      <4>2. QED
        BY <1>1, <1>2, <2>1, <3>1, <4>1
    <3>3. CASE s # r
      <4>1. cur'[s] = cur[s] /\ from'[s] = from[s]
        BY <2>4, <3>3, Handling
      <4>2. QED
        BY <1>1, <2>1, <3>1, <4>1
    <3>4. QED
      BY <3>2, <3>3
  <2>5. CASE \E m \in Model, e \in 1..MaxTelemetry : TimeGoesBy(m, e)
    BY <1>1, <2>1, <2>5 DEF TimeGoesBy, position
  <2>6. CASE TimesOut \/ AnswerHandled \/ EvaluationFails \/ EvaluatorRestarts
    BY <2>3, <2>6 DEF TimesOut, AnswerHandled, EvaluationFails, EvaluatorRestarts
  <2>7. CASE _evaluate_telemetry \/ \E m \in Model : _record_prediction(m)
    BY <2>4, <2>7, Streams DEF _evaluate_telemetry, _record_prediction
  <2>8. CASE UNCHANGED evaluatorVars
    BY <1>1, <2>1, <2>8 DEF evaluatorVars
  <2>9. QED
    BY <2>2, <2>5, <2>6, <2>7, <2>8 DEF ScoringNext, Evaluates
<1>5. QED
  BY <1>3, <1>4, WhoSteps

-----------------------------------------------------------------------------
\* What a step may do to positions, to what is kept and to what is counted.

LEMMA PositionGrows ==
  ASSUME ServiceTypeOK, ServiceTypeOK', EvaluatorTypeOK, EvaluatorTypeOK', ReadDiscipline,
         ScoringNext, NEW s \in Stream
  PROVE  Position(s) <= Position(s)'
<1>1. /\ Position(s) \in Nat /\ Position(s) <= Length(s)
      /\ Length(s) \in Nat /\ Length(s)' \in Nat
      /\ loop # "read" => Position(s) = cur[s]
  BY PositionType, LengthType, LengthTypeNext
<1>2. Newest \notin Nat /\ from[s] \in Nat \cup {Newest}
  BY EvaluationParameters DEF EvaluationParameters, EvaluatorTypeOK
<1>3. CASE ServiceNext /\ UNCHANGED evaluatorVars
  <2>1. Length(s) <= Length(s)' /\ UNCHANGED <<from, loop, cur>>
    BY <1>3, Growth DEF Grown, evaluatorVars
  <2>2. QED
    BY <1>1, <2>1 DEF Position
<1>4. CASE UNCHANGED <<scored, flags>>
  <2>1. Length(s)' = Length(s)
    BY <1>4 DEF Length, scored
  <2>2. CASE xread \/ Wake
    <3>1. from' = from /\ cur'[s] = Position(s) /\ loop' # "read"
      BY <2>2, Reading
    <3>2. QED
      BY <1>1, <3>1 DEF Position
  <2>3. CASE Rest /\ (from' = from \/ from' = [r \in Stream |-> Newest])
    <3>1. Position(s)' = IF from'[s] # Newest THEN from'[s] ELSE Length(s)
      BY <2>1, <2>3 DEF Position, Rest
    <3>2. CASE from'[s] = Newest
      BY <1>1, <3>1, <3>2
    <3>3. CASE from'[s] # Newest
      <4>1. from'[s] = from[s]
        BY <2>3, <3>3
      <4>2. QED
        BY <1>1, <3>1, <3>3, <4>1 DEF Position
    <3>4. QED
      BY <3>2, <3>3
  <2>4. ASSUME NEW r \in Stream, Turn(r), Handled(r) PROVE Position(s) <= Position(s)'
    <3>1. loop = "busy" /\ loop' = "busy"
      BY <2>4 DEF Turn, Handled
    <3>2. CASE s = r
      <4>1. from'[s] = cur[s] + 1 /\ Position(s) = cur[s]
        BY <2>4, <3>2, Handling
      <4>2. Position(s)' = cur[s] + 1
        BY <1>1, <1>2, <4>1 DEF Position
      <4>3. QED
        BY <1>1, <4>1, <4>2
    <3>3. CASE s # r
      <4>1. cur'[s] = cur[s] /\ from'[s] = from[s]
        BY <2>4, <3>3, Handling
      <4>2. QED
        BY <1>1, <3>1, <4>1 DEF Position
    <3>4. QED
      BY <3>2, <3>3
  <2>5. CASE \E m \in Model, e \in 1..MaxTelemetry : TimeGoesBy(m, e)
    BY <1>1, <2>1, <2>5 DEF TimeGoesBy, position, Position
  <2>6. CASE TimesOut \/ AnswerHandled \/ EvaluationFails \/ EvaluatorRestarts
    BY <2>3, <2>6 DEF TimesOut, AnswerHandled, EvaluationFails, EvaluatorRestarts
  <2>7. CASE _evaluate_telemetry \/ \E m \in Model : _record_prediction(m)
    BY <2>4, <2>7, Streams DEF _evaluate_telemetry, _record_prediction
  <2>8. CASE UNCHANGED evaluatorVars
    BY <1>1, <2>1, <2>8 DEF evaluatorVars, Position
  <2>9. QED
    BY <2>2, <2>5, <2>6, <2>7, <2>8 DEF ScoringNext, Evaluates
<1>5. QED
  BY <1>3, <1>4, WhoSteps

\* The event that a popping step is about.
LEMMA Popped ==
  ASSUME ServiceTypeOK, EvaluatorTypeOK, ReadDiscipline, _evaluate_telemetry \/ EvaluationFails
  PROVE  /\ Turn(0) /\ Position(0) = cur[0] /\ cur[0] \in Nat
         /\ cur[0] + 1 \in 1..MaxTelemetry
         /\ \E hit \in SUBSET Awaiting(cur[0] + 1) : Pop(hit, cur[0] + 1)
<1>1. Turn(0)
  BY DEF _evaluate_telemetry, EvaluationFails
<1>2. Position(0) = cur[0] /\ cur[0] + 1 \in 1..Length(0) /\ cur[0] \in Nat
  BY <1>1, Streams, Handling DEF EvaluatorTypeOK
<1>3. Length(0) \in 0..MaxTelemetry
  BY ServiceParameters DEF ServiceParameters, ServiceTypeOK, Length
<1>4. cur[0] + 1 \in 1..MaxTelemetry
  BY <1>2, <1>3, ServiceParameters DEF ServiceParameters
<1>5. \E hit \in SUBSET Awaiting(cur[0] + 1) : Pop(hit, cur[0] + 1)
  <2>1. CASE _evaluate_telemetry
    BY <2>1 DEF _evaluate_telemetry
  <2>2. CASE EvaluationFails
    <3>1. PICK f \in Awaiting(cur[0] + 1) :
            Pop({m \in Awaiting(cur[0] + 1) : m <= f}, cur[0] + 1)
      BY <2>2 DEF EvaluationFails
    <3>2. {m \in Awaiting(cur[0] + 1) : m <= f} \in SUBSET Awaiting(cur[0] + 1)
      OBVIOUS
    <3>3. QED
      BY <3>1, <3>2
  <2>3. QED
    BY <2>1, <2>2
<1>6. QED
  BY <1>1, <1>2, <1>4, <1>5

\* What is kept after a step was kept before, or is the prediction that was handled.
LEMMA KeptStep ==
  ASSUME ServiceTypeOK, EvaluatorTypeOK, ReadDiscipline, ScoringNext,
         NEW m \in Model, NEW e \in kept'[m]
  PROVE  \/ e \in kept[m]
         \/ /\ _record_prediction(m) /\ Turn(m) /\ Handled(m)
            /\ e = predictions[m][cur[m] + 1] /\ samples' = samples
<1> USE DEF EvaluatorTypeOK
<1>1. CASE _evaluate_telemetry \/ EvaluationFails
  <2>1. PICK hit \in SUBSET Awaiting(cur[0] + 1) : Pop(hit, cur[0] + 1)
    BY <1>1, Popped
  <2>2. QED
    BY <2>1 DEF Pop
<1>2. ASSUME NEW n \in Model, _record_prediction(n)
      PROVE  \/ e \in kept[m]
             \/ /\ n = m /\ Turn(m) /\ Handled(m)
                /\ e = predictions[m][cur[m] + 1] /\ samples' = samples
  BY <1>2 DEF _record_prediction
<1>3. CASE xread \/ Wake
  BY <1>3, Reading DEF waiting
<1>4. CASE TimesOut \/ AnswerHandled
  BY <1>4 DEF TimesOut, AnswerHandled, _cleanup_pending
<1>5. CASE EvaluatorRestarts
  BY <1>5 DEF EvaluatorRestarts, NonePending
<1>6. CASE \E n \in Model, d \in 1..MaxTelemetry : TimeGoesBy(n, d)
  BY <1>6 DEF TimeGoesBy
<1>7. CASE UNCHANGED evaluatorVars
  BY <1>7 DEF evaluatorVars
<1>8. QED
  BY <1>1, <1>2, <1>3, <1>4, <1>5, <1>6, <1>7 DEF ScoringNext, Evaluates

\* What is counted by a step was kept, is the telemetry event that was handled, and is
\* kept no longer.
LEMMA SampleStep ==
  ASSUME ServiceTypeOK, EvaluatorTypeOK, ReadDiscipline, ScoringNext,
         NEW m \in Model, NEW e \in 1..MaxTelemetry
  PROVE  \/ samples'[m][e] = samples[m][e]
         \/ /\ e = Position(0) + 1 /\ e \in kept[m] /\ e \notin kept'[m]
            /\ samples'[m][e] = samples[m][e] + 1
<1>1. CASE _evaluate_telemetry \/ EvaluationFails
  <2>1. PICK hit \in SUBSET Awaiting(cur[0] + 1) : Pop(hit, cur[0] + 1)
    BY <1>1, Popped
  <2>2. hit \in SUBSET Model /\ \A n \in hit : cur[0] + 1 \in kept[n]
    BY DEF Awaiting
  <2>3. cur[0] + 1 \in 1..MaxTelemetry /\ Position(0) = cur[0]
    BY <1>1, Popped
  <2>4. /\ samples'[m][e] = IF m \in hit /\ e = cur[0] + 1 THEN samples[m][e] + 1 ELSE samples[m][e]
        /\ kept'[m] = IF m \in hit THEN kept[m] \ {cur[0] + 1} ELSE kept[m]
    <3>1. /\ samples'[m] = IF m \in hit
               THEN [samples[m] EXCEPT ![cur[0] + 1] = samples[m][cur[0] + 1] + 1] ELSE samples[m]
          /\ kept'[m] = IF m \in hit THEN kept[m] \ {cur[0] + 1} ELSE kept[m]
      BY <2>1 DEF Pop
    <3>2. samples[m] \in [1..MaxTelemetry -> Nat]
      BY DEF EvaluatorTypeOK
    <3>3. QED
      BY <2>3, <3>1, <3>2
  <2>5. QED
    BY <2>2, <2>3, <2>4
<1>2. CASE \/ TimesOut \/ AnswerHandled \/ EvaluatorRestarts
           \/ \E n \in Model : _record_prediction(n)
           \/ \E n \in Model, d \in 1..MaxTelemetry : TimeGoesBy(n, d)
           \/ UNCHANGED evaluatorVars
  BY <1>2 DEF TimesOut, AnswerHandled, EvaluatorRestarts, _record_prediction, TimeGoesBy,
              evaluatorVars
<1>3. CASE xread \/ Wake
  BY <1>3, Reading
<1>4. QED
  BY <1>1, <1>2, <1>3 DEF ScoringNext, Evaluates

-----------------------------------------------------------------------------
\* The disciplines.

LEMMA StreamsKept ==
  ASSUME ServiceTypeOK, ScoringNext, NEW m \in Model
  PROVE  /\ Len(predictions[m]) <= Len(predictions'[m])
         /\ \A i \in 1..Len(predictions[m]) : predictions'[m][i] = predictions[m][i]
         /\ lost[m] \subseteq lost'[m]
<1>1. Len(predictions[m]) \in Nat
  BY DEF ServiceTypeOK
<1>2. CASE ServiceNext
  <2>1. Length(m) = Len(predictions[m]) /\ Length(m)' = Len(predictions'[m]) /\ m \in Stream
    BY Streams DEF Length
  <2>2. QED
    BY <1>2, <2>1, Growth DEF Grown
<1>3. CASE UNCHANGED <<scored, flags>>
  BY <1>1, <1>3 DEF scored
<1>4. QED
  BY <1>2, <1>3, WhoSteps

LEMMA OnceStep ==
  ASSUME ServicesSound, ServiceTypeOK', EvaluatorTypeOK, EvaluatorTypeOK', ReadDiscipline,
         OnceDiscipline, SampledOnce, ScoringNext
  PROVE  OnceDiscipline' /\ SampledOnce'
<1> SUFFICES ASSUME NEW m \in Model, NEW e \in 1..MaxTelemetry
             PROVE  /\ e \in kept'[m] => samples'[m][e] = 0
                    /\ e \in kept'[m] \/ samples'[m][e] # 0 =>
                         \E i \in 1..Position(m)' :
                           i <= Len(predictions'[m]) /\ predictions'[m][i] = e
                    /\ samples'[m][e] <= 1
  BY DEF OnceDiscipline, SampledOnce
<1>1. /\ e \in kept[m] => samples[m][e] = 0
      /\ e \in kept[m] \/ samples[m][e] # 0 =>
           \E i \in 1..Position(m) : i <= Len(predictions[m]) /\ predictions[m][i] = e
      /\ samples[m][e] <= 1 /\ samples[m][e] \in Nat
  <2>1. samples[m] \in [1..MaxTelemetry -> Nat]
    BY DEF EvaluatorTypeOK
  <2>2. QED
    BY <2>1 DEF OnceDiscipline, SampledOnce
<1>2. ServiceTypeOK /\ m \in Stream
  BY Streams DEF ServicesSound
<1>3. Position(m) \in Nat /\ Position(m)' \in Nat /\ Position(m) <= Position(m)'
  <2>1. Position(m) \in Nat
    BY <1>2, PositionType
  <2>2. Position(m)' \in Nat
    <3>1. Length(m)' \in Nat
      BY <1>2, LengthTypeNext
    <3>2. QED
      BY <1>2, <3>1 DEF Position, EvaluatorTypeOK
  <2>3. QED
    BY <1>2, <2>1, <2>2, PositionGrows
<1>4. /\ Len(predictions[m]) \in Nat /\ Len(predictions[m]) <= Len(predictions'[m])
      /\ \A i \in 1..Len(predictions[m]) : predictions'[m][i] = predictions[m][i]
  <2>1. Len(predictions[m]) \in Nat
    BY <1>2 DEF ServiceTypeOK
  <2>2. QED
    BY <1>2, <2>1, StreamsKept
<1>5. ASSUME NEW i \in 1..Position(m), i <= Len(predictions[m]), predictions[m][i] = e
      PROVE  \E j \in 1..Position(m)' : j <= Len(predictions'[m]) /\ predictions'[m][j] = e
  <2>1. i \in 1..Position(m)' /\ i \in 1..Len(predictions[m]) /\ i <= Len(predictions'[m])
    <3>1. Len(predictions'[m]) \in Nat
      BY DEF ServiceTypeOK
    <3>2. QED
      BY <1>3, <1>4, <1>5, <3>1
  <2>2. QED
    BY <1>4, <1>5, <2>1
<1>6. CASE samples'[m][e] = samples[m][e] /\ (e \in kept'[m] => e \in kept[m])
  BY <1>1, <1>5, <1>6
<1>7. CASE e \in kept[m] /\ e \notin kept'[m] /\ samples'[m][e] = samples[m][e] + 1
  BY <1>1, <1>5, <1>7
<1>8. CASE /\ e \in kept'[m] /\ Turn(m) /\ Handled(m)
           /\ e = predictions[m][cur[m] + 1] /\ samples' = samples
  <2>1. /\ cur[m] + 1 \in 1..Len(predictions[m]) /\ Position(m) = cur[m]
        /\ from'[m] = cur[m] + 1 /\ cur[m] \in Nat
    <3>1. Length(m) = Len(predictions[m])
      BY Streams DEF Length
    <3>2. QED
      BY <1>2, <1>8, <3>1, Handling DEF EvaluatorTypeOK
  <2>2. Position(m)' = cur[m] + 1
    BY <2>1, EvaluationParameters DEF EvaluationParameters, Position
  <2>3. predictions'[m][cur[m] + 1] = e /\ cur[m] + 1 <= Len(predictions'[m])
    <3>1. Len(predictions'[m]) \in Nat
      BY DEF ServiceTypeOK
    <3>2. QED
      BY <1>4, <1>8, <2>1, <3>1
  <2>4. samples[m][e] = 0
    <3>1. ASSUME NEW i \in 1..Position(m), i <= Len(predictions[m]), predictions[m][i] = e
          PROVE  FALSE
      <4>1. i \in 1..Len(predictions[m]) /\ i < cur[m] + 1
        BY <1>4, <2>1, <3>1
      <4>2. predictions[m][i] < predictions[m][cur[m] + 1]
        BY <2>1, <4>1 DEF ServicesSound, PredictedInOrder
      <4>3. e \in Nat
        OBVIOUS
      <4>4. QED
        BY <1>8, <3>1, <4>2, <4>3
    <3>2. QED
      BY <1>1, <3>1
  <2>5. QED
    BY <1>8, <2>1, <2>2, <2>3, <2>4
<1>9. QED
  BY <1>2, <1>6, <1>7, <1>8, KeptStep, SampleStep

LEMMA LagGrows ==
  ASSUME ServiceTypeOK, EvaluatorTypeOK, ReadDiscipline, ScoringNext
  PROVE  lag \in Nat /\ lag <= lag'
<1>1. lag \in Nat
  BY DEF EvaluatorTypeOK
<1>2. CASE xread \/ Wake
  BY <1>1, <1>2, Reading
<1>3. CASE lag' = lag
  BY <1>1, <1>3
<1>4. QED
  BY <1>2, <1>3 DEF ScoringNext, Evaluates, TimesOut, AnswerHandled, _evaluate_telemetry,
     _record_prediction, Handled, EvaluationFails, EvaluatorRestarts, TimeGoesBy, evaluatorVars

\* The part of the join that is about the answer in hand, for one model.
InStep(m) ==
  /\ lag <= MaxRead \/ lost[m] = {} =>
       (loop = "busy" => \A i \in 1..upto[m] : cur[m] < i => predictions[m][i] <= upto[0])
  /\ lost[m] = {} =>
       /\ from[m] # Newest => from[m] <= Position(0)
       /\ loop = "blocked" => cur[m] <= cur[0]

\* Where the answer to a read lies: its telemetry reaches as far as its predictions.
LEMMA InStepRead ==
  ASSUME ServicesSound, EvaluatorTypeOK, ReadDiscipline, xread \/ Wake, NEW m \in Model,
         InStep(m), Position(0) <= Position(0)', Position(0)' \in Nat
  PROVE  InStep(m)'
<1>1. ServiceTypeOK /\ 0 \in Stream /\ m \in Stream /\ Length(0) = telemetry
      /\ Length(m) = Len(predictions[m])
  BY Streams DEF ServicesSound, Length
<1>2. /\ Position(0) \in Nat /\ Position(m) \in Nat /\ telemetry \in Nat
      /\ Position(0) <= telemetry /\ Position(m) <= Len(predictions[m])
      /\ Len(predictions[m]) \in Nat /\ lag \in Nat /\ MaxRead \in Nat \ {0}
  BY <1>1, PositionType, LengthType, EvaluationParameters
  DEF EvaluationParameters, EvaluatorTypeOK
<1>3. /\ cur'[0] = Position(0) /\ cur'[m] = Position(m)
      /\ upto'[0] = IF telemetry <= Position(0) + MaxRead THEN telemetry
                    ELSE Position(0) + MaxRead
      /\ upto'[m] = IF Len(predictions[m]) <= Position(m) + MaxRead THEN Len(predictions[m])
                    ELSE Position(m) + MaxRead
      /\ loop' = IF upto' = cur' THEN "blocked" ELSE "busy"
      /\ lag' \in Nat /\ lag <= lag' /\ telemetry - Position(0) <= lag'
      /\ UNCHANGED <<predictions, telemetry, lost, from>>
  BY <1>1, Reading DEF inferenceVars
<1>4. ASSUME lag' <= MaxRead, NEW i \in 1..upto'[m], cur'[m] < i
      PROVE  predictions[m][i] <= upto'[0]
  <2>1. upto'[0] = telemetry
    BY <1>2, <1>3, <1>4
  <2>2. i \in 1..Len(predictions[m])
    BY <1>2, <1>3
  <2>3. QED
    BY <2>1, <2>2, ScoredIsPublished
<1>5. ASSUME lost[m] = {}, NEW i \in 1..upto'[m], cur'[m] < i
      PROVE  predictions[m][i] <= upto'[0]
  <2>1. i \in 1..Len(predictions[m])
    BY <1>2, <1>3
  <2>2. predictions[m][i] = i /\ Len(predictions[m]) <= telemetry
    BY <1>5, <2>1, ScoredIsPublished
  <2>3. ~(loop = "read" /\ from[m] = Newest)
    <3>1. SUFFICES ASSUME loop = "read", from[m] = Newest PROVE FALSE
      OBVIOUS
    <3>2. Position(m) = Len(predictions[m])
      BY <1>1, <3>1, PositionType
    <3>3. QED
      BY <1>2, <1>3, <1>5, <3>2
  <2>4. Position(m) <= Position(0)
    <3>1. CASE from[m] # Newest
      BY <1>5, <3>1 DEF InStep, Position
    <3>2. CASE from[m] = Newest
      <4>1. loop = "blocked"
        BY <2>3, <3>2 DEF xread, Wake, Woken
      <4>2. Position(m) = cur[m] /\ Position(0) = cur[0]
        BY <1>1, <4>1, PositionType
      <4>3. QED
        BY <1>5, <4>1, <4>2 DEF InStep
    <3>3. QED
      BY <3>1, <3>2
  <2>5. i <= Position(m) + MaxRead /\ i <= telemetry /\ i \in Nat
    BY <1>2, <1>3, <2>1, <2>2
  <2>6. QED
    BY <1>2, <1>3, <2>2, <2>4, <2>5
<1>6. ASSUME lost[m] = {}, from[m] # Newest PROVE from[m] <= Position(0)'
  <2>1. from[m] <= Position(0) /\ from[m] \in Nat
    BY <1>1, <1>6 DEF InStep, EvaluatorTypeOK
  <2>2. QED
    BY <1>2, <2>1
<1>7. ASSUME lost[m] = {}, loop' = "blocked" PROVE cur'[m] <= cur'[0]
  <2>1. upto' = cur'
    BY <1>3, <1>7
  <2>2. Position(0) = telemetry /\ Len(predictions[m]) = Position(m)
    BY <1>2, <1>3, <2>1
  <2>3. QED
    BY <1>3, <1>7, <2>2, ScoredIsPublished
<1>8. QED
  BY <1>3, <1>4, <1>5, <1>6, <1>7 DEF InStep

LEMMA InStepHandled ==
  ASSUME ServicesSound, EvaluatorTypeOK, ReadDiscipline, NEW r \in Stream, Turn(r), Handled(r),
         UNCHANGED <<predictions, lost>>, NEW m \in Model,
         InStep(m), Position(0) <= Position(0)', Position(0)' \in Nat
  PROVE  InStep(m)'
<1>1. ServiceTypeOK /\ 0 \in Stream /\ m \in Stream /\ Length(m) = Len(predictions[m])
  BY Streams DEF ServicesSound, Length
<1>2. /\ Position(0) \in Nat /\ cur[m] \in Nat /\ cur'[m] \in Nat /\ upto[m] \in Nat
      /\ cur[m] <= cur'[m] /\ from[m] \in Nat \cup {Newest}
      /\ loop = "busy" /\ UNCHANGED <<loop, upto, lag>>
  <2>1. UNCHANGED <<loop, upto, lag>>
    BY DEF Handled
  <2>2. cur' \in [Stream -> Nat] /\ loop = "busy"
    BY <1>1, Handling
  <2>3. cur[m] <= cur'[m]
    <3>1. cur[m] \in Nat
      BY <1>1 DEF EvaluatorTypeOK
    <3>2. cur'[m] = cur[m] + 1 \/ cur'[m] = cur[m]
      BY <1>1, Handling
    <3>3. QED
      BY <3>1, <3>2
  <2>4. Position(0) \in Nat
    BY <1>1, PositionType
  <2>5. QED
    BY <1>1, <2>1, <2>2, <2>3, <2>4 DEF EvaluatorTypeOK
<1>3. ASSUME lag <= MaxRead \/ lost[m] = {}, NEW i \in 1..upto[m], cur'[m] < i
      PROVE  predictions[m][i] <= upto[0]
  BY <1>2, <1>3 DEF InStep
<1>4. ASSUME lost[m] = {}, from'[m] # Newest PROVE from'[m] <= Position(0)'
  <2>1. CASE r = m
    <3>1. /\ from'[m] = cur[m] + 1 /\ cur[m] + 1 \in 1..Len(predictions[m])
          /\ cur[m] + 1 \in 1..upto[m] /\ cur[0] = upto[0] /\ Position(0) = cur[0]
      BY <1>1, <1>2, <2>1, Handling, PositionType
    <3>2. predictions[m][cur[m] + 1] = cur[m] + 1
      BY <1>4, <3>1, ScoredIsPublished
    <3>3. predictions[m][cur[m] + 1] <= upto[0]
      BY <1>2, <1>4, <3>1 DEF InStep
    <3>4. QED
      BY <1>2, <3>1, <3>2, <3>3
  <2>2. CASE r # m
    <3>1. from'[m] = from[m]
      BY <1>1, <2>2, Handling
    <3>2. from[m] <= Position(0)
      BY <1>4, <3>1 DEF InStep
    <3>3. QED
      BY <1>2, <1>4, <3>1, <3>2
  <2>3. QED
    BY <2>1, <2>2
<1>5. QED
  BY <1>2, <1>3, <1>4 DEF InStep

LEMMA InStepStep ==
  ASSUME ServicesSound, ServiceTypeOK', EvaluatorTypeOK, EvaluatorTypeOK', ReadDiscipline,
         ScoringNext, NEW m \in Model, InStep(m)
  PROVE  InStep(m)'
<1>1. ServiceTypeOK /\ 0 \in Stream /\ m \in Stream /\ Length(m) = Len(predictions[m])
  BY Streams DEF ServicesSound, Length
<1>2. /\ Position(0) \in Nat /\ Position(0)' \in Nat /\ Position(0) <= Position(0)'
      /\ cur[m] \in Nat /\ upto[m] \in Nat /\ from[m] \in Nat \cup {Newest}
  <2>1. Position(0) \in Nat
    BY <1>1, PositionType
  <2>2. Position(0)' \in Nat
    <3>1. Length(0)' \in Nat
      BY <1>1, LengthTypeNext
    <3>2. QED
      BY <1>1, <3>1 DEF Position, EvaluatorTypeOK
  <2>3. QED
    BY <1>1, <2>1, <2>2, PositionGrows DEF EvaluatorTypeOK
<1>3. CASE UNCHANGED evaluatorVars
  <2>1. UNCHANGED <<from, loop, cur, upto, lag>>
    BY <1>3 DEF evaluatorVars
  <2>2. lost[m] \subseteq lost'[m]
    BY <1>1, StreamsKept
  <2>3. loop = "busy" => \A i \in 1..upto[m] : predictions'[m][i] = predictions[m][i]
    <3>1. loop = "busy" => upto[m] <= Len(predictions[m])
      BY <1>1 DEF ReadDiscipline
    <3>2. Len(predictions[m]) \in Nat
      BY <1>1 DEF ServiceTypeOK
    <3>3. QED
      BY <1>1, <1>2, <3>1, <3>2, StreamsKept
  <2>4. QED
    BY <1>2, <2>1, <2>2, <2>3 DEF InStep
<1>4. CASE xread \/ Wake
  BY <1>2, <1>4, InStepRead
<1>5. CASE Rest /\ (from' = from \/ from' = [r \in Stream |-> Newest]) /\ lost' = lost
  BY <1>1, <1>2, <1>5 DEF Rest, InStep
<1>6. CASE TimesOut \/ AnswerHandled \/ EvaluationFails \/ EvaluatorRestarts
  BY <1>5, <1>6 DEF TimesOut, AnswerHandled, EvaluationFails, EvaluatorRestarts, inferenceVars,
                    scored
<1>7. CASE _evaluate_telemetry \/ \E n \in Model : _record_prediction(n)
  BY <1>2, <1>7, Streams, InStepHandled DEF _evaluate_telemetry, _record_prediction, inferenceVars
<1>8. CASE \E n \in Model, e \in 1..MaxTelemetry : TimeGoesBy(n, e)
  <2>1. UNCHANGED <<predictions, lost, from, loop, cur, upto, lag>>
    BY <1>8 DEF TimeGoesBy, position, inferenceVars
  <2>2. QED
    BY <1>2, <2>1 DEF InStep
<1>9. QED
  BY <1>3, <1>4, <1>6, <1>7, <1>8 DEF ScoringNext, Evaluates

LEMMA JoinStep ==
  ASSUME ServicesSound, ServiceTypeOK', EvaluatorTypeOK, EvaluatorTypeOK', ReadDiscipline,
         JoinDiscipline, ScoringNext
  PROVE  JoinDiscipline'
<1>1. ServiceTypeOK /\ 0 \in Stream
  BY Streams DEF ServicesSound
<1>2. ASSUME NEW m \in Model PROVE InStep(m)'
  BY <1>2, InStepStep DEF JoinDiscipline, InStep
<1>3. ASSUME NEW m \in Model, lag' <= MaxRead \/ lost'[m] = {}, NEW e \in kept'[m]
      PROVE  e <= Position(0)'
  <2>1. lag <= MaxRead \/ lost[m] = {}
    <3>1. lag \in Nat /\ lag' \in Nat /\ lag <= lag' /\ MaxRead \in Nat
      BY <1>1, LagGrows, EvaluationParameters DEF EvaluationParameters, EvaluatorTypeOK
    <3>2. QED
      BY <1>1, <1>3, <3>1, StreamsKept
  <2>2. /\ Position(0) \in Nat /\ Position(0) <= Position(0)' /\ Position(0)' \in Nat
        /\ e \in 1..MaxTelemetry
    <3>1. Length(0)' \in Nat
      BY <1>1, LengthTypeNext
    <3>2. QED
      BY <1>1, <3>1, PositionType, PositionGrows DEF Position, EvaluatorTypeOK
  <2>3. CASE e \in kept[m]
    BY <2>1, <2>2, <2>3 DEF JoinDiscipline
  <2>4. CASE Turn(m) /\ e = predictions[m][cur[m] + 1]
    <3>1. /\ cur[m] + 1 \in 1..upto[m] /\ cur[m] \in Nat /\ loop = "busy"
          /\ cur[0] = upto[0] /\ Position(0) = cur[0]
      <4>1. /\ cur[m] \in Nat /\ upto[m] \in Nat /\ m \in Stream
        BY Streams DEF EvaluatorTypeOK
      <4>2. cur[m] + 1 <= upto[m] /\ cur[0] = upto[0] /\ loop = "busy"
        BY <1>1, <2>4, <4>1, Handling
      <4>3. Position(0) = cur[0]
        BY <1>1, <4>2, PositionType
      <4>4. QED
        BY <4>1, <4>2, <4>3
    <3>2. e <= upto[0]
      BY <2>1, <2>4, <3>1 DEF JoinDiscipline
    <3>3. QED
      BY <2>2, <3>1, <3>2
  <2>5. QED
    BY <1>1, <2>3, <2>4, KeptStep
<1>4. QED
  BY <1>2, <1>3 DEF JoinDiscipline, InStep

LEMMA VainStep ==
  ASSUME ServicesSound, EvaluatorTypeOK, EvaluatorTypeOK', ReadDiscipline, JoinDiscipline,
         EvaluatesInVain, ScoringNext
  PROVE  EvaluatesInVain'
<1> SUFFICES ASSUME NEW m \in Model, lag' <= MaxRead \/ lost'[m] = {}, NEW e \in 1..MaxTelemetry
             PROVE  samples'[m][e] = 0
  BY DEF EvaluatesInVain
<1>1. ServiceTypeOK /\ 0 \in Stream
  BY Streams DEF ServicesSound
<1>2. lag <= MaxRead \/ lost[m] = {}
  <2>1. lag \in Nat /\ lag' \in Nat /\ lag <= lag' /\ MaxRead \in Nat
    BY <1>1, LagGrows, EvaluationParameters DEF EvaluationParameters, EvaluatorTypeOK
  <2>2. QED
    BY <1>1, <2>1, StreamsKept
<1>3. samples[m][e] = 0
  BY <1>2 DEF EvaluatesInVain
<1>4. ~(e = Position(0) + 1 /\ e \in kept[m])
  <2>1. Position(0) \in Nat
    BY <1>1, PositionType
  <2>2. e \in kept[m] => e <= Position(0)
    BY <1>2 DEF JoinDiscipline
  <2>3. QED
    BY <2>1, <2>2
<1>5. QED
  BY <1>1, <1>3, <1>4, SampleStep

-----------------------------------------------------------------------------
\* The inductive invariant.

EvaluationSound ==
  /\ ServicesSound /\ EvaluatorTypeOK /\ ReadDiscipline
  /\ OnceDiscipline /\ SampledOnce /\ JoinDiscipline /\ EvaluatesInVain

LEMMA EvaluationSoundInit == ScoringInit => EvaluationSound
BY ServicesInit, EvaluatorInitially DEF ScoringInit, EvaluationSound

LEMMA EvaluationSoundStep == EvaluationSound /\ [ScoringNext]_scoringVars => EvaluationSound'
<1> SUFFICES ASSUME EvaluationSound, [ScoringNext]_scoringVars PROVE EvaluationSound'
  OBVIOUS
<1>1. /\ ServicesSound /\ ServiceTypeOK /\ EvaluatorTypeOK /\ ReadDiscipline
      /\ OnceDiscipline /\ SampledOnce /\ JoinDiscipline /\ EvaluatesInVain
  BY DEF EvaluationSound, ServicesSound
<1>2. CASE ScoringNext
  <2>1. ServicesSound'
    BY <1>1, <1>2, WhoSteps, ServicesStep, ServicesRest
  <2>2. ServiceTypeOK'
    BY <2>1 DEF ServicesSound
  <2>3. EvaluatorTypeOK'
    BY <1>1, <1>2, EvaluatorTypeStep
  <2>4. ReadDiscipline'
    BY <1>1, <1>2, <2>2, <2>3, ReadStep
  <2>5. OnceDiscipline' /\ SampledOnce'
    BY <1>1, <1>2, <2>2, <2>3, OnceStep
  <2>6. JoinDiscipline' /\ EvaluatesInVain'
    BY <1>1, <1>2, <2>2, <2>3, JoinStep, VainStep
  <2>7. QED
    BY <2>1, <2>3, <2>4, <2>5, <2>6 DEF EvaluationSound
<1>3. CASE UNCHANGED scoringVars
  <2>1. UNCHANGED <<inferenceVars, evaluatorVars>>
    BY <1>3 DEF scoringVars
  <2>2. ServicesSound'
    <3>1. UNCHANGED <<scored, flags>> /\ scoringFaults' \in 0..MaxScoringFaults
      BY <1>1, <2>1 DEF inferenceVars, scored, flags, ServiceTypeOK
    <3>2. QED
      BY <1>1, <3>1, ServicesRest
  <2>3. UNCHANGED <<telemetry, predictions, lost>> /\ UNCHANGED <<from, loop, cur, upto>>
        /\ UNCHANGED <<kept, stale, samples, lag>>
    BY <2>1 DEF inferenceVars, evaluatorVars
  <2>4. EvaluatorTypeOK'
    BY <1>1, <2>3 DEF EvaluatorTypeOK
  <2>5. ReadDiscipline'
    BY <1>1, <2>3 DEF ReadDiscipline, Length
  <2>6. OnceDiscipline' /\ SampledOnce'
    BY <1>1, <2>3 DEF OnceDiscipline, SampledOnce, Position, Length
  <2>7. JoinDiscipline' /\ EvaluatesInVain'
    BY <1>1, <2>3 DEF JoinDiscipline, EvaluatesInVain, Position, Length
  <2>8. QED
    BY <2>2, <2>4, <2>5, <2>6, <2>7 DEF EvaluationSound
<1>4. QED
  BY <1>2, <1>3

LEMMA EvaluationIsSound == ScoringSpec => []EvaluationSound
BY EvaluationSoundInit, EvaluationSoundStep, PTL DEF ScoringSpec

\* Services and evaluator keep their types: no event is delivered that was not published,
\* and the positions of the evaluator stay in its streams.
THEOREM ScoringTypesHold == ScoringSpec => [](ServiceTypeOK /\ EvaluatorTypeOK)
<1>1. EvaluationSound => ServiceTypeOK /\ EvaluatorTypeOK
  BY DEF EvaluationSound, ServicesSound
<1>2. QED
  BY <1>1, EvaluationIsSound, PTL

\* Whatever fails and whenever a service or the evaluator is started again: predictions
\* come in the order of the telemetry and once, no prediction is counted twice, and none
\* is counted unless reads fell behind and the model's service lost events.
THEOREM ScoresHold == ScoringSpec => []ScoresAreSound
<1>1. EvaluationSound => ScoresAreSound
  BY DEF EvaluationSound, ServicesSound, ScoresAreSound
<1>2. QED
  BY <1>1, EvaluationIsSound, PTL

\* A service that has lost nothing has scored everything up to the event in hand: flags,
\* restarts between batches and the order of the services' steps leave no gap.
THEOREM NothingIsSkipped == ScoringSpec => []NothingSkipped
<1>1. EvaluationSound => NothingSkipped
  BY DEF EvaluationSound, ServicesSound
<1>2. QED
  BY <1>1, EvaluationIsSound, PTL

================================================================================
