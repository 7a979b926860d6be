--------------------------- MODULE OnlineEvaluation ---------------------------
(***************************************************************************)
(* online-evaluator (main.py) behind the inference services: it reads the  *)
(* telemetry and the predictions, keeps each prediction until the          *)
(* telemetry event it is about goes by, and then counts it as a sample of  *)
(* its model.  One XREAD covers all streams and answers in their order,    *)
(* telemetry first; a stream is read from "$", its end at the moment of    *)
(* the call, until a first message of it has been handled.                 *)
(*                                                                         *)
(* What a sample says (the truth derived from telemetry and faults, the    *)
(* metrics of the window) is left out.                                     *)
(***************************************************************************)
EXTENDS InferenceService, Integers

CONSTANTS
  MaxRead,  \* EVALUATION_READ_COUNT, for each stream
  Newest    \* the position "$"

ASSUME EvaluationParameters == MaxRead \in Nat \ {0} /\ Newest \notin Nat

Stream == {0} \cup Model  \* 0: the telemetry; the others: their predictions

VARIABLES
  from,     \* the position from which each stream is read next
  loop,     \* the loop is before a read, blocked in one, or busy with its answer
  cur,      \* the answer: what has been handled of each stream,
  upto,     \*   and how far it reaches
  kept,     \* pending_predictions of each model: they wait for their telemetry
  stale,    \* and those of them that have waited for longer than the TTL
  samples,  \* history: how often an event was counted for a model
  lag       \* history: the most telemetry a read has found unread

evaluatorVars == <<from, loop, cur, upto, kept, stale, samples, lag>>
scoringVars == <<inferenceVars, evaluatorVars>>

Nothing == [s \in Stream |-> 0]
NonePending == [m \in Model |-> {}]

EvaluatorInit ==
  /\ from = [s \in Stream |-> Newest]
  /\ loop = "read" /\ cur = Nothing /\ upto = Nothing
  /\ kept = NonePending /\ stale = NonePending
  /\ samples = [m \in Model |-> [e \in 1..MaxTelemetry |-> 0]]
  /\ lag = 0

ScoringInit == ServiceInit /\ EvaluatorInit

Length(s) == IF s = 0 THEN telemetry ELSE Len(predictions[s])

position == <<from, cur, upto>>
waiting == <<kept, stale>>

-----------------------------------------------------------------------------
\* The answer of XREAD to what lies behind start.
Answer(start) ==
  /\ cur' = start
  /\ upto' = [s \in Stream |->
       IF Length(s) <= start[s] + MaxRead THEN Length(s) ELSE start[s] + MaxRead]
  /\ loop' = IF upto' = start THEN "blocked" ELSE "busy"
  /\ lag' = IF telemetry - start[0] <= lag THEN lag ELSE telemetry - start[0]

xread ==
  /\ loop = "read"
  /\ Answer([s \in Stream |-> IF from[s] = Newest THEN Length(s) ELSE from[s]])
  /\ UNCHANGED <<inferenceVars, from, waiting, samples>>

\* A reader that is blocked is answered with the first message, before any other command.
Woken == loop = "blocked" /\ \E s \in Stream : Length(s) > cur[s]

Wake == Woken /\ Answer(cur) /\ UNCHANGED <<inferenceVars, from, waiting, samples>>

\* Mutant: nothing is ever too old.
ExpiredMutant == [m \in Model |-> {}]

Expired == stale

_cleanup_pending ==
  /\ kept' = [m \in Model |-> kept[m] \ Expired[m]]
  /\ stale' = [m \in Model |-> stale[m] \ Expired[m]]

Rest == loop' = "read" /\ cur' = Nothing /\ upto' = Nothing

TimesOut ==
  /\ loop = "blocked" /\ ~Woken /\ Rest /\ _cleanup_pending
  /\ UNCHANGED <<inferenceVars, from, samples, lag>>

\* Mutant: the predictions of an answer are handled before its telemetry.
TurnMutant(s) ==
  loop = "busy" /\ cur[s] < upto[s] /\ \A r \in Stream : r > s => cur[r] = upto[r]

\* The streams of an answer are handled one after the other.
Turn(s) ==
  loop = "busy" /\ cur[s] < upto[s] /\ \A r \in Stream : r < s => cur[r] = upto[r]

Handled(s) ==
  /\ cur' = [cur EXCEPT ![s] = @ + 1]
  /\ from' = [from EXCEPT ![s] = cur[s] + 1]
  /\ UNCHANGED <<loop, upto, lag>>

_record_prediction(m) ==
  /\ Turn(m) /\ Handled(m)
  /\ LET e == predictions[m][cur[m] + 1] IN
     /\ kept' = [kept EXCEPT ![m] = @ \cup {e}]
     /\ stale' = [stale EXCEPT ![m] = @ \ {e}]
  /\ UNCHANGED <<inferenceVars, samples>>

\* Mutant: what is counted stays pending.
PopMutant(hit, e) ==
  /\ samples' = [m \in Model |->
       IF m \in hit THEN [samples[m] EXCEPT ![e] = @ + 1] ELSE samples[m]]
  /\ UNCHANGED waiting

\* Of the models in hit, the predictions about e are taken out and counted.
Pop(hit, e) ==
  /\ samples' = [m \in Model |->
       IF m \in hit THEN [samples[m] EXCEPT ![e] = @ + 1] ELSE samples[m]]
  /\ kept' = [m \in Model |-> IF m \in hit THEN kept[m] \ {e} ELSE kept[m]]
  /\ stale' = [m \in Model |-> IF m \in hit THEN stale[m] \ {e} ELSE stale[m]]

Awaiting(e) == {m \in Model : e \in kept[m]}

_evaluate_telemetry ==
  /\ Turn(0) /\ Handled(0)
  /\ Pop(Awaiting(cur[0] + 1), cur[0] + 1)
  /\ UNCHANGED inferenceVars

\* The metrics of a model cannot be written: it has been counted, and those before it;
\* the message, and the rest of the answer, are read again.
EvaluationFails ==
  /\ Turn(0) /\ ScoringFault
  /\ \E f \in Awaiting(cur[0] + 1) :
       Pop({m \in Awaiting(cur[0] + 1) : m <= f}, cur[0] + 1)
  /\ Rest
  /\ UNCHANGED <<scored, flags, from, lag>>

AnswerHandled ==
  /\ loop = "busy" /\ cur = upto /\ Rest /\ _cleanup_pending
  /\ UNCHANGED <<inferenceVars, from, samples, lag>>

EvaluatorRestarts ==
  /\ ScoringFault /\ Rest
  /\ from' = [s \in Stream |-> Newest]
  /\ kept' = NonePending /\ stale' = NonePending
  /\ UNCHANGED <<scored, flags, samples, lag>>

\* A prediction gets older than the TTL.
TimeGoesBy(m, e) ==
  /\ e \in kept[m] \ stale[m] /\ stale' = [stale EXCEPT ![m] = @ \cup {e}]
  /\ UNCHANGED <<inferenceVars, position, loop, kept, samples, lag>>

Evaluates ==
  \/ xread \/ Wake \/ TimesOut \/ AnswerHandled \/ _evaluate_telemetry
  \/ \E m \in Model : _record_prediction(m)

ScoringNext ==
  \/ ~Woken /\ ServiceNext /\ UNCHANGED evaluatorVars
  \/ Evaluates \/ EvaluationFails \/ EvaluatorRestarts
  \/ \E m \in Model, e \in 1..MaxTelemetry : TimeGoesBy(m, e)

\* Services and evaluator are loops that go on, and time does.  Nobody has to publish
\* telemetry, to pause a service or to resume it.
ScoringFairness ==
  /\ \A m \in Model : WF_scoringVars(~Woken /\ Works(m) /\ UNCHANGED evaluatorVars)
  /\ WF_scoringVars(Evaluates)
  /\ \A m \in Model : WF_scoringVars(\E e \in 1..MaxTelemetry : TimeGoesBy(m, e))

ScoringSpec == ScoringInit /\ [][ScoringNext]_scoringVars /\ ScoringFairness

-----------------------------------------------------------------------------

EvaluatorTypeOK ==
  /\ from \in [Stream -> Nat \cup {Newest}]
  /\ loop \in {"read", "blocked", "busy"}
  /\ cur \in [Stream -> Nat] /\ upto \in [Stream -> Nat]
  /\ kept \in [Model -> SUBSET (1..MaxTelemetry)] /\ stale \in [Model -> SUBSET (1..MaxTelemetry)]
  /\ \A m \in Model : stale[m] \subseteq kept[m]
  /\ samples \in [Model -> [1..MaxTelemetry -> Nat]]
  /\ lag \in Nat

\* No event is counted twice for a model, although one whose metrics could not be
\* written is read again for the models behind it.
SampledOnce == \A m \in Model, e \in 1..MaxTelemetry : samples[m][e] <= 1

\* The predictions of a model are counted for nothing but its faults: only when reads
\* have left telemetry behind and the service has lost events does a prediction come
\* before the telemetry it is about.  Else the evaluation has no sample at all.
EvaluatesInVain ==
  \A m \in Model : (lag <= MaxRead \/ lost[m] = {}) =>
    \A e \in 1..MaxTelemetry : samples[m][e] = 0

\* What the scores and their evaluation are worth, together.
ScoresAreSound == PredictedInOrder /\ SampledOnce /\ EvaluatesInVain

\* No prediction is kept for ever: its telemetry goes by or its time runs out.  (The
\* telemetry of the model ends, so in the end none is left.)
PendingIsSettled == []<>(kept = NonePending)

================================================================================
