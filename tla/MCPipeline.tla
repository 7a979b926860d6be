------------------------------ MODULE MCPipeline ------------------------------
(* From the faults to the models, on small instances: the engine that degrades    *)
(* the telemetry, the services that score it with the evaluator behind them, the  *)
(* intake of requests for a retraining, and the files of a model with the service *)
(* that runs it.  They share no state, so a behaviour is about one of them; the   *)
(* others rest in a fixed initial state.                                          *)
EXTENDS HotReload, RetrainingIntake, OnlineEvaluation, FaultEngine

VARIABLE part  \* what this behaviour is about

pipelineVars == <<part, reloadVars, intakeVars, scoringVars, faultVars>>

During(p, A) == part = p /\ A

\* Whether schedules need an approval makes no difference where there are none.
PipelineInit ==
  /\ part \in {"files", "intake", "scores", "faults"}
  /\ ReloadInit /\ IntakeInit /\ ScoringInit /\ FaultInit
  /\ part # "files" => ~direct
  /\ part # "intake" => trigger = [t \in Task |-> "DRIFT"]
  /\ (\A t \in Task : trigger[t] = "DRIFT") => gated

PipelineNext ==
  /\ UNCHANGED part
  /\ \/ During("files", ReloadNext) /\ UNCHANGED <<intakeVars, scoringVars, faultVars>>
     \/ During("intake", IntakeNext) /\ UNCHANGED <<reloadVars, scoringVars, faultVars>>
     \/ During("scores", ScoringNext) /\ UNCHANGED <<reloadVars, intakeVars, faultVars>>
     \/ During("faults", FaultNext) /\ UNCHANGED <<reloadVars, intakeVars, scoringVars>>

\* ReloadFairness, IntakeFairness, ScoringFairness and FaultFairness, each for its part.
PipelineFairness ==
  /\ WF_reloadVars(During("files", PromotionSteps /\ UNCHANGED serviceVars))
  /\ WF_reloadVars(During("files", ServiceSteps))
  /\ WF_intakeVars(During("intake", TaskSteps(Monitor)))
  /\ \A m \in Model :
       WF_scoringVars(During("scores", ~Woken /\ Works(m) /\ UNCHANGED evaluatorVars))
  /\ WF_scoringVars(During("scores", Evaluates))
  /\ \A m \in Model :
       WF_scoringVars(During("scores", \E e \in 1..MaxTelemetry : TimeGoesBy(m, e)))
  /\ WF_faultVars(During("faults", EngineWorks))

PipelineSpec == PipelineInit /\ [][PipelineNext]_pipelineVars /\ PipelineFairness

\* The types of all parts.
PipelineTypeOK == 
  ReloadTypeOK /\ IntakeTypeOK /\ ServiceTypeOK /\ EvaluatorTypeOK /\ FaultTypeOK

\* The service comes to run the model that is current, drift that stays comes to a
\* request, every event to its scores, every prediction out of the evaluator, and every
\* fault to its end.
PipelineProgresses ==
  /\ ServesCurrent
  /\ part = "intake" => DriftIsAnswered
  /\ TelemetryIsScored /\ PendingIsSettled /\ FaultsEnd

================================================================================
