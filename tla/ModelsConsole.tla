----------------------------- MODULE ModelsConsole -----------------------------
(***************************************************************************)
(* The page "Models" (MlopsModelsPage.tsx): a list of models, the details  *)
(* of the one that is selected, and the operations promote, rollback and   *)
(* validate on it.  Nothing here is polled.  Every model has a cache entry *)
(* of its own, which outlives its selection; only the entry that is shown  *)
(* is fetched again when the entries are invalidated.                      *)
(*                                                                         *)
(* What the details say of a model, its version, its run and its metrics,  *)
(* is the number of times the model was changed on the server.             *)
(***************************************************************************)
EXTENDS Naturals, QueryCache

CONSTANTS
  Model,       \* deployment names
  NoModel,     \* nothing selected, no dialog, no call
  MaxModelOps  \* bound: calls of the page, changes elsewhere and selections

ASSUME ModelsParameters == NoModel \notin Model /\ NoData \notin Nat /\ MaxModelOps \in Nat

VARIABLES
  models,         \* the server: how often each model was changed
  modelList,      \* cache entry ["mlops", "models"]
  modelDetails,   \* cache entries ["mlops", "models", m]
  modelStale,     \* the entries that are marked as invalidated
  modelSelected,  \* selected
  modelAction,    \* action: the open dialog
  modelCalls,     \* promoteMutation and rollbackMutation
  modelOps,       \* operations so far
  modelReported   \* history: version of the last operation reported for the selected model

modelsVars == <<models, modelList, modelDetails, modelStale, modelSelected, modelAction,
                modelCalls, modelOps, modelReported>>

--------------------------------------------------------------------------------
ModelMutation == {"promote", "rollback"}

ModelDialog == ModelMutation \cup {"validate", "none"}

ModelCallSet == [id : Model, stage : {"sent", "done", "refreshing"}, at : Nat]

\* GET /mlops/models reads the versions of all models, GET /mlops/models/m that of m.
ModelListAnswers == [Model -> Nat]

\* Without a list, or after a fetch of it failed, the page shows nothing else.
ModelsShown == modelList.data # NoData /\ ~modelList.error

\* The right half of the page.  An error of the details is not shown.
DetailsBody ==
  CASE modelSelected = NoModel                      -> "select a model"
    [] modelSelected # NoModel
       /\ modelDetails[modelSelected].data = NoData -> "loading"
    [] OTHER                                        -> "details"

\* The buttons of the details; a mutation disables its button until it has settled.
ModelButtons ==
  IF DetailsBody # "details" THEN {}
  ELSE {"validate"} \cup {op \in ModelMutation : modelCalls[op] = NoModel}

--------------------------------------------------------------------------------
ModelsInit ==
  /\ models = [m \in Model |-> 0]
  /\ modelList = MountedEntry
  /\ modelDetails = [m \in Model |-> Failed([MountedEntry EXCEPT !.error = FALSE])]
  /\ modelStale = {}
  /\ modelSelected = NoModel
  /\ modelAction = "none"
  /\ modelCalls = [op \in ModelMutation |-> NoModel]
  /\ modelOps = 0 /\ modelReported = 0

ModelOp == modelOps < MaxModelOps /\ modelOps' = modelOps + 1

\* Training jobs and other operators promote models as well.
ModelMoves ==
  /\ ModelOp
  /\ \E m \in Model : models' = [models EXCEPT ![m] = @ + 1]
  /\ UNCHANGED <<modelList, modelDetails, modelStale, modelSelected, modelAction,
                 modelCalls, modelReported>>

--------------------------------------------------------------------------------
(* The fetches. *)

ListFetch(e) ==
  /\ modelList' = e
  /\ UNCHANGED <<models, modelDetails, modelStale, modelSelected, modelAction, modelCalls,
                 modelOps, modelReported>>

RefreshModels == ModelsShown /\ modelAction = "none" /\ ListFetch(Invalidated(modelList))

ModelsAnswered == Waiting(modelList) /\ ListFetch(Answered(modelList, models))

ModelsLand == Landing(modelList) /\ ListFetch(Landed(modelList))

ModelsFail == Fetching(modelList) /\ ListFetch(Failed(modelList))

DetailFetch(m, e) ==
  /\ modelDetails' = [modelDetails EXCEPT ![m] = e]
  /\ UNCHANGED <<models, modelList, modelSelected, modelAction, modelCalls, modelOps,
                 modelReported>>

RefreshDetails ==
  /\ ModelsShown /\ modelAction = "none" /\ DetailsBody = "details"
  /\ DetailFetch(modelSelected, Invalidated(modelDetails[modelSelected]))
  /\ UNCHANGED modelStale

DetailsAnswered ==
  \E m \in Model :
    /\ Waiting(modelDetails[m])
    /\ DetailFetch(m, Answered(modelDetails[m], models[m]))
    /\ UNCHANGED modelStale

DetailsLand ==
  \E m \in Model :
    /\ Landing(modelDetails[m])
    /\ DetailFetch(m, Landed(modelDetails[m]))
    /\ modelStale' = modelStale \ {m}

DetailsFail ==
  \E m \in Model :
    /\ Fetching(modelDetails[m])
    /\ DetailFetch(m, Failed(modelDetails[m]))
    /\ UNCHANGED modelStale

\* A model is selected.  Its entry is fetched when there is none, when it was
\* invalidated, and when it is older than 30 seconds.
SelectModel ==
  /\ ModelsShown /\ modelAction = "none" /\ ModelOp
  /\ \E m \in Model \ {modelSelected} :
       /\ modelSelected' = m
       /\ modelDetails' \in {[modelDetails EXCEPT ![m] = Asked(@)]} \cup
            (IF modelDetails[m].data = NoData \/ m \in modelStale THEN {} ELSE {modelDetails})
  /\ modelReported' = 0
  /\ UNCHANGED <<models, modelList, modelStale, modelAction, modelCalls>>

--------------------------------------------------------------------------------
(* The operations. *)

OpenModelDialog ==
  /\ ModelsShown /\ modelAction = "none" /\ modelOps < MaxModelOps
  /\ modelAction' \in ModelButtons
  /\ UNCHANGED <<models, modelList, modelDetails, modelStale, modelSelected, modelCalls,
                 modelOps, modelReported>>

\* onCancel of the dialogs.
CancelModelDialog ==
  /\ ModelsShown /\ modelAction # "none"
  /\ modelAction' = "none"
  /\ UNCHANGED <<models, modelList, modelDetails, modelStale, modelSelected, modelCalls,
                 modelOps, modelReported>>

\* onConfirm.  "Validate" sends nothing: it fetches the details again.
onConfirm ==
  /\ ModelsShown /\ modelAction # "none"
  /\ modelAction' = "none"
  /\ \/ /\ modelAction \in ModelMutation /\ ModelOp
        /\ modelCalls' = [modelCalls EXCEPT ![modelAction] =
                            [id |-> modelSelected, stage |-> "sent", at |-> 0]]
        /\ UNCHANGED <<modelDetails, modelStale>>
     \/ /\ modelAction = "validate"
        /\ modelDetails' = [modelDetails EXCEPT ![modelSelected] = Invalidated(@)]
        /\ modelStale' = modelStale \cup {modelSelected}
        /\ UNCHANGED <<modelCalls, modelOps>>
  /\ UNCHANGED <<models, modelList, modelSelected, modelReported>>

\* The server hands the operation on.  A failure of the MLOps API is an answer like
\* any other: the page reports it and goes on as after a success.
ServeModelCall ==
  \E op \in ModelMutation :
    /\ modelCalls[op] # NoModel /\ modelCalls[op].stage = "sent"
    /\ LET m == modelCalls[op].id
       IN /\ models' \in {models, [models EXCEPT ![m] = @ + 1]}
          /\ modelCalls' = [modelCalls EXCEPT ![op] =
                              [@ EXCEPT !.stage = "done", !.at = models'[m]]]
    /\ UNCHANGED <<modelList, modelDetails, modelStale, modelSelected, modelAction, modelOps,
                   modelReported>>

\* What onSuccess reports is about the model of the call, the page about the selected one.
ModelReport(call) ==
  IF call.id = modelSelected THEN call.at ELSE modelReported

\* Mutant: onSuccess invalidates the list, and not the details that are shown.
ModelReturnsMutant ==
  \E op \in ModelMutation :
    /\ modelCalls[op] # NoModel /\ modelCalls[op].stage = "done"
    /\ modelCalls' = [modelCalls EXCEPT ![op].stage = "refreshing"]
    /\ modelReported' = ModelReport(modelCalls[op])
    /\ modelList' = Invalidated(modelList)
    /\ UNCHANGED <<models, modelDetails, modelStale, modelSelected, modelAction, modelOps>>

\* onSuccess: all entries are invalidated, those that are shown are fetched again.
ModelReturns ==
  \E op \in ModelMutation :
    /\ modelCalls[op] # NoModel /\ modelCalls[op].stage = "done"
    /\ modelCalls' = [modelCalls EXCEPT ![op].stage = "refreshing"]
    /\ modelReported' = ModelReport(modelCalls[op])
    /\ modelList' = Invalidated(modelList)
    /\ modelStale' = Model
    /\ modelDetails' = [m \in Model |-> IF m = modelSelected THEN Invalidated(modelDetails[m])
                                        ELSE modelDetails[m]]
    /\ UNCHANGED <<models, modelSelected, modelAction, modelOps>>

\* isPending ends with the fetches onSuccess waits for, or with their being abandoned:
\* here, some time after onSuccess.
ModelCallSettles ==
  \E op \in ModelMutation :
    /\ modelCalls[op] # NoModel /\ modelCalls[op].stage = "refreshing"
    /\ modelCalls' = [modelCalls EXCEPT ![op] = NoModel]
    /\ UNCHANGED <<models, modelList, modelDetails, modelStale, modelSelected, modelAction,
                   modelOps, modelReported>>

\* onError: refused, or no answer arrived, whether or not the server did its work.
ModelCallErrs ==
  \E op \in ModelMutation :
    /\ modelCalls[op] # NoModel /\ modelCalls[op].stage \in {"sent", "done"}
    /\ modelCalls' = [modelCalls EXCEPT ![op] = NoModel]
    /\ UNCHANGED <<models, modelList, modelDetails, modelStale, modelSelected, modelAction,
                   modelOps, modelReported>>

ModelsNext ==
  \/ ModelMoves
  \/ RefreshModels \/ ModelsAnswered \/ ModelsLand \/ ModelsFail
  \/ SelectModel \/ RefreshDetails \/ DetailsAnswered \/ DetailsLand \/ DetailsFail
  \/ OpenModelDialog \/ CancelModelDialog \/ onConfirm
  \/ ServeModelCall \/ ModelReturns \/ ModelCallSettles \/ ModelCallErrs

ModelsSpec == ModelsInit /\ [][ModelsNext]_modelsVars

--------------------------------------------------------------------------------
(* Properties. *)

ModelsTypeOK ==
  /\ models \in [Model -> Nat]
  /\ modelList \in Entries(ModelListAnswers)
  /\ modelDetails \in [Model -> Entries(Nat)]
  /\ modelStale \subseteq Model
  /\ modelSelected \in Model \cup {NoModel}
  /\ modelAction \in ModelDialog
  /\ modelCalls \in [ModelMutation -> ModelCallSet \cup {NoModel}]
  /\ modelOps \in 0..MaxModelOps /\ modelReported \in Nat

\* The details of a model are never older than the promotion or rollback the page has
\* reported for it since it was selected, unless they are being fetched or the last
\* fetch has failed: an operator does not roll back what he sees from before his own
\* promotion.
DetailsFollowReports ==
  DetailsBody = "details" /\ ~Fetching(modelDetails[modelSelected])
    /\ ~modelDetails[modelSelected].error
  => modelDetails[modelSelected].data >= modelReported

================================================================================
