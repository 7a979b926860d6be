------------------------------- MODULE HotReload -------------------------------
(***************************************************************************)
(* How an inference service comes to run another model: it polls the       *)
(* current directory of its model, compares what it finds with what it has *)
(* loaded, and loads again (shared/model_hot_reload.py, the loaders and    *)
(* _hot_reload_models of the three services), while ModelPromotion         *)
(* replaces the files one after the other.                                 *)
(*                                                                         *)
(* The version, the two modification times and the bytes are four reads.   *)
(* Bytes that a copy has not completed do not load.  congestion-detector   *)
(* then keeps what it runs; sla-assurance and slice-classifier go on to    *)
(* what the registry names, and do not know the times of what they find.   *)
(***************************************************************************)
EXTENDS ModelPromotion

VARIABLES
  bundle,  \* what the service runs; bytes 0 is the heuristic it falls back to, and
           \* the modification times are 0 when they are not known
  reader   \* the snapshot in progress, and whether it is for a load

serviceVars == <<bundle, reader>>
reloadVars == <<promotionVars, serviceVars>>

\* The file of a bundle is the current one, another one, or none.
Bundles ==
  [bytes : 0..MaxTrainings, version : 0..MaxTrainings, model_mtime : Nat,
   metadata_mtime : Nat, source : {"current", "other", "heuristic"}]

Readers ==
  [at : {"sleep", "version", "model", "metadata", "bytes", "registry", "again", "other"},
   loading : BOOLEAN,
   version : 0..MaxTrainings, model_mtime : Nat, metadata_mtime : Nat]

Heuristic == [bytes |-> 0, version |-> 0, model_mtime |-> 0, metadata_mtime |-> 0,
              source |-> "heuristic"]

\* congestion_5g, the model whose trainings promote it themselves, is that of
\* congestion-detector; the other two services look on when a load fails.
FallsBack == ~direct

\* A service that starts loads what there is.
Starting == [at |-> "version", loading |-> TRUE, version |-> 0, model_mtime |-> 0,
             metadata_mtime |-> 0]
Asleep == [at |-> "sleep", loading |-> FALSE, version |-> 0, model_mtime |-> 0,
           metadata_mtime |-> 0]

ReloadInit == PromotionInit /\ bundle = Heuristic /\ reader = Starting

\* A poll, and a load, begin with the version, when there is a promoted model at all.
ReadVersion ==
  /\ reader.at \in {"sleep", "version"}
  /\ reader' = IF current.bytes # 0 /\ metadata.version # 0
                 THEN [reader EXCEPT !.at = "model", !.version = metadata.version]
               ELSE IF reader.loading /\ FallsBack THEN [reader EXCEPT !.at = "registry"]
               ELSE Asleep
  /\ UNCHANGED <<promotionVars, bundle>>

StatModel ==
  /\ reader.at = "model"
  /\ reader' = [reader EXCEPT !.at = "metadata", !.model_mtime = current.mtime]
  /\ UNCHANGED <<promotionVars, bundle>>

\* Mutant: the modification times are not compared.
should_reloadMutant(version, model_mtime, metadata_mtime) ==
  bundle.source # "current" \/ version # bundle.version

\* Mutant: the version is not compared.
IgnoresVersionMutant(version, model_mtime, metadata_mtime) ==
  \/ bundle.source # "current"
  \/ bundle.metadata_mtime \notin {0, metadata_mtime}
  \/ bundle.model_mtime \notin {0, model_mtime}

\* should_reload_promoted_model: the service runs another file, or something differs.
\* Times that are not known differ from none.
should_reload(version, model_mtime, metadata_mtime) ==
  \/ bundle.source # "current"
  \/ version # bundle.version
  \/ bundle.metadata_mtime \notin {0, metadata_mtime}
  \/ bundle.model_mtime \notin {0, model_mtime}

\* The last read of a snapshot; a load takes one of its own.
StatMetadata ==
  /\ reader.at = "metadata"
  /\ reader' =
       IF reader.loading
         THEN [reader EXCEPT !.at = "bytes", !.metadata_mtime = metadata.mtime]
       ELSE IF should_reload(reader.version, reader.model_mtime, metadata.mtime)
         THEN Starting
       ELSE Asleep
  /\ UNCHANGED <<promotionVars, bundle>>

\* What was loaded replaces what runs when it differs by name or time; the bytes are
\* not compared.
Runs(loaded) ==
  bundle' = IF loaded = [bundle EXCEPT !.bytes = loaded.bytes] THEN bundle ELSE loaded

\* A session of the bytes as they are now goes with the snapshot taken before.
Load ==
  /\ reader.at = "bytes"
  /\ IF current.bytes = Torn
       THEN /\ reader' = IF FallsBack THEN [reader EXCEPT !.at = "registry"] ELSE Asleep
            /\ UNCHANGED bundle
       ELSE /\ reader' = Asleep
            /\ Runs([bytes |-> current.bytes, version |-> reader.version,
                     model_mtime |-> reader.model_mtime,
                     metadata_mtime |-> reader.metadata_mtime, source |-> "current"])
  /\ UNCHANGED promotionVars

\* The entry in production names the current file first, if it was promoted.
ReadRegistry ==
  /\ reader.at = "registry"
  /\ reader' = [reader EXCEPT !.at = IF best \in ready THEN "again" ELSE "other",
                              !.version = best]
  /\ UNCHANGED <<promotionVars, bundle>>

\* The current file again, under the name the registry has for it.
LoadAgain ==
  /\ reader.at = "again"
  /\ IF current.bytes \notin Version
       THEN reader' = [reader EXCEPT !.at = "other"] /\ UNCHANGED bundle
       ELSE /\ reader' = Asleep
            /\ Runs([bytes |-> current.bytes, version |-> reader.version, model_mtime |-> 0,
                     metadata_mtime |-> 0, source |-> "current"])
  /\ UNCHANGED promotionVars

\* An export, a local artifact, a configured path or one that MLflow names, of
\* whatever training they are; or nothing, and the service keeps what it runs.
LoadOther ==
  /\ reader.at = "other"
  /\ reader' = Asleep
  /\ \/ UNCHANGED bundle
     \/ \E v \in 1..trained :
          Runs([bytes |-> v, version |-> reader.version, model_mtime |-> 0,
                metadata_mtime |-> 0, source |-> "other"])
  /\ UNCHANGED promotionVars

ServiceRestarts ==
  /\ promotionFaults < MaxPromotionFaults /\ promotionFaults' = promotionFaults + 1
  /\ bundle' = Heuristic /\ reader' = Starting
  /\ UNCHANGED <<registryVars, exported, requested, archive, current, metadata, promoter,
                 clock>>

ServiceSteps ==
  \/ ReadVersion \/ StatModel \/ StatMetadata \/ Load
  \/ ReadRegistry \/ LoadAgain \/ LoadOther

ReloadNext ==
  \/ PromotionNext /\ UNCHANGED serviceVars
  \/ ServiceSteps \/ ServiceRestarts

\* A training that runs goes on, and a service keeps polling.
ReloadFairness ==
  WF_reloadVars(PromotionSteps /\ UNCHANGED serviceVars) /\ WF_reloadVars(ServiceSteps)

ReloadSpec == ReloadInit /\ [][ReloadNext]_reloadVars /\ ReloadFairness

-----------------------------------------------------------------------------

ReloadTypeOK ==
  /\ PromotionTypeOK
  /\ bundle \in Bundles
  /\ reader \in Readers

\* A training that promotes its own export has always had one.
ExportsAreNew == direct => \A v \in 1..trained : exports[v] = "success"

\* Whenever the comparison would find nothing new, the service runs the bytes that are
\* in the current directory under the version that is named there: no order of the
\* reads of a load and the writes of a promotion makes it keep one with the other's.
\* It needs a service that knows the times of its files, as one that loaded the
\* current file at the second try does not; and for congestion_5g that no training
\* took an old export for its own.
NothingNewIsSame ==
  /\ ExportsAreNew
  /\ bundle.model_mtime # 0
  /\ ~should_reload(metadata.version, current.mtime, metadata.mtime)
  => bundle.bytes = current.bytes /\ bundle.version = metadata.version

\* A service ends up with the version that is in the current directory, unless a
\* training has died over it and left no model there; then it keeps what it has.  It
\* ends up with its bytes too if it knows the times of its files.
ServesCurrent ==
  <>[](ExportsAreNew /\ current.bytes \in Version /\ metadata.version # 0 =>
         /\ bundle.source = "current" /\ bundle.version = metadata.version
         /\ bundle.model_mtime # 0 => bundle.bytes = current.bytes)

================================================================================
