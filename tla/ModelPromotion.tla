---------------------------- MODULE ModelPromotion ----------------------------
(***************************************************************************)
(* What a training does to the files of its model: models/registry.json    *)
(* and the directories under models/promoted, which the inference services *)
(* read (batch-orchestrator, models/lifecycle.py and mlops/promotion.py).  *)
(*                                                                         *)
(* After a training the registry names the best version that has passed    *)
(* the quality gate, and that version is brought into the directory        *)
(* "current": archived, validated, copied over the file that is there, and *)
(* described by metadata.json.  A copy is not atomic and keeps the         *)
(* modification time of its source; metadata.json is replaced at once.     *)
(* The training of congestion_5g then promotes its own export as well.     *)
(*                                                                         *)
(* An export can fail, and the gate looks at metrics only: a version can   *)
(* be in production without a file of its own.                             *)
(*                                                                         *)
(* Of the two formats of a model only the one the services load is         *)
(* modelled.  One training of a model runs at a time (RetrainingControl).  *)
(***************************************************************************)
EXTENDS Naturals

CONSTANTS
  MaxTrainings,    \* bound: trainings, and with them versions
  MaxPromotionFaults  \* bound: trainings that die, and restarts of the service

ASSUME PromotionParameters == MaxTrainings \in Nat /\ MaxPromotionFaults \in Nat

VARIABLES
  trained,   \* the number of trainings, which is the version of the last one
  passed,    \* versions that passed the quality gate
  best,      \* the version in production according to the registry, 0 if none
  exports,   \* how the export of a version went, as its registry entry says
  ready,     \* versions whose registry entry has the paths of its promotion
  exported,  \* models/onnx/<name>.onnx
  requested, \* models/<name>.onnx, which only a promotion by the training makes
  archive,   \* models/promoted/<name>/<version>/, by version
  current,   \* models/promoted/<name>/current/model_fp16.onnx
  metadata,  \* models/promoted/<name>/current/metadata.json
  promoter,  \* where the training is in its promotion, and of which version
  direct,    \* whether trainings of this model promote their export themselves
  clock,     \* the last modification time given to a file
  promotionFaults

promotionVars ==
  <<trained, passed, best, exports, ready, exported, requested, archive, current, metadata,
    promoter, direct, clock, promotionFaults>>

registryVars == <<trained, passed, best, exports, ready, direct>>

Version == 1..MaxTrainings
Torn == MaxTrainings + 1  \* what a copy or a failed export has written is no model

\* A failed export names the file that is there, if there is one.
Exports == {"none", "success", "failed", "missing"}

\* A file, by the version whose training made its content; 0 is no file.
NoFile == [bytes |-> 0, mtime |-> 0]
Files == [bytes : 0..Torn, mtime : Nat]

Descriptions == [version : 0..MaxTrainings, mtime : Nat]

Promoters ==
  [at : {"idle", "register", "archive", "truncate", "write", "copystat", "describe",
         "record", "resolve"},
   version : 0..MaxTrainings, own : BOOLEAN]

Now == clock + 1

Rests == [at |-> "idle", version |-> 0, own |-> FALSE]

PromotionInit ==
  /\ trained = 0 /\ passed = {} /\ best = 0 /\ ready = {}
  /\ exports = [v \in Version |-> "none"]
  /\ exported = NoFile /\ requested = NoFile
  /\ archive = [v \in Version |-> NoFile]
  /\ current = NoFile
  /\ metadata = [version |-> 0, mtime |-> 0]
  /\ promoter = Rests
  /\ direct \in BOOLEAN
  /\ clock = 0 /\ promotionFaults = 0

Goes(step) ==
  promoter' = IF step = "idle" THEN Rests ELSE [promoter EXCEPT !.at = step]

\* The promotion of the registry's choice is over, one way or the other: its
\* errors are only printed.  A training that promotes its own export needs one.
Synced == Goes(IF direct /\ exports[trained] = "success" THEN "resolve" ELSE "idle")

\* A training has exported its model over the export of the one before, or has
\* failed to, before the file was opened or after.
Train ==
  /\ promoter.at = "idle" /\ trained < MaxTrainings
  /\ trained' = trained + 1
  /\ \/ /\ exported' = [bytes |-> trained + 1, mtime |-> Now] /\ clock' = Now
        /\ exports' = [exports EXCEPT ![trained + 1] = "success"]
     \/ /\ UNCHANGED <<exported, clock>>
        /\ exports' = [exports EXCEPT ![trained + 1] =
                          IF exported = NoFile THEN "missing" ELSE "failed"]
     \/ /\ exported' = [bytes |-> Torn, mtime |-> Now] /\ clock' = Now
        /\ exports' = [exports EXCEPT ![trained + 1] = "failed"]
  /\ promoter' = [at |-> "register", version |-> 0, own |-> FALSE]
  /\ UNCHANGED <<passed, best, ready, requested, archive, current, metadata, direct,
                 promotionFaults>>

\* The entry of the training is written, and production goes to the best of the
\* entries that passed: the new one or the one that has it.  How the export went
\* is no part of the gate.
write_registry_entry ==
  /\ promoter.at = "register"
  /\ \E gate \in {"pass", "fail"} :
       IF gate = "pass"
         THEN /\ passed' = passed \cup {trained}
              /\ best' \in {trained} \cup ({best} \ {0})
         ELSE UNCHANGED <<passed, best>>
  /\ promoter' = [promoter EXCEPT !.at = "archive", !.version = best']
  /\ UNCHANGED <<trained, exports, ready, exported, requested, archive, current,
                 metadata, direct, clock, promotionFaults>>

\* Mutant: the export is preferred to what was promoted.
SourceOfMutant(v) == IF promoter.own THEN requested ELSE exported

\* Where the files of a version are taken from: an entry that was promoted before
\* names the current directory first, one that was not the export, whichever
\* training's that is by now.
SourceOf(v) ==
  IF promoter.own THEN requested
  ELSE IF v \in ready THEN current
  ELSE IF exports[v] = "missing" THEN NoFile
  ELSE exported

\* The version's own directory is filled and validated; no version or no file, no
\* promotion ("missing_onnx_artifact", "validation_failed").
Archive ==
  /\ promoter.at = "archive"
  /\ LET v == promoter.version IN
     IF v = 0 \/ SourceOf(v).bytes = 0
       THEN Synced /\ UNCHANGED archive
       ELSE /\ archive' = [archive EXCEPT ![v] = SourceOf(v)]
            /\ IF SourceOf(v).bytes # Torn THEN Goes("truncate")
               ELSE IF promoter.own THEN Goes("idle") ELSE Synced
  /\ UNCHANGED <<registryVars, exported, requested, current, metadata, clock,
                 promotionFaults>>

\* The current model is overwritten in place ...
Truncate ==
  /\ promoter.at = "truncate" /\ Goes("write")
  /\ current' = [bytes |-> Torn, mtime |-> Now] /\ clock' = Now
  /\ UNCHANGED <<registryVars, exported, requested, archive, metadata, promotionFaults>>

\* ... is complete with its last block ...
CopyBytes ==
  /\ promoter.at = "write" /\ Goes("copystat")
  /\ current' = [bytes |-> archive[promoter.version].bytes, mtime |-> Now]
  /\ clock' = Now
  /\ UNCHANGED <<registryVars, exported, requested, archive, metadata, promotionFaults>>

\* ... and gets the modification time of its source.
CopyStat ==
  /\ promoter.at = "copystat" /\ Goes("describe")
  /\ current' = archive[promoter.version]
  /\ UNCHANGED <<registryVars, exported, requested, archive, metadata, clock,
                 promotionFaults>>

\* metadata.json is replaced by one rename.
Describe ==
  /\ promoter.at = "describe" /\ Goes(IF promoter.own THEN "idle" ELSE "record")
  /\ metadata' = [version |-> promoter.version, mtime |-> Now] /\ clock' = Now
  /\ UNCHANGED <<registryVars, exported, requested, archive, current, promotionFaults>>

\* The registry entry gets the paths of its promotion.
Record ==
  /\ promoter.at = "record" /\ Synced
  /\ ready' = ready \cup {promoter.version}
  /\ UNCHANGED <<trained, passed, best, exports, direct, exported, requested, archive,
                 current, metadata, clock, promotionFaults>>

\* run_model_lifecycle promotes the file it is asked for, whatever the gate said.
\* The file is copied from the exports when it does not exist; a file that does
\* exist is not compared with them.
_export_onnx_if_needed ==
  /\ promoter.at = "resolve"
  /\ requested' = [bytes |-> IF requested.bytes = 0 THEN exported.bytes ELSE requested.bytes,
                   mtime |-> Now]
  /\ clock' = Now
  /\ promoter' = [at |-> "archive", version |-> trained, own |-> TRUE]
  /\ UNCHANGED <<registryVars, exported, archive, current, metadata, promotionFaults>>

\* The training dies where it is.
TrainingDies ==
  /\ promoter.at # "idle" /\ Goes("idle")
  /\ promotionFaults < MaxPromotionFaults /\ promotionFaults' = promotionFaults + 1
  /\ UNCHANGED <<registryVars, exported, requested, archive, current, metadata, clock>>

PromotionSteps ==
  \/ write_registry_entry \/ Archive \/ Truncate \/ CopyBytes \/ CopyStat \/ Describe
  \/ Record \/ _export_onnx_if_needed

PromotionNext == Train \/ PromotionSteps \/ TrainingDies

-----------------------------------------------------------------------------

PromotionTypeOK ==
  /\ trained \in 0..MaxTrainings
  /\ passed \subseteq Version /\ ready \subseteq Version
  /\ best \in 0..MaxTrainings
  /\ exports \in [Version -> Exports]
  /\ exported \in Files /\ requested \in Files /\ current \in Files
  /\ archive \in [Version -> Files]
  /\ metadata \in Descriptions
  /\ promoter \in Promoters
  /\ direct \in BOOLEAN
  /\ clock \in Nat
  /\ promotionFaults \in 0..MaxPromotionFaults
  /\ promoter.at # "idle" => trained # 0
  /\ promoter.at \in {"truncate", "write", "copystat", "describe", "record"} =>
       promoter.version # 0

\* Between trainings none of which has died: the current directory holds no broken
\* model, whatever became of the exports ("updated only after raw ONNX, FP16 ONNX, and
\* ONNX Runtime load checks pass", mlops/promotion.py:141).  And where promotion is left
\* to the registry, as all trainings but congestion_5g's do, it holds the model that is in
\* production there, under its own version, however often a training that was not better
\* has brought it there again; unless the export of that very version failed.
CurrentIsBest ==
  promotionFaults = 0 /\ promoter.at = "idle" =>
    /\ current.bytes # Torn
    /\ ~direct /\ (best # 0 => exports[best] = "success") =>
         current.bytes = best /\ metadata.version = best

\* The directory of a version holds the model of that version ("Resolve the exported
\* ONNX artifact", mlops/lifecycle.py:55).  The code does not keep it: the second
\* training that promotes its own export archives the first one's.
VersionHoldsItsModel ==
  \A v \in Version : exports[v] = "success" => archive[v].bytes \in {0, Torn, v}

================================================================================
