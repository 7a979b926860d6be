----------------------------- MODULE PipelineProofs -----------------------------
(***************************************************************************)
(* Machine-checked proofs about the parts of the pipeline: ModelPromotion  *)
(* and HotReload, RetrainingIntake and FaultEngine, for every number of    *)
(* trainings, requests, tasks and faults (the proofs about the scores are  *)
(* in OnlineEvaluationProofs); and what follows of the parts together.     *)
(***************************************************************************)
EXTENDS MCPipeline, OnlineEvaluationProofs

--------------------------------------------------------------------------------
(* The inductive invariants of HotReload. *)

ModelFiles == {exported, requested, current} \cup {archive[v] : v \in Version}

\* A modification time belongs to one content, wherever it was copied.
StampsAreUnique ==
  /\ \A f, g \in ModelFiles : f.mtime = g.mtime => f.bytes = g.bytes
  /\ \A f \in ModelFiles : f.mtime <= clock
  /\ reader.model_mtime <= clock /\ bundle.model_mtime <= clock

Unseen(m) ==
  m # 0 /\ m # current.mtime /\ m # reader.model_mtime /\ m # bundle.model_mtime

\* No service can have taken a file for a current one of other content: it has not
\* seen the file's stamp, or what is current has the same content, or is no model.
Fresh(f) == Unseen(f.mtime) \/ current.bytes \in {f.bytes, Torn}

\* What a promotion takes is fresh; the export stays so where the registry promotes.
SourcesAreFresh ==
  /\ ~direct => promoter.at # "resolve"
  /\ ~direct \/ promoter.at = "register" => ~promoter.own /\ Fresh(exported)
  /\ promoter.at = "archive" => Fresh(IF promoter.own THEN requested ELSE exported)
  /\ promoter.at = "truncate" => Fresh(archive[promoter.version])
  /\ promoter.at = "write" => current.bytes = Torn
  /\ promoter.at = "copystat" => current.bytes = archive[promoter.version].bytes
  /\ ~direct /\ promoter.at \in {"truncate", "write", "copystat"} =>
       Unseen(exported.mtime) \/ exported.bytes = archive[promoter.version].bytes

\* The modification time will never be that of the current file again.
Gone(m) ==
  /\ current.mtime # m
  /\ ~direct \/ promoter.at = "register" => exported.mtime # m
  /\ promoter.at = "archive" => (IF promoter.own THEN requested.mtime ELSE exported.mtime) # m
  /\ promoter.at \in {"truncate", "write", "copystat"} => archive[promoter.version].mtime # m

\* A service that has loaded bytes with another file's modification time will find
\* that its own is not there any more.
LoadedOrGone ==
  \/ bundle.model_mtime = 0
  \/ \A f \in ModelFiles : f.mtime = bundle.model_mtime => f.bytes = bundle.bytes
  \/ Gone(bundle.model_mtime)

--------------------------------------------------------------------------------
(* The inductive invariants of ModelPromotion. *)

\* The registry's directory is ahead of, or behind, its choice only while a training
\* is on its way, and by that training's model alone (inductive, for CurrentIsBest).
PromotionDiscipline ==
  /\ ready \subseteq 1..trained /\ best <= trained /\ promoter.version <= trained
  /\ promoter.at = "register" =>
       trained \notin ready /\ (exports[trained] = "success" => exported.bytes = trained)
  /\ ~direct => promoter.at # "resolve" /\ ~promoter.own
  /\ promotionFaults = 0 =>
       /\ promoter.at # "write" => current.bytes # Torn
       /\ promoter.at \in {"truncate", "write", "copystat"} =>
            archive[promoter.version].bytes # Torn
  /\ ~direct /\ promotionFaults = 0 /\ (best # 0 => exports[best] = "success") =>
       /\ promoter.at \notin {"idle", "register"} => promoter.version = best
       /\ best # 0 /\ best \notin ready =>
            /\ promoter.at \notin {"idle", "register"} /\ exported.bytes = best
       /\ promoter.at \in {"truncate", "write", "copystat"} => archive[best].bytes = best
       /\ promoter.at \in {"describe", "record"} => current.bytes = best
       /\ promoter.at = "record" => metadata.version = best
       /\ promoter.at \in {"idle", "register"} \/ (promoter.at = "archive" /\ best \in ready \cup {0}) =>
            current.bytes = best /\ metadata.version = best

--------------------------------------------------------------------------------
(* The inductive invariants of RetrainingIntake. *)

\* Only requests that exist are marked, and looked at.
KnownRequests ==
  /\ \A r \in Request : status[r] = "none" <=> creator[r] = NoTask
  /\ \A r \in pending : status[r] # "none"
  /\ \A t \in Task :
       /\ \A r \in task[t].left : status[r] # "none"
       /\ At(t, "expire") => status[task[t].req] # "none"

\* A task that has seen the whole pending set without finding a live request of its
\* trigger has none of its own there (inductive with the former, for MarkedOnce).
KnowsItsOwn(t) ==
  LET own == {r \in pending : creator[r] = t} IN
  /\ At(t, "get") => task[t].found \/ task[t].scan \/ own \subseteq task[t].left
  /\ At(t, "expire") \/ At(t, "remove") =>
       task[t].found \/ task[t].scan \/ own \subseteq task[t].left \cup {task[t].req}
  /\ At(t, "save") \/ At(t, "mark") \/ (At(t, "cooldown") /\ trigger[t] = "SCHEDULED") =>
       own = {}
  /\ At(t, "mark") => creator[task[t].req] = t

LookDiscipline == \A t \in Task : KnowsItsOwn(t)

\* Of the requests that are marked, no two have the same creator.
MarkedOnce == \A r, s \in pending : creator[r] = creator[s] => r = s

\* What waits for approval has a marker, is about to get it, or is known to have none;
\* and no task removes the marker of a request that waits.
MarkersAreThere ==
  /\ \A r \in Request :
       status[r] = "pending_approval" =>
         r \in pending \cup unmarked \/ \E t \in Task : At(t, "mark") /\ task[t].req = r
  /\ \A t \in Task : At(t, "remove") => status[task[t].req] \in Closed

-----------------------------------------------------------------------------
(* The files of a model and the service that runs it: types. *)

LEMMA ReloadTypeInit == ReloadInit => ReloadTypeOK
BY PromotionParameters DEF PromotionParameters, ReloadInit, PromotionInit, ReloadTypeOK,
   PromotionTypeOK, Files, Descriptions, Promoters, Bundles, Readers, NoFile, Rests,
   Starting, Heuristic, Version, Torn, Exports

\* What a promotion copies is a file.
LEMMA SourceType ==
  ASSUME ReloadTypeOK, NEW v
  PROVE  SourceOf(v) \in Files
<1>1. NoFile \in Files
  BY PromotionParameters DEF PromotionParameters, NoFile, Files, Torn
<1>2. QED BY <1>1 DEF ReloadTypeOK, PromotionTypeOK, SourceOf

\* The next step of a promotion, or its end.
LEMMA GoesType ==
  ASSUME ReloadTypeOK, NEW step, Goes(step),
         step \in {"idle", "register", "archive", "truncate", "write", "copystat", "describe",
                   "record", "resolve"}
  PROVE  /\ promoter' \in Promoters
         /\ promoter'.at = step
         /\ step # "idle" => promoter'.version = promoter.version
<1>1. promoter \in Promoters /\ Rests \in Promoters
  BY PromotionParameters
  DEF PromotionParameters, ReloadTypeOK, PromotionTypeOK, Promoters, Rests
<1>2. CASE step = "idle"
  BY <1>1, <1>2 DEF Goes, Rests
<1>3. CASE step # "idle"
  BY <1>1, <1>3 DEF Goes, Promoters
<1>4. QED BY <1>2, <1>3

LEMMA ReaderTypes == Starting \in Readers /\ Asleep \in Readers
<1>1. 0 \in 0..MaxTrainings
  BY PromotionParameters DEF PromotionParameters
<1>2. Starting \in Readers
  BY <1>1 DEF Starting, Readers
<1>3. Asleep \in Readers
  BY <1>1 DEF Asleep, Readers
<1>4. QED BY <1>2, <1>3

\* What is copied to current is in the directory of a version.
LEMMA ArchivedType ==
  ASSUME ReloadTypeOK,
         promoter.at \in {"truncate", "write", "copystat", "describe", "record"}
  PROVE  promoter.version \in Version /\ archive[promoter.version] \in Files
<1>1. promoter.version \in Version
  BY PromotionParameters DEF PromotionParameters, ReloadTypeOK, PromotionTypeOK, Promoters, Version
<1>2. QED BY <1>1 DEF ReloadTypeOK, PromotionTypeOK

\* What a service finds elsewhere has no times.
LEMMA OtherLoaded ==
  ASSUME LoadOther
  PROVE  bundle' = bundle \/ \E v \in 1..trained :
           bundle' = [bytes |-> v, version |-> reader.version, model_mtime |-> 0,
                      metadata_mtime |-> 0, source |-> "other"]
<1>1. CASE UNCHANGED bundle
  BY <1>1
<1>2. CASE \E v \in 1..trained :
             Runs([bytes |-> v, version |-> reader.version, model_mtime |-> 0,
                   metadata_mtime |-> 0, source |-> "other"])
  <2>1. PICK v \in 1..trained :
             Runs([bytes |-> v, version |-> reader.version, model_mtime |-> 0,
                   metadata_mtime |-> 0, source |-> "other"])
    BY <1>2
  <2>2. bundle' \in {bundle, [bytes |-> v, version |-> reader.version, model_mtime |-> 0,
                             metadata_mtime |-> 0, source |-> "other"]}
    BY <2>1 DEF Runs
  <2>3. QED BY <2>2
<1>3. QED BY <1>1, <1>2 DEF LoadOther

LEMMA ReloadTypeStep == ReloadTypeOK /\ [ReloadNext]_reloadVars => ReloadTypeOK'
<1> SUFFICES ASSUME ReloadTypeOK, [ReloadNext]_reloadVars PROVE ReloadTypeOK'
  OBVIOUS
<1> USE PromotionParameters DEF PromotionParameters, ReloadTypeOK, PromotionTypeOK,
        registryVars, serviceVars
<1>1. CASE Train /\ UNCHANGED serviceVars
  <2>1. exported' \in Files /\ clock' \in Nat /\ trained' \in 0..MaxTrainings
    BY <1>1 DEF Train, Files, Torn, Now
  <2>2. promoter' \in Promoters
    BY <1>1 DEF Train, Promoters
  <2>3. exports' \in [Version -> Exports]
    BY <1>1 DEF Train, Exports
  <2>4. QED BY <1>1, <2>1, <2>2, <2>3 DEF Train
<1>2. CASE write_registry_entry /\ UNCHANGED serviceVars
  <2>1. passed' \subseteq Version /\ best' \in 0..MaxTrainings
    BY <1>2 DEF write_registry_entry, Version
  <2>2. promoter' \in Promoters
    BY <1>2, <2>1 DEF write_registry_entry, Promoters
  <2>3. QED BY <1>2, <2>1, <2>2 DEF write_registry_entry
<1>3. CASE Archive /\ UNCHANGED serviceVars
  <2>1. archive' \in [Version -> Files]
    BY <1>3, SourceType DEF Archive
  <2>2. /\ promoter' \in Promoters
        /\ promoter'.at \in {"truncate", "write", "copystat", "describe", "record"} =>
             promoter'.version # 0
    BY <1>3, GoesType DEF Archive, Synced
  <2>3. trained # 0
    BY <1>3 DEF Archive
  <2>4. QED BY <1>3, <2>1, <2>2, <2>3 DEF Archive
<1>4. CASE Truncate /\ UNCHANGED serviceVars
  <2>1. current' \in Files /\ clock' \in Nat
    BY <1>4 DEF Truncate, Files, Torn, Now
  <2>2. /\ promoter' \in Promoters
        /\ promoter'.at \in {"truncate", "write", "copystat", "describe", "record"} =>
             promoter'.version # 0
    BY <1>4, GoesType DEF Truncate
  <2>3. QED BY <1>4, <2>1, <2>2 DEF Truncate
<1>5. CASE CopyBytes /\ UNCHANGED serviceVars
  <2>1. archive[promoter.version].bytes \in 0..Torn
    BY <1>5, ArchivedType DEF CopyBytes, Files
  <2>2. current' \in Files /\ clock' \in Nat
    BY <1>5, <2>1 DEF CopyBytes, Files, Now
  <2>3. /\ promoter' \in Promoters
        /\ promoter'.at \in {"truncate", "write", "copystat", "describe", "record"} =>
             promoter'.version # 0
    BY <1>5, GoesType DEF CopyBytes
  <2>4. QED BY <1>5, <2>2, <2>3 DEF CopyBytes
<1>6. CASE CopyStat /\ UNCHANGED serviceVars
  <2>1. current' \in Files
    BY <1>6, ArchivedType DEF CopyStat
  <2>2. /\ promoter' \in Promoters
        /\ promoter'.at \in {"truncate", "write", "copystat", "describe", "record"} =>
             promoter'.version # 0
    BY <1>6, GoesType DEF CopyStat
  <2>3. QED BY <1>6, <2>1, <2>2 DEF CopyStat
<1>7. CASE Describe /\ UNCHANGED serviceVars
  <2>1. metadata' \in Descriptions /\ clock' \in Nat
    BY <1>7 DEF Describe, Descriptions, Promoters, Now
  <2>2. /\ promoter' \in Promoters
        /\ promoter'.at \in {"truncate", "write", "copystat", "describe", "record"} =>
             promoter'.version # 0
    BY <1>7, GoesType DEF Describe
  <2>3. QED BY <1>7, <2>1, <2>2 DEF Describe
<1>8. CASE Record /\ UNCHANGED serviceVars
  <2>1. ready' \subseteq Version
    BY <1>8, ArchivedType DEF Record
  <2>2. /\ promoter' \in Promoters
        /\ promoter'.at \in {"truncate", "write", "copystat", "describe", "record"} =>
             promoter'.version # 0
    BY <1>8, GoesType DEF Record, Synced
  <2>3. QED BY <1>8, <2>1, <2>2 DEF Record
<1>9. CASE _export_onnx_if_needed /\ UNCHANGED serviceVars
  <2>1. requested' \in Files /\ clock' \in Nat
    BY <1>9 DEF _export_onnx_if_needed, Files, Now
  <2>2. promoter' \in Promoters
    BY <1>9 DEF _export_onnx_if_needed, Promoters
  <2>3. QED BY <1>9, <2>1, <2>2 DEF _export_onnx_if_needed
<1>10. CASE TrainingDies /\ UNCHANGED serviceVars
  <2>1. promoter' \in Promoters /\ promoter'.at = "idle"
    BY <1>10, GoesType DEF TrainingDies, Goes, Rests
  <2>2. promotionFaults' \in 0..MaxPromotionFaults
    BY <1>10 DEF TrainingDies
  <2>3. QED BY <1>10, <2>1, <2>2 DEF TrainingDies
<1>11. CASE ReadVersion
  <2>1. metadata.version \in 0..MaxTrainings
    BY DEF Descriptions
  <2>2. /\ [reader EXCEPT !.at = "model", !.version = metadata.version] \in Readers
        /\ [reader EXCEPT !.at = "registry"] \in Readers
    BY <2>1 DEF Readers
  <2>3. reader' \in Readers
    BY <1>11, <2>2, ReaderTypes DEF ReadVersion
  <2>4. QED BY <1>11, <2>3 DEF ReadVersion, promotionVars
<1>12. CASE StatModel
  <2>1. reader' \in Readers
    BY <1>12 DEF StatModel, Readers, Files
  <2>2. QED BY <1>12, <2>1 DEF StatModel, promotionVars
<1>13. CASE StatMetadata
  <2>1. metadata.mtime \in Nat
    BY DEF Descriptions
  <2>2. [reader EXCEPT !.at = "bytes", !.metadata_mtime = metadata.mtime] \in Readers
    BY <2>1 DEF Readers
  <2>3. reader' \in Readers
    BY <1>13, <2>2, ReaderTypes DEF StatMetadata
  <2>4. QED BY <1>13, <2>3 DEF StatMetadata, promotionVars
<1>14. CASE Load
  <2>1. reader' \in Readers
    BY <1>14, ReaderTypes DEF Load, Readers
  <2>2. bundle' \in Bundles
    BY <1>14 DEF Load, Runs, Bundles, Readers, Files, Torn
  <2>3. QED BY <1>14, <2>1, <2>2 DEF Load, promotionVars
<1>18. CASE ReadRegistry
  <2>1. reader' \in Readers
    BY <1>18 DEF ReadRegistry, Readers
  <2>2. QED BY <1>18, <2>1 DEF ReadRegistry, promotionVars
<1>19. CASE LoadAgain
  <2>1. reader' \in Readers
    BY <1>19, ReaderTypes DEF LoadAgain, Readers
  <2>2. bundle' \in Bundles
    BY <1>19 DEF LoadAgain, Runs, Bundles, Readers, Version
  <2>3. QED BY <1>19, <2>1, <2>2 DEF LoadAgain, promotionVars
<1>20. CASE LoadOther
  <2>1. reader' \in Readers
    BY <1>20, ReaderTypes DEF LoadOther
  <2>2. bundle' \in Bundles
    BY <1>20, OtherLoaded DEF Bundles, Readers
  <2>3. QED BY <1>20, <2>1, <2>2 DEF LoadOther, promotionVars
<1>15. CASE ServiceRestarts
  <2>1. bundle' \in Bundles /\ reader' \in Readers
    BY <1>15 DEF ServiceRestarts, Heuristic, Starting, Bundles, Readers
  <2>2. promotionFaults' \in 0..MaxPromotionFaults
    BY <1>15 DEF ServiceRestarts
  <2>3. QED BY <1>15, <2>1, <2>2 DEF ServiceRestarts
<1>16. CASE UNCHANGED reloadVars
  BY <1>16 DEF reloadVars, promotionVars
<1>17. QED
  BY <1>1, <1>2, <1>3, <1>4, <1>5, <1>6, <1>7, <1>8, <1>9, <1>10, <1>11, <1>12, <1>13,
     <1>14, <1>15, <1>16, <1>18, <1>19, <1>20
  DEF ReloadNext, PromotionNext, PromotionSteps, ServiceSteps

\* What a promotion and a service keep is of its type.
THEOREM TypesHold == ReloadSpec => []ReloadTypeOK
BY ReloadTypeInit, ReloadTypeStep, PTL DEF ReloadSpec

-----------------------------------------------------------------------------
(* What current holds. *)

LEMMA PromotionInitially == ReloadInit => PromotionDiscipline
BY PromotionParameters
   DEF PromotionParameters, ReloadInit, PromotionInit, PromotionDiscipline, Rests, NoFile, Torn

LEMMA PromotionStep ==
  ReloadTypeOK /\ PromotionDiscipline /\ [ReloadNext]_reloadVars => PromotionDiscipline'
<1> SUFFICES ASSUME ReloadTypeOK, PromotionDiscipline, [ReloadNext]_reloadVars
             PROVE  PromotionDiscipline'
  OBVIOUS
<1>a. /\ trained \in Nat /\ best \in Nat /\ promoter \in Promoters /\ promoter.version \in Nat
      /\ promotionFaults \in Nat /\ exported \in Files /\ current \in Files
      /\ ready \subseteq Version
      /\ archive \in [Version -> Files] /\ best \in 0..MaxTrainings
      /\ promoter.at # "idle" => trained \in Version
      /\ MaxTrainings \in Nat /\ Version = 1..MaxTrainings
      /\ exports \in [Version -> Exports]
  BY PromotionParameters
  DEF PromotionParameters, ReloadTypeOK, PromotionTypeOK, Promoters, Version
<1> USE <1>a DEF PromotionDiscipline, registryVars, serviceVars
<1>1. CASE Train /\ UNCHANGED serviceVars
  <2>1. /\ trained' = trained + 1 /\ trained + 1 \in Version /\ promoter'.at = "register"
        /\ promoter'.version = 0 /\ ~promoter'.own /\ promoter.at = "idle"
        /\ UNCHANGED <<best, ready, current, metadata, direct, promotionFaults>>
    BY <1>1 DEF Train
  <2>2. exports'[trained'] = "success" => exported'.bytes = trained'
    BY <1>1, <2>1 DEF Train
  <2>3. best # 0 => best \in Version /\ exports'[best] = exports[best]
    BY <1>1, <2>1 DEF Train
  <2>4. QED BY <2>1, <2>2, <2>3
<1>2. CASE write_registry_entry /\ UNCHANGED serviceVars
  BY <1>2 DEF write_registry_entry
<1>3. CASE Archive /\ UNCHANGED serviceVars
  <2> DEFINE v == promoter.version
  <2>1. promoter.at = "archive" /\ UNCHANGED <<registryVars, exported, current, metadata, promotionFaults>>
    BY <1>3 DEF Archive
  <2>0. ~direct /\ promotionFaults = 0 /\ (best # 0 => exports[best] = "success") =>
          v = best /\ (v # 0 => SourceOf(v).bytes = best)
    BY <2>1 DEF SourceOf
  <2>2. CASE v = 0 \/ SourceOf(v).bytes = 0
    <3>1. promoter' = Rests \/ (direct /\ promoter' = [promoter EXCEPT !.at = "resolve"])
      BY <1>3, <2>2 DEF Archive, Synced, Goes
    <3>2. QED BY <2>0, <2>1, <2>2, <3>1 DEF Rests, Promoters
  <2>3. CASE v # 0 /\ SourceOf(v).bytes # 0
    <3>1. v \in Version /\ archive' = [archive EXCEPT ![v] = SourceOf(v)]
      BY <1>3, <2>3 DEF Archive, Version, Promoters
    <3>2. \/ promoter' = [promoter EXCEPT !.at = "truncate"] /\ SourceOf(v).bytes # Torn
          \/ promoter' = Rests /\ SourceOf(v).bytes = Torn
          \/ direct /\ promoter' = [promoter EXCEPT !.at = "resolve"]
      BY <1>3, <2>3 DEF Archive, Synced, Goes
    <3>3. ~direct /\ promotionFaults = 0 /\ (best # 0 => exports[best] = "success") =>
            v = best /\ SourceOf(v).bytes = best
      BY <2>0, <2>3
    <3>4. best # Torn
      BY DEF Torn
    <3>5. archive'[v] = SourceOf(v)
      BY <3>1
    <3>6. QED BY <2>1, <2>3, <3>2, <3>3, <3>4, <3>5 DEF Rests, Promoters
  <2>4. QED BY <2>2, <2>3
<1>4. CASE Truncate /\ UNCHANGED serviceVars
  BY <1>4 DEF Truncate, Goes, Promoters
<1>5. CASE CopyBytes /\ UNCHANGED serviceVars
  BY <1>5 DEF CopyBytes, Goes, Promoters
<1>6. CASE CopyStat /\ UNCHANGED serviceVars
  BY <1>6 DEF CopyStat, Goes, Promoters
<1>7. CASE Describe /\ UNCHANGED serviceVars
  BY <1>7 DEF Describe, Goes, Rests, Promoters
<1>8. CASE Record /\ UNCHANGED serviceVars
  BY <1>8, ArchivedType DEF Record, Synced, Goes, Rests, Promoters, Version
<1>9. CASE _export_onnx_if_needed /\ UNCHANGED serviceVars
  BY <1>9 DEF _export_onnx_if_needed
<1>10. CASE TrainingDies /\ UNCHANGED serviceVars
  BY <1>10 DEF TrainingDies, Goes, Rests
<1>11. CASE ServiceSteps
  BY <1>11 DEF ServiceSteps, ReadVersion, StatModel, StatMetadata, Load, ReadRegistry,
               LoadAgain, LoadOther, promotionVars
<1>12. CASE ServiceRestarts
  BY <1>12 DEF ServiceRestarts
<1>13. CASE UNCHANGED reloadVars
  BY <1>13 DEF reloadVars, promotionVars
<1>14. QED
  BY <1>1, <1>2, <1>3, <1>4, <1>5, <1>6, <1>7, <1>8, <1>9, <1>10, <1>11, <1>12, <1>13
  DEF ReloadNext, PromotionNext, PromotionSteps

\* While no training dies: no broken model is current between trainings, and where
\* promotion is left to the registry what is current is the version the registry has in
\* production, unless the export of that version failed (models/lifecycle.py,
\* mlops/promotion.py).
THEOREM CurrentHolds == ReloadSpec => []CurrentIsBest
<1>1. ReloadTypeOK /\ PromotionDiscipline => CurrentIsBest
  BY DEF PromotionDiscipline, CurrentIsBest
<1>2. QED
  BY <1>1, ReloadTypeInit, ReloadTypeStep, PromotionInitially, PromotionStep, PTL DEF ReloadSpec

-----------------------------------------------------------------------------
(* Which files there are, and when they change. *)

LEMMA FileTypes ==
  ASSUME ReloadTypeOK
  PROVE  /\ \A f \in ModelFiles : f \in Files /\ f.mtime \in Nat
         /\ exported \in ModelFiles /\ requested \in ModelFiles /\ current \in ModelFiles
         /\ \A v \in Version : archive[v] \in ModelFiles
         /\ clock \in Nat /\ reader.model_mtime \in Nat /\ bundle.model_mtime \in Nat
<1>1. \A f \in ModelFiles : f \in Files
  BY DEF ReloadTypeOK, PromotionTypeOK, ModelFiles
<1>2. \A f \in Files : f.mtime \in Nat
  BY DEF Files
<1>3. clock \in Nat
  BY DEF ReloadTypeOK, PromotionTypeOK
<1>4. reader.model_mtime \in Nat /\ bundle.model_mtime \in Nat
  BY DEF ReloadTypeOK, Readers, Bundles
<1>5. QED BY <1>1, <1>2, <1>3, <1>4 DEF ModelFiles

\* Every file was there before, or is the one new file n, stamped with this instant.
FilesFollow(n) ==
  \A f \in ModelFiles' : f \in ModelFiles \/ (f = n /\ n.mtime = Now /\ clock' = Now)

LEMMA FilesStep ==
  ASSUME ReloadTypeOK, [ReloadNext]_reloadVars
  PROVE  (clock' = clock \/ clock' = Now) /\ \E n : FilesFollow(n)
<1> USE FileTypes DEF registryVars, serviceVars, FilesFollow
<1>1. CASE Train /\ UNCHANGED serviceVars
  <2>1. FilesFollow(exported')
    BY <1>1 DEF Train, ModelFiles, Files
  <2>2. QED BY <1>1, <2>1 DEF Train
<1>2. CASE Archive /\ UNCHANGED serviceVars
  <2>1. SourceOf(promoter.version) \in ModelFiles \/ SourceOf(promoter.version).bytes = 0
    BY DEF SourceOf, NoFile
  <2>2. \A v \in Version : archive'[v] \in ModelFiles
    BY <1>2, <2>1 DEF Archive, ReloadTypeOK, PromotionTypeOK
  <2>3. FilesFollow(current)
    BY <1>2, <2>2 DEF Archive, ModelFiles
  <2>4. QED BY <1>2, <2>3 DEF Archive
<1>3. CASE Truncate /\ UNCHANGED serviceVars
  <2>1. FilesFollow(current')
    BY <1>3 DEF Truncate, ModelFiles
  <2>2. QED BY <1>3, <2>1 DEF Truncate
<1>4. CASE CopyBytes /\ UNCHANGED serviceVars
  <2>1. FilesFollow(current')
    BY <1>4 DEF CopyBytes, ModelFiles
  <2>2. QED BY <1>4, <2>1 DEF CopyBytes
<1>5. CASE CopyStat /\ UNCHANGED serviceVars
  <2>1. archive[promoter.version] \in ModelFiles
    BY <1>5, ArchivedType DEF CopyStat
  <2>2. FilesFollow(current)
    BY <1>5, <2>1 DEF CopyStat, ModelFiles
  <2>3. QED BY <1>5, <2>2 DEF CopyStat
<1>6. CASE _export_onnx_if_needed /\ UNCHANGED serviceVars
  <2>1. FilesFollow(requested')
    BY <1>6 DEF _export_onnx_if_needed, ModelFiles
  <2>2. QED BY <1>6, <2>1 DEF _export_onnx_if_needed
<1>7. CASE /\ UNCHANGED <<exported, requested, current, archive>>
           /\ clock' = clock \/ clock' = Now
  <2>1. FilesFollow(current)
    BY <1>7 DEF ModelFiles
  <2>2. QED BY <1>7, <2>1
<1>8. write_registry_entry \/ Describe \/ Record \/ TrainingDies \/ ServiceSteps
        \/ ServiceRestarts \/ UNCHANGED reloadVars
      => /\ UNCHANGED <<exported, requested, current, archive>>
         /\ clock' = clock \/ clock' = Now
  BY DEF write_registry_entry, Describe, Record, TrainingDies, ServiceSteps, ReadVersion,
         StatModel, StatMetadata, Load, ReadRegistry, LoadAgain, LoadOther, ServiceRestarts,
         reloadVars, promotionVars
<1>9. QED
  BY <1>1, <1>2, <1>3, <1>4, <1>5, <1>6, <1>7, <1>8
  DEF ReloadNext, PromotionNext, PromotionSteps

\* What a service has seen of the files it has seen before or sees now.
LEMMA SeenStep ==
  ASSUME ReloadTypeOK, [ReloadNext]_reloadVars
  PROVE  /\ reader'.model_mtime \in {reader.model_mtime, current.mtime, 0}
         /\ bundle'.model_mtime \in {bundle.model_mtime, reader.model_mtime, 0}
<1> USE DEF ReloadTypeOK, Readers, serviceVars
<1>1. CASE ReadVersion
  BY <1>1 DEF ReadVersion, Asleep
<1>2. CASE StatModel
  BY <1>2 DEF StatModel
<1>3. CASE StatMetadata
  BY <1>3 DEF StatMetadata, Asleep, Starting
<1>4. CASE Load
  BY <1>4 DEF Load, Runs, Asleep
<1>5. CASE ServiceRestarts
  BY <1>5 DEF ServiceRestarts, Heuristic, Starting
<1>6. CASE UNCHANGED serviceVars
  BY <1>6
<1>7. CASE ReadRegistry
  BY <1>7 DEF ReadRegistry
<1>8. CASE LoadAgain
  BY <1>8 DEF LoadAgain, Runs, Asleep
<1>9. CASE LoadOther
  BY <1>9, OtherLoaded DEF LoadOther, Asleep
<1>10. QED
  BY <1>1, <1>2, <1>3, <1>4, <1>5, <1>6, <1>7, <1>8, <1>9
  DEF ReloadNext, ServiceSteps, reloadVars

LEMMA StampsStep ==
  ASSUME ReloadTypeOK, StampsAreUnique, [ReloadNext]_reloadVars
  PROVE  StampsAreUnique'
<1>1. PICK n : FilesFollow(n)
  BY FilesStep
<1>2. clock \in Nat /\ (clock' = clock \/ clock' = clock + 1)
  BY FilesStep, FileTypes DEF Now
<1>3. \A f, g \in ModelFiles' : f.mtime = g.mtime => f.bytes = g.bytes
  BY <1>1, <1>2, FileTypes DEF FilesFollow, StampsAreUnique, Now
<1>4. \A f \in ModelFiles' : f.mtime <= clock'
  BY <1>1, <1>2, FileTypes DEF FilesFollow, StampsAreUnique, Now
<1>5. reader'.model_mtime <= clock' /\ bundle'.model_mtime <= clock'
  BY <1>2, SeenStep, FileTypes DEF StampsAreUnique
<1>6. QED BY <1>3, <1>4, <1>5 DEF StampsAreUnique

-----------------------------------------------------------------------------
\* What a service runs.

ReloadDiscipline == StampsAreUnique /\ (ExportsAreNew => SourcesAreFresh /\ LoadedOrGone)

LEMMA ReloadInitially == ReloadInit => ReloadDiscipline
BY DEF ReloadInit, PromotionInit, ReloadDiscipline, StampsAreUnique, SourcesAreFresh,
   LoadedOrGone, ModelFiles, Rests, NoFile, Starting, Heuristic, Fresh

\* A training that took an old export for its own is not undone.
LEMMA ExportsStay ==
  ASSUME ReloadTypeOK, [ReloadNext]_reloadVars, ExportsAreNew'
  PROVE  /\ ExportsAreNew
         /\ Train /\ direct => exported' = [bytes |-> trained + 1, mtime |-> Now]
<1> USE DEF registryVars, serviceVars
<1>1. CASE Train /\ UNCHANGED serviceVars
  <2>1. /\ trained \in Nat /\ trained + 1 \in Version /\ trained' = trained + 1
        /\ direct' = direct /\ exports \in [Version -> Exports]
    BY <1>1, PromotionParameters
    DEF PromotionParameters, Train, ReloadTypeOK, PromotionTypeOK, Version
  <2>2. \A v \in 1..trained : v \in Version /\ v # trained + 1 /\ v \in 1..(trained + 1)
    BY <2>1, PromotionParameters DEF PromotionParameters, Version
  <2>3. \A v \in 1..trained : exports'[v] = exports[v]
    BY <1>1, <2>1, <2>2 DEF Train
  <2>4. direct => exports'[trained + 1] = "success"
    BY <2>1 DEF ExportsAreNew
  <2>5. direct => exported' = [bytes |-> trained + 1, mtime |-> Now]
    BY <1>1, <2>1, <2>4 DEF Train
  <2>6. QED BY <2>1, <2>2, <2>3, <2>5 DEF ExportsAreNew
<1>2. CASE UNCHANGED <<exports, direct, trained>> /\ ~Train
  BY <1>2 DEF ExportsAreNew
<1>3. \/ Train /\ UNCHANGED serviceVars
      \/ UNCHANGED <<exports, direct, trained>> /\ trained' = trained
  BY DEF ReloadNext, PromotionNext, PromotionSteps, write_registry_entry, Archive, Truncate,
         CopyBytes, CopyStat, Describe, Record, _export_onnx_if_needed, TrainingDies,
         ServiceSteps, ReadVersion, StatModel, StatMetadata, Load, ReadRegistry, LoadAgain,
         LoadOther, ServiceRestarts, reloadVars, promotionVars
<1>4. Train => trained' # trained
  BY DEF Train, ReloadTypeOK, PromotionTypeOK
<1>5. QED BY <1>1, <1>2, <1>3, <1>4

\* A stamp of this instant is on no file and in no service yet.
LEMMA NowIsUnseen ==
  ASSUME ReloadTypeOK, StampsAreUnique
  PROVE  Unseen(Now) /\ Now > clock /\ \A f \in ModelFiles : f.mtime # Now
BY FileTypes DEF StampsAreUnique, Unseen, Now

\* Reads of a service show it nothing but the current file, which is fresh with itself.
LEMMA UnseenStays ==
  ASSUME ReloadTypeOK, [ReloadNext]_reloadVars, NEW m \in Nat, Unseen(m),
         current'.mtime # m
  PROVE  Unseen(m)'
BY SeenStep, FileTypes DEF Unseen

LEMMA FreshStays ==
  ASSUME ReloadTypeOK, [ReloadNext]_reloadVars, NEW f \in Files, Fresh(f), current' = current
  PROVE  Fresh(f)'
BY UnseenStays, FileTypes DEF Fresh, Files, Unseen

LEMMA SourcesStep ==
  ASSUME ReloadTypeOK, StampsAreUnique, SourcesAreFresh, [ReloadNext]_reloadVars,
         ExportsAreNew'
  PROVE  SourcesAreFresh'
<1>a. promoter \in Promoters
  BY DEF ReloadTypeOK, PromotionTypeOK
<1>b. /\ exported \in Files /\ requested \in Files /\ current \in Files
      /\ exported.mtime \in Nat /\ requested.mtime \in Nat /\ current.mtime \in Nat
  BY FileTypes
<1>c. Unseen(Now) /\ Now # exported.mtime /\ Now # requested.mtime
  BY NowIsUnseen, FileTypes
<1> USE <1>a DEF SourcesAreFresh, registryVars
<1>1. CASE Train /\ UNCHANGED serviceVars
  <2>1. ~direct => exported' = exported \/ exported'.mtime = Now
    BY <1>1 DEF Train
  <2>2. direct => exported'.mtime = Now
    BY <1>1, ExportsStay
  <2>4. Fresh(exported)'
    <3>1. CASE exported'.mtime = Now
      BY <1>1, <1>c, <3>1 DEF Train, Fresh, Unseen, serviceVars
    <3>2. CASE ~direct /\ exported' = exported
      BY <1>1, <3>2 DEF Train, Fresh, Unseen, serviceVars
    <3>3. QED BY <2>1, <2>2, <3>1, <3>2
  <2>5. ~promoter'.own /\ promoter'.at = "register"
    BY <1>1 DEF Train
  <2>6. QED BY <2>4, <2>5
<1>2. CASE write_registry_entry /\ UNCHANGED serviceVars
  <2>1. /\ UNCHANGED <<exported, requested, archive, current, direct, serviceVars>>
        /\ promoter.at = "register" /\ promoter'.at = "archive" /\ promoter'.own = promoter.own
    BY <1>2 DEF write_registry_entry, Promoters
  <2>2. QED BY <2>1 DEF Fresh, Unseen, serviceVars
<1>3. CASE Archive /\ UNCHANGED serviceVars
  <2> DEFINE v == promoter.version
  <2>0. /\ promoter.at = "archive"
        /\ UNCHANGED <<exported, requested, current, direct, serviceVars>>
    BY <1>3 DEF Archive
  <2>1. CASE promoter'.at = "truncate"
    <3>1. /\ v # 0 /\ SourceOf(v).bytes # 0 /\ SourceOf(v).bytes # Torn
          /\ promoter'.version = v /\ promoter'.own = promoter.own
          /\ archive' = [archive EXCEPT ![v] = SourceOf(v)]
      BY <1>3, <2>1 DEF Archive, Synced, Goes, Rests, Promoters
    <3>2. archive'[v] = SourceOf(v)
      BY <3>1, PromotionParameters
      DEF PromotionParameters, ReloadTypeOK, PromotionTypeOK, Promoters, Version
    <3>3. /\ SourceOf(v) \in {current, IF promoter.own THEN requested ELSE exported}
          /\ ~promoter.own => SourceOf(v) \in {current, exported}
      BY <3>1 DEF SourceOf, NoFile
    <3>4. Fresh(SourceOf(v))
      BY <2>0, <3>3 DEF Fresh
    <3>5. ~direct => Unseen(exported.mtime) \/ exported.bytes = SourceOf(v).bytes
      BY <2>0, <3>1, <3>3 DEF Fresh
    <3>6. ~direct => ~promoter.own /\ Fresh(exported)
      OBVIOUS
    <3>7. QED
      BY <2>0, <2>1, <3>1, <3>2, <3>4, <3>5, <3>6 DEF Fresh, Unseen, serviceVars
  <2>2. CASE promoter'.at # "truncate"
    <3>1. /\ promoter'.at \in {"idle", "resolve"}
          /\ ~direct => ~promoter'.own /\ promoter'.at # "resolve"
      BY <1>3, <2>2 DEF Archive, Synced, Goes, Rests, Promoters
    <3>2. QED BY <2>0, <3>1 DEF Fresh, Unseen, serviceVars
  <2>3. QED BY <2>1, <2>2
<1>4. CASE Truncate /\ UNCHANGED serviceVars
  <2>1. /\ promoter.at = "truncate" /\ promoter' = [promoter EXCEPT !.at = "write"]
        /\ current'.bytes = Torn /\ current'.mtime = Now
        /\ UNCHANGED <<exported, archive, direct, serviceVars>>
    BY <1>4 DEF Truncate, Goes
  <2>2. Fresh(exported)'
    BY <2>1 DEF Fresh, Torn
  <2>3. ~direct => Unseen(exported.mtime)' \/ (exported.bytes = archive[promoter.version].bytes)'
    BY <2>1, <1>c DEF Unseen, serviceVars, Promoters
  <2>4. QED BY <2>1, <2>2, <2>3 DEF Promoters
<1>5. CASE CopyBytes /\ UNCHANGED serviceVars
  <2>1. /\ promoter.at = "write" /\ promoter' = [promoter EXCEPT !.at = "copystat"]
        /\ current'.bytes = archive[promoter.version].bytes /\ current'.mtime = Now
        /\ UNCHANGED <<exported, archive, direct, serviceVars>>
    BY <1>5 DEF CopyBytes, Goes
  <2>2. ~direct => Unseen(exported.mtime)' \/ exported.bytes = archive[promoter.version].bytes
    BY <2>1, <1>c DEF Unseen, serviceVars
  <2>3. ~direct => Fresh(exported)'
    BY <2>1, <2>2 DEF Fresh
  <2>4. QED BY <2>1, <2>2, <2>3 DEF Promoters
<1>6. CASE CopyStat /\ UNCHANGED serviceVars
  <2>1. /\ promoter.at = "copystat" /\ promoter' = [promoter EXCEPT !.at = "describe"]
        /\ current' = archive[promoter.version]
        /\ UNCHANGED <<exported, archive, direct, serviceVars>>
    BY <1>6 DEF CopyStat, Goes
  <2>2. exported \in ModelFiles /\ archive[promoter.version] \in ModelFiles
    BY <2>1, ArchivedType, FileTypes
  <2>3. exported.mtime = current'.mtime => exported.bytes = current'.bytes
    BY <2>1, <2>2 DEF StampsAreUnique
  <2>4. ~direct => Fresh(exported)'
    BY <2>1, <2>3 DEF Fresh, Unseen, serviceVars
  <2>5. QED BY <2>1, <2>4 DEF Promoters
<1>7. CASE _export_onnx_if_needed /\ UNCHANGED serviceVars
  <2>1. /\ promoter'.at = "archive" /\ promoter'.own /\ requested'.mtime = Now
        /\ UNCHANGED <<exported, current, direct, serviceVars>> /\ promoter.at = "resolve"
    BY <1>7 DEF _export_onnx_if_needed
  <2>2. Fresh(requested)'
    BY <2>1, <1>c DEF Fresh, Unseen, serviceVars
  <2>3. direct
    BY <2>1 DEF Promoters
  <2>4. QED BY <2>1, <2>2, <2>3
<1>8. CASE Describe \/ Record \/ TrainingDies \/ ServiceSteps \/ ServiceRestarts
           \/ UNCHANGED reloadVars
  <2>1. /\ UNCHANGED <<exported, requested, archive, current, direct>>
        /\ promoter' = promoter \/ promoter'.at \in {"idle", "record", "resolve"}
        /\ ~direct /\ ~promoter.own => ~promoter'.own
        /\ promoter'.at = "resolve" => direct \/ promoter.at = "resolve"
    BY <1>8
    DEF Describe, Record, TrainingDies, Synced, Goes, Rests, Promoters, ServiceSteps, ReadVersion,
        StatModel, StatMetadata, Load, ReadRegistry, LoadAgain, LoadOther, ServiceRestarts,
        reloadVars, promotionVars
  <2>2. Fresh(exported) => Fresh(exported)'
    BY <2>1, <1>b, FreshStays DEF Fresh, Unseen
  <2>3. Fresh(requested) => Fresh(requested)'
    BY <2>1, <1>b, FreshStays DEF Fresh, Unseen
  <2>4. Unseen(exported.mtime) => Unseen(exported.mtime)'
    BY <2>1, <1>b, UnseenStays DEF Unseen
  <2>5. promoter.at = "truncate" /\ Fresh(archive[promoter.version]) =>
          Fresh(archive[promoter.version])' \/ promoter' # promoter
    BY <2>1, ArchivedType, FreshStays DEF Fresh, Unseen
  <2>6. CASE promoter' = promoter
    BY <2>1, <2>2, <2>3, <2>4, <2>5, <2>6
  <2>7. CASE promoter'.at \in {"idle", "record", "resolve"}
    BY <2>1, <2>2, <2>7
  <2>8. QED BY <2>1, <2>6, <2>7
<1>9. QED
  BY <1>1, <1>2, <1>3, <1>4, <1>5, <1>6, <1>7, <1>8
  DEF ReloadNext, PromotionNext, PromotionSteps

\* A stamp that is gone stays gone.
LEMMA GoneStays ==
  ASSUME ReloadTypeOK, StampsAreUnique, SourcesAreFresh, [ReloadNext]_reloadVars,
         ExportsAreNew', NEW m \in Nat, m <= clock, Gone(m)
  PROVE  Gone(m)'
<1>a. promoter \in Promoters /\ clock \in Nat
  BY DEF ReloadTypeOK, PromotionTypeOK
<1> USE <1>a DEF Gone, registryVars
<1>1. CASE Train /\ UNCHANGED serviceVars
  <2>1. exported'.mtime # m
    BY <1>1, ExportsStay DEF Train, Now
  <2>2. QED BY <1>1, <2>1 DEF Train
<1>2. CASE write_registry_entry /\ UNCHANGED serviceVars
  BY <1>2 DEF write_registry_entry, Promoters, SourcesAreFresh
<1>3. CASE Archive /\ UNCHANGED serviceVars
  <2> DEFINE v == promoter.version
  <2>1. CASE promoter'.at = "truncate"
    <3>1. /\ v # 0 /\ promoter'.version = v /\ archive' = [archive EXCEPT ![v] = SourceOf(v)]
          /\ SourceOf(v).bytes # 0
      BY <1>3, <2>1 DEF Archive, Synced, Goes, Rests, Promoters
    <3>2. archive'[v] = SourceOf(v)
      BY <3>1, PromotionParameters
      DEF PromotionParameters, ReloadTypeOK, PromotionTypeOK, Promoters, Version
    <3>3. SourceOf(v).mtime # m
      BY <1>3, <3>1 DEF Archive, SourceOf, NoFile
    <3>4. QED BY <1>3, <2>1, <3>1, <3>2, <3>3 DEF Archive
  <2>2. CASE promoter'.at # "truncate"
    <3>1. promoter'.at \in {"idle", "resolve"}
      BY <1>3, <2>2 DEF Archive, Synced, Goes, Rests, Promoters
    <3>2. QED BY <1>3, <3>1 DEF Archive
  <2>3. QED BY <2>1, <2>2
<1>4. CASE Truncate /\ UNCHANGED serviceVars
  BY <1>4 DEF Truncate, Goes, Promoters, Now
<1>5. CASE CopyBytes /\ UNCHANGED serviceVars
  BY <1>5 DEF CopyBytes, Goes, Promoters, Now
<1>6. CASE CopyStat /\ UNCHANGED serviceVars
  BY <1>6 DEF CopyStat, Goes, Promoters
<1>7. CASE Describe /\ UNCHANGED serviceVars
  BY <1>7 DEF Describe, Goes, Rests, Promoters
<1>8. CASE Record /\ UNCHANGED serviceVars
  BY <1>8 DEF Record, Synced, Goes, Rests, Promoters
<1>9. CASE _export_onnx_if_needed /\ UNCHANGED serviceVars
  BY <1>9 DEF _export_onnx_if_needed, Now
<1>10. CASE TrainingDies /\ UNCHANGED serviceVars
  BY <1>10 DEF TrainingDies, Goes, Rests
<1>11. CASE ServiceSteps \/ ServiceRestarts \/ UNCHANGED reloadVars
  BY <1>11 DEF ServiceSteps, ReadVersion, StatModel, StatMetadata, Load, ReadRegistry,
               LoadAgain, LoadOther, ServiceRestarts, reloadVars, promotionVars
<1>12. QED
  BY <1>1, <1>2, <1>3, <1>4, <1>5, <1>6, <1>7, <1>8, <1>9, <1>10, <1>11
  DEF ReloadNext, PromotionNext, PromotionSteps

\* Bytes that are loaded with another file's stamp: the other file is gone.
LEMMA LoadStep ==
  ASSUME ReloadTypeOK, StampsAreUnique, SourcesAreFresh, LoadedOrGone, Load
  PROVE  LoadedOrGone'
<1> DEFINE m == reader.model_mtime
<1>1. /\ ModelFiles' = ModelFiles
      /\ \A x \in Nat : Gone(x) => (bundle'.model_mtime = x => Gone(bundle.model_mtime)')
  BY DEF Load, ModelFiles, promotionVars, Gone
<1>2. m \in Nat /\ bundle.model_mtime \in Nat
  BY FileTypes
<1>3. CASE bundle' = bundle
  BY <1>1, <1>2, <1>3 DEF LoadedOrGone
<1>4. CASE current.bytes # Torn /\ bundle' # bundle
  <2>1. bundle'.model_mtime = m /\ bundle'.bytes = current.bytes
    BY <1>4 DEF Load, Runs
  <2>2. CASE \A f \in ModelFiles : f.mtime = m => f.bytes = current.bytes
    BY <1>1, <2>1, <2>2 DEF LoadedOrGone
  <2>3. CASE \E f \in ModelFiles : f.mtime = m /\ f.bytes # current.bytes
    <3>1. PICK f \in ModelFiles : f.mtime = m /\ f.bytes # current.bytes
      BY <2>3
    <3>2. \A g \in ModelFiles : g.bytes = current.bytes => g.mtime # m
      BY <3>1 DEF StampsAreUnique
    <3>3. \A g \in ModelFiles : Fresh(g) => g.mtime # m
      BY <1>4, <3>2 DEF Fresh, Unseen
    <3>4. current.mtime # m
      BY <3>2, FileTypes
    <3>5. ~direct \/ promoter.at = "register" => exported.mtime # m
      BY <3>3, FileTypes DEF SourcesAreFresh
    <3>6. promoter.at = "archive" =>
            (IF promoter.own THEN requested.mtime ELSE exported.mtime) # m
      BY <3>3, FileTypes DEF SourcesAreFresh
    <3>7. promoter.at = "truncate" => archive[promoter.version].mtime # m
      BY <3>3, ArchivedType, FileTypes DEF SourcesAreFresh
    <3>8. promoter.at # "write"
      BY <1>4 DEF SourcesAreFresh
    <3>9. promoter.at = "copystat" => archive[promoter.version].mtime # m
      BY <3>2, ArchivedType, FileTypes DEF SourcesAreFresh
    <3>10. Gone(m)
      BY <3>4, <3>5, <3>6, <3>7, <3>8, <3>9 DEF Gone
    <3>11. QED BY <1>1, <1>2, <2>1, <3>10 DEF LoadedOrGone
  <2>4. QED BY <2>2, <2>3
<1>5. QED BY <1>3, <1>4 DEF Load

LEMMA LoadedStep ==
  ASSUME ReloadTypeOK, StampsAreUnique, SourcesAreFresh, LoadedOrGone, [ReloadNext]_reloadVars,
         ExportsAreNew'
  PROVE  LoadedOrGone'
<1>1. CASE Load
  BY <1>1, LoadStep
<1>2. CASE bundle'.model_mtime = 0
  BY <1>2 DEF LoadedOrGone
<1>3. CASE bundle' = bundle
  <2> DEFINE m == bundle.model_mtime
  <2>1. CASE m = 0
    BY <1>3, <2>1 DEF LoadedOrGone
  <2>2. CASE \A f \in ModelFiles : f.mtime = m => f.bytes = bundle.bytes
    <3>1. PICK n : FilesFollow(n)
      BY FilesStep
    <3>2. m # Now
      BY FileTypes DEF StampsAreUnique, Now
    <3>3. \A f \in ModelFiles' : f.mtime = m => f.bytes = bundle.bytes
      BY <2>2, <3>1, <3>2 DEF FilesFollow
    <3>4. QED BY <1>3, <3>3 DEF LoadedOrGone
  <2>3. CASE Gone(m)
    <3>1. PICK x \in Nat : x = m
      BY FileTypes
    <3>2. x <= clock /\ Gone(x)
      BY <2>3, <3>1 DEF StampsAreUnique
    <3>3. Gone(x)'
      BY <3>2, GoneStays
    <3>4. bundle'.model_mtime = x
      BY <1>3, <3>1
    <3>5. QED BY <3>3, <3>4 DEF LoadedOrGone, Gone
  <2>4. QED BY <2>1, <2>2, <2>3 DEF LoadedOrGone
<1>4. ServiceRestarts \/ LoadAgain \/ LoadOther => bundle' = bundle \/ bundle'.model_mtime = 0
  BY OtherLoaded DEF ServiceRestarts, LoadAgain, Runs, Heuristic
<1>5. QED
  BY <1>1, <1>2, <1>3, <1>4
  DEF ReloadNext, ServiceSteps, ReadVersion, StatModel, StatMetadata, ReadRegistry, serviceVars,
      reloadVars

\* A service that knows the times of its files never takes bytes that are not current
\* for what is current: whenever its comparison finds nothing new, version and bytes are
\* both those of the current directory, whatever deaths of trainings, failed exports,
\* promotions and reads came between (shared/model_hot_reload.py).
THEOREM SameIsSame == ReloadSpec => []NothingNewIsSame
<1>1. ReloadTypeOK /\ ReloadDiscipline /\ [ReloadNext]_reloadVars => ReloadDiscipline'
  BY StampsStep, ExportsStay, SourcesStep, LoadedStep DEF ReloadDiscipline
<1>2. ReloadTypeOK /\ ReloadDiscipline => NothingNewIsSame
  <2> SUFFICES ASSUME ReloadTypeOK, ReloadDiscipline, ExportsAreNew, bundle.model_mtime # 0,
                      ~should_reload(metadata.version, current.mtime, metadata.mtime)
               PROVE  bundle.bytes = current.bytes /\ bundle.version = metadata.version
    BY DEF NothingNewIsSame
  <2>1. bundle.version = metadata.version /\ current.mtime = bundle.model_mtime
    BY DEF should_reload
  <2>2. bundle.bytes = current.bytes
    BY <2>1, FileTypes DEF ReloadDiscipline, LoadedOrGone, Gone
  <2>3. QED BY <2>1, <2>2
<1>3. QED
  BY <1>1, <1>2, ReloadTypeInit, ReloadTypeStep, ReloadInitially, PTL DEF ReloadSpec

-----------------------------------------------------------------------------
(* The intake of requests: types. *)

\* What a step does to the tasks.
LEMMA Becoming ==
  ASSUME task \in [Task -> Tasks], NEW t \in Task, NEW state \in Tasks, Becomes(t, state)
  PROVE  /\ task' \in [Task -> Tasks] /\ task'[t] = state
         /\ \A u \in Task \ {t} : task'[u] = task[u]
BY DEF Becomes

LEMMA IdleType ==
  /\ Idle \in Tasks /\ Idle.at = "idle" /\ Idle.left = {}
  /\ Scanning \in Tasks /\ Scanning.at = "members" /\ Scanning.left = {}
BY DEF Idle, Scanning, Tasks

\* A task that has saved a request goes on to its marker, or to the end.
Marking(r) == [Idle EXCEPT !.at = "mark", !.req = r]
Recording == [Idle EXCEPT !.at = "record"]

LEMMA SavedType ==
  ASSUME NEW r \in Request
  PROVE  /\ Marking(r) \in Tasks /\ Marking(r).left = {}
         /\ Marking(r).at = "mark" /\ Marking(r).req = r
         /\ Recording \in Tasks /\ Recording.left = {} /\ Recording.at = "record"
BY DEF Idle, Tasks, Marking, Recording

LEMMA IntakeTypeInit == IntakeInit => IntakeTypeOK
<1> SUFFICES ASSUME IntakeInit PROVE IntakeTypeOK
  OBVIOUS
<1>1. \A t \in Task : task[t] \in Tasks /\ task[t].at \in {"idle", "members"}
  BY IdleType DEF IntakeInit
<1>2. task \in [Task -> Tasks]
  BY <1>1 DEF IntakeInit
<1>3. /\ status \in [Request -> {"none"} \cup Live \cup Closed]
      /\ creator \in [Request -> Task \cup {NoTask}]
  BY DEF IntakeInit
<1>4. intakeFaults \in 0..MaxIntakeFaults
  BY IntakeParameters DEF IntakeParameters, IntakeInit
<1>5. QED
  BY <1>1, <1>2, <1>3, <1>4 DEF IntakeInit, IntakeTypeOK, At

\* What the saving of a status does to the documents.
LEMMA SaveType ==
  ASSUME IntakeTypeOK, NEW r \in Request, NEW s \in Live \cup Closed, Save(r, s)
  PROVE  /\ status' \in [Request -> {"none"} \cup Live \cup Closed]
         /\ old' \subseteq Request /\ unmarked' = unmarked \ {r}
         /\ status'[r] = s /\ \A x \in Request \ {r} : status'[x] = status[x]
BY DEF Save, IntakeTypeOK

\* What a document makes of the task that reads it.
LEMMA SeenType ==
  ASSUME NEW t \in Task, task[t] \in Tasks, At(t, "get"), NEW r \in Request
  PROVE  /\ Seen(t, r) \in Tasks
         /\ Seen(t, r).at \in {"get", "expire", "remove"}
         /\ Seen(t, r).left = task[t].left \ {r} /\ Seen(t, r).scan = task[t].scan
         /\ Seen(t, r).at # "get" => Seen(t, r).req = r
BY DEF Seen, Tasks, At

LEMMA IntakeTypeStep == IntakeTypeOK /\ [IntakeNext]_intakeVars => IntakeTypeOK'
<1> SUFFICES ASSUME IntakeTypeOK, [IntakeNext]_intakeVars PROVE IntakeTypeOK'
  OBVIOUS
<1> USE IntakeParameters DEF IntakeParameters
<1>1. ASSUME NEW t \in Task, Begin(t) PROVE IntakeTypeOK'
  <2> DEFINE next == [Idle EXCEPT !.at = IF trigger[t] = "DRIFT" THEN "cooldown" ELSE "members"]
  <2>1. next \in Tasks /\ next.at \notin {"expire", "remove", "mark"}
    BY DEF Idle, Tasks
  <2>2. /\ task' \in [Task -> Tasks] /\ task'[t] = next
        /\ \A u \in Task \ {t} : task'[u] = task[u]
    BY <1>1, <2>1, Becoming DEF Begin, IntakeTypeOK
  <2>3. QED
    BY <1>1, <2>1, <2>2 DEF Begin, IntakeTypeOK, At, documents, surroundings
<1>2. ASSUME NEW t \in Task, _is_in_cooldown(t) PROVE IntakeTypeOK'
  <2> DEFINE next == IF cooling THEN Idle ELSE
                       [task[t] EXCEPT !.at = IF trigger[t] = "DRIFT" THEN "members" ELSE "save"]
  <2>1. next \in Tasks /\ next.at \notin {"expire", "remove", "mark"}
    BY DEF Idle, Tasks, IntakeTypeOK
  <2>2. /\ task' \in [Task -> Tasks] /\ task'[t] = next
        /\ \A u \in Task \ {t} : task'[u] = task[u]
    BY <1>2, <2>1, Becoming DEF _is_in_cooldown, Steps, IntakeTypeOK
  <2>3. QED
    BY <1>2, <2>1, <2>2 DEF _is_in_cooldown, IntakeTypeOK, At, documents, surroundings
<1>3. ASSUME NEW t \in Task, ReadMembers(t) PROVE IntakeTypeOK'
  <2> DEFINE next == [task[t] EXCEPT !.at = "get", !.left = pending]
  <2>1. next \in Tasks /\ next.at \notin {"expire", "remove", "mark"}
    BY DEF Tasks, IntakeTypeOK
  <2>2. /\ task' \in [Task -> Tasks] /\ task'[t] = next
        /\ \A u \in Task \ {t} : task'[u] = task[u]
    BY <1>3, <2>1, Becoming DEF ReadMembers, IntakeTypeOK
  <2>3. QED
    BY <1>3, <2>1, <2>2 DEF ReadMembers, IntakeTypeOK, At, documents, surroundings
<1>4. ASSUME NEW t \in Task, GetDocument(t) PROVE IntakeTypeOK'
  <2>1. PICK r \in task[t].left : Becomes(t, Seen(t, r))
    BY <1>4 DEF GetDocument
  <2>2. r \in Request /\ task[t] \in Tasks
    BY DEF IntakeTypeOK, Tasks
  <2>3. Seen(t, r) \in Tasks /\ (Seen(t, r).at \in {"expire", "remove", "mark"} => Seen(t, r).req # NoRequest)
    BY <1>4, <2>2, SeenType, IntakeParameters DEF GetDocument, IntakeParameters
  <2>4. /\ task' \in [Task -> Tasks] /\ task'[t] = Seen(t, r)
        /\ \A u \in Task \ {t} : task'[u] = task[u]
    BY <2>1, <2>3, Becoming DEF IntakeTypeOK
  <2>5. QED
    BY <1>4, <2>3, <2>4 DEF GetDocument, IntakeTypeOK, At, documents, surroundings
<1>5. ASSUME NEW t \in Task, Expire(t) PROVE IntakeTypeOK'
  <2> DEFINE next == [task[t] EXCEPT !.at = "remove"]
  <2>1. next \in Tasks /\ next.req # NoRequest /\ task[t].req \in Request
    BY <1>5 DEF Tasks, IntakeTypeOK, Expire
  <2>2. /\ task' \in [Task -> Tasks] /\ task'[t] = next
        /\ \A u \in Task \ {t} : task'[u] = task[u]
    BY <1>5, <2>1, Becoming DEF Expire, Steps, IntakeTypeOK
  <2>3. /\ status' \in [Request -> {"none"} \cup Live \cup Closed]
        /\ old' \subseteq Request /\ unmarked' \subseteq Request
    BY <1>5, <2>1, SaveType DEF Expire, IntakeTypeOK, Closed
  <2>4. QED
    BY <1>5, <2>1, <2>2, <2>3 DEF Expire, IntakeTypeOK, At, surroundings
<1>6. ASSUME NEW t \in Task, _clear_pending_retraining(t) PROVE IntakeTypeOK'
  <2> DEFINE next == [task[t] EXCEPT !.at = "get", !.req = NoRequest]
  <2>1. next \in Tasks /\ next.at = "get"
    BY DEF Tasks, IntakeTypeOK
  <2>2. /\ task' \in [Task -> Tasks] /\ task'[t] = next
        /\ \A u \in Task \ {t} : task'[u] = task[u]
    BY <1>6, <2>1, Becoming DEF _clear_pending_retraining, IntakeTypeOK
  <2>3. QED
    BY <1>6, <2>1, <2>2 DEF _clear_pending_retraining, IntakeTypeOK, At, documents, surroundings
<1>7. ASSUME NEW t \in Task, _has_pending_request(t) PROVE IntakeTypeOK'
  <2> DEFINE next == IF task[t].scan \/ task[t].found THEN Idle ELSE
                       [Idle EXCEPT !.at = IF trigger[t] = "DRIFT" THEN "save" ELSE "cooldown"]
  <2>1. next \in Tasks /\ next.at \notin {"expire", "remove", "mark"}
    BY DEF Idle, Tasks
  <2>2. /\ task' \in [Task -> Tasks] /\ task'[t] = next
        /\ \A u \in Task \ {t} : task'[u] = task[u]
    BY <1>7, <2>1, Becoming DEF _has_pending_request, IntakeTypeOK
  <2>3. QED
    BY <1>7, <2>1, <2>2 DEF _has_pending_request, IntakeTypeOK, At, documents, surroundings
<1>8. ASSUME NEW t \in Task, _create_retraining_request(t) PROVE IntakeTypeOK'
  <2> DEFINE r == CHOOSE r \in Unused : TRUE
             asks == gated \/ trigger[t] = "DRIFT"
             next == IF asks THEN [Idle EXCEPT !.at = "mark", !.req = r]
                     ELSE [Idle EXCEPT !.at = "record"]
  <2>1. r \in Request
    BY <1>8 DEF _create_retraining_request, Unused
  <2>0. next = Marking(r) \/ next = Recording
    BY Zenon DEF Marking, Recording
  <2>2. next \in Tasks /\ (next.at \in {"expire", "remove", "mark"} => next.req # NoRequest)
    <3> HIDE DEF r, next
    <3>1. QED BY <2>0, <2>1, SavedType, IntakeParameters DEF IntakeParameters
  <2>3. Becomes(t, next)
    BY <1>8 DEF _create_retraining_request
  <2>4. /\ task' \in [Task -> Tasks] /\ task'[t] = next
        /\ \A u \in Task \ {t} : task'[u] = task[u]
    BY <2>2, <2>3, Becoming DEF IntakeTypeOK
  <2>5. /\ status' \in [Request -> {"none"} \cup Live \cup Closed]
        /\ old' \subseteq Request /\ unmarked' \subseteq Request
    BY <1>8, <2>1, SaveType DEF _create_retraining_request, IntakeTypeOK, Live
  <2>6. creator' \in [Request -> Task \cup {NoTask}]
    BY <1>8 DEF _create_retraining_request, IntakeTypeOK
  <2>7. UNCHANGED <<pending, surroundings>> /\ cooling' = cooling
    BY <1>8 DEF _create_retraining_request, IntakeTypeOK
  <2> HIDE DEF r, next
  <2>8. QED
    BY <2>2, <2>4, <2>5, <2>6, <2>7 DEF IntakeTypeOK, At, surroundings
<1>9. ASSUME NEW t \in Task, _mark_pending_retraining(t) PROVE IntakeTypeOK'
  <2> DEFINE next == [Idle EXCEPT !.at = "record"]
  <2>1. next \in Tasks /\ next.at = "record" /\ task[t].req \in Request
    BY <1>9 DEF Idle, Tasks, IntakeTypeOK, _mark_pending_retraining
  <2>2. /\ task' \in [Task -> Tasks] /\ task'[t] = next
        /\ \A u \in Task \ {t} : task'[u] = task[u]
    BY <1>9, <2>1, Becoming DEF _mark_pending_retraining, IntakeTypeOK
  <2>3. QED
    BY <1>9, <2>1, <2>2 DEF _mark_pending_retraining, IntakeTypeOK, At, documents, surroundings
<1>10. ASSUME NEW t \in Task, Becomes(t, Idle), cooling' \in BOOLEAN,
              intakeFaults' \in 0..MaxIntakeFaults,
              unmarked' \subseteq Request,
              UNCHANGED <<status, creator, old, pending, trigger, gated>>
       PROVE  IntakeTypeOK'
  <2>1. /\ task' \in [Task -> Tasks] /\ task'[t] = Idle
        /\ \A u \in Task \ {t} : task'[u] = task[u]
    BY <1>10, IdleType, Becoming DEF IntakeTypeOK
  <2>2. Idle.at = "idle"
    BY DEF Idle
  <2>3. QED
    BY <1>10, <2>1, <2>2 DEF IntakeTypeOK, At
<1>11. ASSUME NEW t \in Task, _record_trigger(t) PROVE IntakeTypeOK'
  BY <1>10, <1>11 DEF _record_trigger, documents, surroundings, IntakeTypeOK
<1>12. ASSUME NEW t \in Task, TaskFails(t) PROVE IntakeTypeOK'
  BY <1>10, <1>12 DEF TaskFails, MarkedNext, IntakeTypeOK
<1>13. CASE MonitorRestarts
  BY <1>13, IdleType DEF MonitorRestarts, MarkedNext, IntakeTypeOK, At, Idle, Scanning
<1>14. ASSUME NEW r \in Request,
              DashboardMoves(r) \/ RejectionClears(r) \/ DashboardPrunes(r) \/ Age(r)
       PROVE  IntakeTypeOK'
  BY <1>14 DEF DashboardMoves, RejectionClears, DashboardPrunes, Age, Save, IntakeTypeOK, At,
               surroundings, Live, Closed
<1>15. CASE CooldownEnds
  BY <1>15 DEF CooldownEnds, IntakeTypeOK, At, documents, surroundings
<1>16. CASE UNCHANGED intakeVars
  BY <1>16 DEF intakeVars, IntakeTypeOK, At
<1>17. QED
  BY <1>1, <1>2, <1>3, <1>4, <1>5, <1>6, <1>7, <1>8, <1>9, <1>11, <1>12, <1>13, <1>14, <1>15,
     <1>16 DEF IntakeNext, TaskSteps

\* What the intake keeps is of its type.
THEOREM IntakeTypesHold == IntakeSpec => []IntakeTypeOK
BY IntakeTypeInit, IntakeTypeStep, PTL DEF IntakeSpec

-----------------------------------------------------------------------------
(* What a task knows of its own requests. *)

LEMMA LookInit == IntakeInit => KnownRequests /\ LookDiscipline /\ MarkedOnce
<1> SUFFICES ASSUME IntakeInit PROVE KnownRequests /\ LookDiscipline /\ MarkedOnce
  OBVIOUS
<1>1. \A t \in Task : task[t].at \in {"idle", "members"} /\ task[t].left = {}
  BY IdleType DEF IntakeInit
<1>2. QED
  BY <1>1 DEF IntakeInit, KnownRequests, LookDiscipline, KnowsItsOwn, MarkedOnce, At

\* A step by which documents stay, and one task goes on to look at known requests.
LEMMA KnownStays ==
  ASSUME IntakeTypeOK, KnownRequests, NEW t \in Task, NEW state \in Tasks, Becomes(t, state),
         \A r \in state.left : status[r] # "none",
         state.at = "expire" => status[state.req] # "none",
         UNCHANGED <<status, creator>>, pending' \subseteq pending
  PROVE  KnownRequests'
BY Becoming DEF IntakeTypeOK, KnownRequests, At

\* A step of a task that marks nothing leaves what the others know.
LEMMA LookStays ==
  ASSUME IntakeTypeOK, LookDiscipline, MarkedOnce, NEW t \in Task, NEW state \in Tasks,
         Becomes(t, state), pending' \subseteq pending, UNCHANGED <<creator, trigger>>,
         state.at = "get" => \/ state.found \/ state.scan
                             \/ {r \in pending' : creator[r] = t} \subseteq state.left,
         state.at \in {"expire", "remove"} =>
           \/ state.found \/ state.scan
           \/ {r \in pending' : creator[r] = t} \subseteq state.left \cup {state.req},
         state.at = "save" \/ (state.at = "cooldown" /\ trigger[t] = "SCHEDULED") =>
           {r \in pending' : creator[r] = t} = {},
         state.at # "mark"
  PROVE  LookDiscipline' /\ MarkedOnce'
<1>1. task'[t] = state /\ \A u \in Task \ {t} : task'[u] = task[u]
  BY Becoming DEF IntakeTypeOK
<1>2. LookDiscipline'
  BY <1>1 DEF LookDiscipline, KnowsItsOwn, At
<1>3. QED
  BY <1>2 DEF MarkedOnce

LEMMA LookStep ==
  ASSUME IntakeTypeOK, KnownRequests, LookDiscipline, MarkedOnce, [IntakeNext]_intakeVars
  PROVE  KnownRequests' /\ LookDiscipline' /\ MarkedOnce'
<1> DEFINE Goal == KnownRequests' /\ LookDiscipline' /\ MarkedOnce'
<1>0. \A t \in Task : task[t] \in Tasks
  BY DEF IntakeTypeOK
<1>1. ASSUME NEW t \in Task, Begin(t) PROVE Goal
  <2> DEFINE next == [Idle EXCEPT !.at = IF trigger[t] = "DRIFT" THEN "cooldown" ELSE "members"]
  <2>1. next \in Tasks /\ next.left = {} /\ next.at \in {"cooldown", "members"}
        /\ (next.at = "cooldown" => trigger[t] = "DRIFT")
    BY DEF Idle, Tasks
  <2>2. Becomes(t, next) /\ pending' = pending /\ UNCHANGED <<status, creator, trigger>>
    BY <1>1 DEF Begin, documents, surroundings
  <2>3. QED
    BY <2>1, <2>2, KnownStays, LookStays
<1>2. ASSUME NEW t \in Task, _is_in_cooldown(t) PROVE Goal
  <2> DEFINE next == IF cooling THEN Idle ELSE
                       [task[t] EXCEPT !.at = IF trigger[t] = "DRIFT" THEN "members" ELSE "save"]
  <2>1. /\ next \in Tasks /\ next.left \in {{}, task[t].left}
        /\ next.at \in {"idle", "members", "save"}
        /\ next.at = "save" => trigger[t] = "SCHEDULED"
    BY <1>0, IdleType DEF Idle, Tasks, IntakeTypeOK
  <2>2. Becomes(t, next) /\ pending' = pending /\ UNCHANGED <<status, creator, trigger>>
    BY <1>2 DEF _is_in_cooldown, Steps, documents, surroundings
  <2>3. next.at = "save" => {r \in pending' : creator[r] = t} = {}
    BY <1>2, <2>1, <2>2 DEF LookDiscipline, KnowsItsOwn, _is_in_cooldown
  <2>4. \A r \in next.left : status[r] # "none"
    BY <2>1 DEF KnownRequests
  <2>5. QED
    BY <2>1, <2>2, <2>3, <2>4, KnownStays, LookStays
<1>3. ASSUME NEW t \in Task, ReadMembers(t) PROVE Goal
  <2> DEFINE next == [task[t] EXCEPT !.at = "get", !.left = pending]
  <2>1. next \in Tasks /\ next.at = "get" /\ next.left = pending
    BY <1>0 DEF Tasks, IntakeTypeOK
  <2>2. Becomes(t, next) /\ pending' = pending /\ UNCHANGED <<status, creator, trigger>>
    BY <1>3 DEF ReadMembers, documents, surroundings
  <2>3. /\ \A r \in next.left : status[r] # "none"
        /\ {r \in pending' : creator[r] = t} \subseteq next.left
    BY <2>1, <2>2 DEF KnownRequests
  <2>4. QED
    BY <2>1, <2>2, <2>3, KnownStays, LookStays
<1>4. ASSUME NEW t \in Task, GetDocument(t) PROVE Goal
  <2>1. PICK r \in task[t].left : Becomes(t, Seen(t, r))
    BY <1>4 DEF GetDocument
  <2>2. r \in Request /\ status[r] # "none" /\ At(t, "get")
    BY <1>0, <1>4 DEF Tasks, KnownRequests, GetDocument
  <2> DEFINE next == Seen(t, r)
  <2>3. pending' = pending /\ UNCHANGED <<status, creator, trigger>>
    BY <1>4 DEF GetDocument, documents, surroundings
  <2>4. /\ next \in Tasks /\ next.at \in {"get", "expire", "remove"}
        /\ next.left = task[t].left \ {r} /\ next.scan = task[t].scan
        /\ next.at # "get" => next.req = r
    BY <1>0, <2>2, SeenType DEF At
  <2>5. (task[t].found => next.found) /\ (next.at = "get" /\ creator[r] = t => next.found)
    BY <1>0, <2>2 DEF Seen, Tasks, At
  <2>6. task[t].found \/ task[t].scan \/ {x \in pending' : creator[x] = t} \subseteq task[t].left
    BY <2>2, <2>3 DEF LookDiscipline, KnowsItsOwn
  <2>7. CASE next.at = "get"
    <3>1. next.found \/ next.scan \/ {x \in pending' : creator[x] = t} \subseteq next.left
      BY <2>4, <2>5, <2>6, <2>7
    <3>2. QED
      BY <2>1, <2>2, <2>3, <2>4, <2>7, <3>1, KnownStays, LookStays DEF KnownRequests
  <2>8. CASE next.at # "get"
    <3>1. \/ next.found \/ next.scan
          \/ {x \in pending' : creator[x] = t} \subseteq next.left \cup {next.req}
      BY <2>4, <2>5, <2>6, <2>8
    <3>2. QED
      BY <2>1, <2>2, <2>3, <2>4, <2>8, <3>1, KnownStays, LookStays DEF KnownRequests
  <2>9. QED BY <2>7, <2>8
<1>5. ASSUME NEW t \in Task, Expire(t) PROVE Goal
  <2> DEFINE next == [task[t] EXCEPT !.at = "remove"]
  <2>1. next \in Tasks /\ next.at = "remove" /\ next.left = task[t].left
        /\ next.found = task[t].found /\ next.scan = task[t].scan /\ next.req = task[t].req
        /\ task[t].req \in Request
    BY <1>0, <1>5 DEF Tasks, IntakeTypeOK, Expire
  <2>2. Becomes(t, next) /\ pending' = pending /\ UNCHANGED <<creator, trigger>>
    BY <1>5 DEF Expire, Steps, surroundings
  <2>3. \/ next.found \/ next.scan
        \/ {r \in pending' : creator[r] = t} \subseteq next.left \cup {next.req}
    BY <1>5, <2>1, <2>2 DEF LookDiscipline, KnowsItsOwn, Expire
  <2>4. LookDiscipline' /\ MarkedOnce'
    BY <2>1, <2>2, <2>3, LookStays
  <2>5. \A r \in Request : status'[r] = "none" <=> status[r] = "none"
    BY <1>5, <2>1 DEF Expire, Save, KnownRequests, IntakeTypeOK
  <2>6. /\ task'[t].at = "remove" /\ task'[t].left = task[t].left
        /\ \A u \in Task \ {t} : task'[u] = task[u]
    BY <2>1, <2>2, Becoming DEF IntakeTypeOK
  <2>7. \A u \in Task : task[u].left \subseteq Request /\ (At(u, "expire") => task[u].req \in Request)
    BY <1>0 DEF Tasks, IntakeTypeOK
  <2>8. KnownRequests'
    BY <2>2, <2>5, <2>6, <2>7 DEF KnownRequests, IntakeTypeOK, At
  <2>9. QED BY <2>4, <2>8
<1>6. ASSUME NEW t \in Task, _clear_pending_retraining(t) PROVE Goal
  <2> DEFINE next == [task[t] EXCEPT !.at = "get", !.req = NoRequest]
  <2>1. next \in Tasks /\ next.at = "get" /\ next.left = task[t].left
        /\ next.found = task[t].found /\ next.scan = task[t].scan
    BY <1>0 DEF Tasks
  <2>2. /\ Becomes(t, next) /\ pending' = pending \ {task[t].req}
        /\ UNCHANGED <<status, creator, trigger>>
    BY <1>6 DEF _clear_pending_retraining, documents, surroundings
  <2>3. next.found \/ next.scan \/ {r \in pending' : creator[r] = t} \subseteq next.left
    BY <1>6, <2>1, <2>2 DEF LookDiscipline, KnowsItsOwn, _clear_pending_retraining
  <2>4. QED
    BY <2>1, <2>2, <2>3, KnownStays, LookStays DEF KnownRequests
<1>7. ASSUME NEW t \in Task, _has_pending_request(t) PROVE Goal
  <2> DEFINE next == IF task[t].scan \/ task[t].found THEN Idle ELSE
                       [Idle EXCEPT !.at = IF trigger[t] = "DRIFT" THEN "save" ELSE "cooldown"]
  <2>1. next \in Tasks /\ next.left = {} /\ next.at \in {"idle", "save", "cooldown"}
        /\ (next.at # "idle" => ~task[t].scan /\ ~task[t].found)
    BY DEF Idle, Tasks
  <2>2. Becomes(t, next) /\ pending' = pending /\ UNCHANGED <<status, creator, trigger>>
    BY <1>7 DEF _has_pending_request, documents, surroundings
  <2>3. next.at # "idle" => {r \in pending' : creator[r] = t} = {}
    BY <1>7, <2>1, <2>2 DEF LookDiscipline, KnowsItsOwn, _has_pending_request, AllSeen
  <2>4. QED
    BY <2>1, <2>2, <2>3, KnownStays, LookStays
<1>8. ASSUME NEW t \in Task, _create_retraining_request(t) PROVE Goal
  <2> DEFINE r == CHOOSE r \in Unused : TRUE
             asks == gated \/ trigger[t] = "DRIFT"
             next == IF asks THEN [Idle EXCEPT !.at = "mark", !.req = r]
                     ELSE [Idle EXCEPT !.at = "record"]
  <2>1. r \in Request /\ status[r] = "none"
    BY <1>8 DEF _create_retraining_request, Unused
  <2>0. next = Marking(r) \/ next = Recording
    BY Zenon DEF Marking, Recording
  <2>2. next \in Tasks /\ next.left = {} /\ next.at \in {"mark", "record"}
        /\ (next.at = "mark" => next.req = r)
    <3> HIDE DEF r, next
    <3>1. QED BY <2>0, <2>1, SavedType
  <2>3. /\ task'[t] = next
        /\ \A u \in Task \ {t} : task'[u] = task[u]
    BY <1>8, <2>2, Becoming DEF _create_retraining_request, IntakeTypeOK
  <2>4. /\ pending' = pending /\ trigger' = trigger
        /\ creator'[r] = t /\ status'[r] # "none"
        /\ \A x \in Request \ {r} : creator'[x] = creator[x] /\ status'[x] = status[x]
    BY <1>8, <2>1 DEF _create_retraining_request, Save, IntakeTypeOK, surroundings
  <2>5. r \notin pending /\ \A u \in Task : r \notin task[u].left /\ (At(u, "expire") => r # task[u].req)
    BY <2>1 DEF KnownRequests
  <2>6. \A u \in Task : {x \in pending' : creator'[x] = u} = {x \in pending : creator[x] = u}
    BY <2>4, <2>5 DEF IntakeTypeOK
  <2>7. \A u \in Task : At(u, "mark") => task[u].req \in Request \ {r}
    <3> SUFFICES ASSUME NEW u \in Task, At(u, "mark") PROVE task[u].req \in Request \ {r}
      OBVIOUS
    <3>1. task[u].req \in Request
      BY <1>0 DEF Tasks, IntakeTypeOK
    <3>2. creator[task[u].req] = u
      BY DEF LookDiscipline, KnowsItsOwn
    <3>3. creator[r] = NoTask
      BY <2>1 DEF KnownRequests
    <3>4. QED
      BY <3>1, <3>2, <3>3, IntakeParameters DEF IntakeParameters
  <2>8. {x \in pending : creator[x] = t} = {}
    BY <1>8 DEF LookDiscipline, KnowsItsOwn, _create_retraining_request
  <2>9. \A u \in Task : task[u].left \subseteq Request /\ (At(u, "expire") => task[u].req \in Request)
    BY <1>0 DEF Tasks, IntakeTypeOK
  <2>10. LookDiscipline'
    <3>1. \A u \in Task \ {t} : At(u, "mark") => creator'[task[u].req] = u
      BY <2>4, <2>7 DEF LookDiscipline, KnowsItsOwn
    <3>2. {x \in pending' : creator'[x] = t} = {}
      BY <2>6, <2>8
    <3>3. KnowsItsOwn(t)'
      BY <2>2, <2>3, <2>4, <3>2 DEF KnowsItsOwn, At
    <3>4. ASSUME NEW u \in Task \ {t} PROVE KnowsItsOwn(u)'
      BY <2>3, <2>4, <2>6, <3>1 DEF LookDiscipline, KnowsItsOwn, At
    <3>5. QED
      BY <3>3, <3>4 DEF LookDiscipline
  <2>11. MarkedOnce'
    <3>1. \A x \in pending' : x \in pending /\ creator'[x] = creator[x]
      BY <2>4, <2>5 DEF IntakeTypeOK
    <3>2. QED
      BY <3>1 DEF MarkedOnce
  <2>12. KnownRequests'
    <3> HIDE DEF r, next
    <3>1. \A x \in Request : status'[x] = "none" <=> creator'[x] = NoTask
      <4>1. creator'[r] # NoTask
        BY <2>4, IntakeParameters DEF IntakeParameters
      <4>2. \A x \in Request \ {r} : status'[x] = "none" <=> creator'[x] = NoTask
        BY <2>4 DEF KnownRequests
      <4>3. QED BY <2>4, <4>1, <4>2
    <3>2. \A x \in pending' : status'[x] # "none"
      BY <2>4, <2>5 DEF KnownRequests, IntakeTypeOK
    <3>3. \A u \in Task \ {t} : /\ \A x \in task'[u].left : status'[x] # "none"
                                /\ task'[u].at = "expire" => status'[task'[u].req] # "none"
      BY <2>3, <2>4, <2>5, <2>9 DEF KnownRequests, At
    <3>4. /\ \A x \in task'[t].left : status'[x] # "none"
          /\ task'[t].at # "expire"
      BY <2>2, <2>3
    <3>5. \A u \in Task : /\ \A x \in task'[u].left : status'[x] # "none"
                          /\ task'[u].at = "expire" => status'[task'[u].req] # "none"
      BY <3>3, <3>4
    <3>6. QED
      BY <3>1, <3>2, <3>5 DEF KnownRequests, At
  <2>13. QED BY <2>10, <2>11, <2>12
<1>9. ASSUME NEW t \in Task, _mark_pending_retraining(t) PROVE Goal
  <2> DEFINE next == [Idle EXCEPT !.at = "record"]
             r == task[t].req
  <2>1. next \in Tasks /\ next.at = "record" /\ next.left = {}
    BY DEF Idle, Tasks
  <2>2. /\ task'[t] = next /\ \A u \in Task \ {t} : task'[u] = task[u]
        /\ pending' = pending \cup {r} /\ UNCHANGED <<status, creator, trigger>>
    BY <1>9, <2>1, Becoming
    DEF _mark_pending_retraining, IntakeTypeOK, surroundings
  <2>3. r \in Request /\ creator[r] = t /\ {x \in pending : creator[x] = t} = {}
    BY <1>0, <1>9 DEF _mark_pending_retraining, LookDiscipline, KnowsItsOwn, Tasks, IntakeTypeOK
  <2>4. \A u \in Task \ {t} : {x \in pending' : creator'[x] = u} = {x \in pending : creator[x] = u}
    BY <2>2, <2>3
  <2>5. LookDiscipline'
    <3>1. \A u \in Task \ {t} : At(u, "mark") => creator'[task[u].req] = u
      BY <2>2 DEF LookDiscipline, KnowsItsOwn
    <3>2. KnowsItsOwn(t)'
      BY <2>1, <2>2 DEF KnowsItsOwn, At
    <3>3. ASSUME NEW u \in Task \ {t} PROVE KnowsItsOwn(u)'
      BY <2>2, <2>4, <3>1 DEF LookDiscipline, KnowsItsOwn, At
    <3>4. QED
      BY <3>2, <3>3 DEF LookDiscipline
  <2>6. MarkedOnce'
    BY <2>2, <2>3 DEF MarkedOnce
  <2>7. status[r] # "none"
    BY <2>3, IntakeParameters DEF KnownRequests, IntakeParameters
  <2>8. KnownRequests'
    BY <2>1, <2>2, <2>7 DEF KnownRequests, At
  <2>9. QED BY <2>5, <2>6, <2>8
<1>10. ASSUME NEW t \in Task, Becomes(t, Idle), UNCHANGED <<status, creator, pending, trigger>>
       PROVE  Goal
  BY <1>10, IdleType, KnownStays, LookStays
<1>11. ASSUME NEW t \in Task, _record_trigger(t) \/ TaskFails(t) PROVE Goal
  BY <1>10, <1>11 DEF _record_trigger, TaskFails, documents, surroundings
<1>12. CASE MonitorRestarts
  <2>1. \A t \in Task : task'[t].at \in {"idle", "members"} /\ task'[t].left = {}
    BY <1>12, IdleType DEF MonitorRestarts
  <2>2. UNCHANGED <<status, creator, pending>>
    BY <1>12 DEF MonitorRestarts
  <2>3. QED
    BY <2>1, <2>2 DEF KnownRequests, LookDiscipline, KnowsItsOwn, MarkedOnce, At
<1>13. ASSUME NEW r \in Request, DashboardMoves(r) \/ RejectionClears(r) \/ DashboardPrunes(r)
       PROVE  Goal
  <2>1. /\ \A x \in Request : status'[x] = "none" <=> status[x] = "none"
        /\ pending' \subseteq pending /\ UNCHANGED <<creator, trigger, task>>
    BY <1>13 DEF DashboardMoves, RejectionClears, DashboardPrunes, Save, IntakeTypeOK, Live,
                 Closed, KnownRequests, surroundings
  <2>2. \A u \in Task : task[u].left \subseteq Request /\ (At(u, "expire") => task[u].req \in Request)
    BY <1>0 DEF Tasks, IntakeTypeOK
  <2>3. KnownRequests'
    BY <2>1, <2>2 DEF KnownRequests, IntakeTypeOK, At
  <2>4. LookDiscipline' /\ MarkedOnce'
    BY <2>1 DEF LookDiscipline, KnowsItsOwn, MarkedOnce, At
  <2>5. QED BY <2>3, <2>4
<1>14. ASSUME UNCHANGED <<status, creator, pending, task, trigger>> PROVE Goal
  BY <1>14 DEF KnownRequests, LookDiscipline, KnowsItsOwn, MarkedOnce, At
<1>15. ASSUME NEW r \in Request, Age(r) PROVE Goal
  BY <1>14, <1>15 DEF Age, surroundings
<1>16. CASE CooldownEnds
  BY <1>14, <1>16 DEF CooldownEnds, documents, surroundings
<1>17. CASE UNCHANGED intakeVars
  BY <1>14, <1>17 DEF intakeVars
<1>18. QED
  BY <1>1, <1>2, <1>3, <1>4, <1>5, <1>6, <1>7, <1>8, <1>9, <1>11, <1>12, <1>13, <1>15, <1>16,
     <1>17 DEF IntakeNext, TaskSteps

\* A step of a task that touches neither documents nor markers leaves every waiting
\* request its marker, or the task that is about to set it.
LEMMA MarkersStay ==
  ASSUME IntakeTypeOK, MarkersAreThere, NEW t \in Task, NEW state \in Tasks,
         Becomes(t, state), ~At(t, "mark"), UNCHANGED <<status, unmarked, pending>>,
         state.at = "remove" => status[state.req] \in Closed
  PROVE  MarkersAreThere'
<1>1. task'[t] = state /\ \A u \in Task \ {t} : task'[u] = task[u]
  BY Becoming DEF IntakeTypeOK
<1>2. \A u \in Task : At(u, "mark") => At(u, "mark")' /\ task'[u].req = task[u].req
  BY <1>1 DEF At
<1>3. QED
  BY <1>1, <1>2 DEF MarkersAreThere, At

LEMMA MarkersStep ==
  ASSUME IntakeTypeOK, KnownRequests, MarkersAreThere, [IntakeNext]_intakeVars
  PROVE  MarkersAreThere'
<1>0. \A t \in Task : task[t] \in Tasks
  BY DEF IntakeTypeOK
<1>1. ASSUME NEW t \in Task, Begin(t) PROVE MarkersAreThere'
  <2> DEFINE next == [Idle EXCEPT !.at = IF trigger[t] = "DRIFT" THEN "cooldown" ELSE "members"]
  <2>1. next \in Tasks /\ next.at # "remove"
    BY DEF Idle, Tasks
  <2>2. QED
    BY <1>1, <2>1, MarkersStay DEF Begin, documents, At
<1>2. ASSUME NEW t \in Task, _is_in_cooldown(t) PROVE MarkersAreThere'
  <2> DEFINE next == IF cooling THEN Idle ELSE
                       [task[t] EXCEPT !.at = IF trigger[t] = "DRIFT" THEN "members" ELSE "save"]
  <2>1. next \in Tasks /\ next.at # "remove"
    BY <1>0, IdleType DEF Idle, Tasks
  <2>2. Becomes(t, next)
    BY <1>2 DEF _is_in_cooldown, Steps
  <2>3. QED
    BY <1>2, <2>1, <2>2, MarkersStay DEF _is_in_cooldown, documents, At
<1>3. ASSUME NEW t \in Task, ReadMembers(t) PROVE MarkersAreThere'
  <2> DEFINE next == [task[t] EXCEPT !.at = "get", !.left = pending]
  <2>1. next \in Tasks /\ next.at # "remove"
    BY <1>0 DEF Tasks, IntakeTypeOK
  <2>2. QED
    BY <1>3, <2>1, MarkersStay DEF ReadMembers, documents, At
<1>4. ASSUME NEW t \in Task, GetDocument(t) PROVE MarkersAreThere'
  <2>1. PICK r \in task[t].left : Becomes(t, Seen(t, r))
    BY <1>4 DEF GetDocument
  <2>2. r \in Request /\ At(t, "get")
    BY <1>0, <1>4 DEF Tasks, GetDocument
  <2>3. Seen(t, r) \in Tasks
    BY <1>0, <2>2, SeenType
  <2>4. Seen(t, r).at = "remove" => status[Seen(t, r).req] \in Closed
    BY <1>0, <2>2 DEF Seen, Tasks, At
  <2>5. QED
    BY <1>4, <2>1, <2>2, <2>3, <2>4, MarkersStay DEF GetDocument, documents, At
<1>5. ASSUME NEW t \in Task, Expire(t) PROVE MarkersAreThere'
  <2> DEFINE next == [task[t] EXCEPT !.at = "remove"]
  <2>1. next \in Tasks /\ next.at = "remove" /\ next.req = task[t].req /\ task[t].req \in Request
    BY <1>0, <1>5 DEF Tasks, IntakeTypeOK, Expire
  <2>2. task'[t] = next /\ \A u \in Task \ {t} : task'[u] = task[u]
    BY <1>5, <2>1, Becoming DEF Expire, Steps, IntakeTypeOK
  <2>3. /\ status'[task[t].req] = "closed" /\ unmarked' = unmarked \ {task[t].req}
        /\ \A x \in Request \ {task[t].req} : status'[x] = status[x]
    BY <1>5, <2>1, SaveType DEF Expire, Closed
  <2>4. \A u \in Task : At(u, "mark") => At(u, "mark")' /\ task'[u].req = task[u].req
    BY <1>5, <2>2 DEF At, Expire
  <2>5. \A u \in Task : At(u, "remove") => task[u].req \in Request
    BY <1>0 DEF Tasks, IntakeTypeOK
  <2>6. pending' = pending
    BY <1>5 DEF Expire
  <2>7. ASSUME NEW x \in Request, status'[x] = "pending_approval"
        PROVE  x \in pending' \cup unmarked' \/ \E u \in Task : At(u, "mark")' /\ task'[u].req = x
    <3>1. x # task[t].req /\ status[x] = "pending_approval"
      BY <2>1, <2>3, <2>7
    <3>2. QED
      BY <2>3, <2>4, <2>6, <3>1 DEF MarkersAreThere
  <2>8. ASSUME NEW u \in Task, At(u, "remove")' PROVE status'[task'[u].req] \in Closed
    <3>1. CASE u = t
      BY <2>1, <2>2, <2>3, <3>1 DEF Closed
    <3>2. CASE u # t
      BY <2>2, <2>3, <2>5, <2>8, <3>2 DEF MarkersAreThere, At, Closed
    <3>3. QED BY <3>1, <3>2
  <2>9. QED
    BY <2>7, <2>8 DEF MarkersAreThere
<1>6. ASSUME NEW t \in Task, _clear_pending_retraining(t) PROVE MarkersAreThere'
  <2> DEFINE next == [task[t] EXCEPT !.at = "get", !.req = NoRequest]
  <2>1. next \in Tasks /\ next.at = "get"
    BY <1>0 DEF Tasks
  <2>2. task'[t] = next /\ \A u \in Task \ {t} : task'[u] = task[u]
    BY <1>6, <2>1, Becoming DEF _clear_pending_retraining, IntakeTypeOK
  <2>3. /\ UNCHANGED <<status, unmarked>> /\ pending' = pending \ {task[t].req}
        /\ status[task[t].req] \in Closed
    BY <1>6 DEF _clear_pending_retraining, documents, MarkersAreThere
  <2>4. \A u \in Task : At(u, "mark") => At(u, "mark")' /\ task'[u].req = task[u].req
    BY <1>6, <2>2 DEF At, _clear_pending_retraining
  <2>5. ASSUME NEW x \in Request, status'[x] = "pending_approval"
        PROVE  x \in pending' \cup unmarked' \/ \E u \in Task : At(u, "mark")' /\ task'[u].req = x
    <3>1. x # task[t].req /\ status[x] = "pending_approval"
      BY <2>3, <2>5 DEF Closed
    <3>2. x \in pending \cup unmarked \/ \E u \in Task : At(u, "mark") /\ task[u].req = x
      BY <3>1 DEF MarkersAreThere
    <3>3. x \in pending \cup unmarked => x \in pending' \cup unmarked'
      BY <2>3, <3>1
    <3>4. QED
      BY <2>4, <3>2, <3>3
  <2>6. ASSUME NEW u \in Task, At(u, "remove")' PROVE status'[task'[u].req] \in Closed
    <3>1. u # t /\ At(u, "remove") /\ task'[u].req = task[u].req
      BY <2>1, <2>2, <2>6 DEF At
    <3>2. QED
      BY <2>3, <3>1 DEF MarkersAreThere
  <2>7. QED
    BY <2>5, <2>6 DEF MarkersAreThere
<1>7. ASSUME NEW t \in Task, _has_pending_request(t) PROVE MarkersAreThere'
  <2> DEFINE next == IF task[t].scan \/ task[t].found THEN Idle ELSE
                       [Idle EXCEPT !.at = IF trigger[t] = "DRIFT" THEN "save" ELSE "cooldown"]
  <2>1. next \in Tasks /\ next.at # "remove"
    BY DEF Idle, Tasks
  <2>2. Becomes(t, next)
    BY <1>7 DEF _has_pending_request
  <2>3. QED
    BY <1>7, <2>1, <2>2, MarkersStay DEF _has_pending_request, AllSeen, documents, At
<1>8. ASSUME NEW t \in Task, _create_retraining_request(t) PROVE MarkersAreThere'
  <2> DEFINE r == CHOOSE r \in Unused : TRUE
             asks == gated \/ trigger[t] = "DRIFT"
             next == IF asks THEN Marking(r) ELSE Recording
  <2>1. r \in Request /\ status[r] = "none"
    BY <1>8 DEF _create_retraining_request, Unused
  <2>2. next \in Tasks /\ next.at = (IF asks THEN "mark" ELSE "record") /\ (asks => next.req = r)
    <3> HIDE DEF r
    <3>1. QED BY <2>1, SavedType
  <2>3. Becomes(t, next)
    BY <1>8 DEF _create_retraining_request, Marking, Recording
  <2>4. task'[t] = next /\ \A u \in Task \ {t} : task'[u] = task[u]
    <3> HIDE DEF r, next
    <3>1. QED BY <2>2, <2>3, Becoming DEF IntakeTypeOK
  <2>5. Save(r, IF asks THEN "pending_approval" ELSE "approved") /\ pending' = pending /\ At(t, "save")
    BY <1>8 DEF _create_retraining_request
  <2> HIDE DEF r, next, asks
  <2>6. /\ status'[r] = (IF asks THEN "pending_approval" ELSE "approved")
        /\ unmarked' = unmarked \ {r}
        /\ \A x \in Request \ {r} : status'[x] = status[x]
    BY <2>1, <2>5, SaveType DEF Live
  <2>7. \A u \in Task : At(u, "mark") => At(u, "mark")' /\ task'[u].req = task[u].req
    BY <2>4, <2>5 DEF At
  <2>8. \A x \in Request \ {r} :
          status'[x] = "pending_approval" => \/ x \in pending' \cup unmarked'
                                            \/ \E u \in Task : At(u, "mark")' /\ task'[u].req = x
    BY <2>5, <2>6, <2>7 DEF MarkersAreThere
  <2>9. status'[r] = "pending_approval" => At(t, "mark")' /\ task'[t].req = r
    BY <2>2, <2>4, <2>6 DEF At
  <2>10. ASSUME NEW u \in Task, At(u, "remove")' PROVE status'[task'[u].req] \in Closed
    <3>1. u # t /\ At(u, "remove") /\ task'[u] = task[u]
      BY <2>2, <2>4, <2>10 DEF At
    <3>2. status[task[u].req] \in Closed /\ task[u].req \in Request
      BY <1>0, <3>1 DEF MarkersAreThere, Tasks, IntakeTypeOK
    <3>3. task[u].req # r
      BY <2>1, <3>2 DEF Closed
    <3>4. QED BY <2>6, <3>1, <3>2, <3>3
  <2>11. QED
    BY <2>8, <2>9, <2>10 DEF MarkersAreThere
<1>9. ASSUME NEW t \in Task, _mark_pending_retraining(t) PROVE MarkersAreThere'
  <2> DEFINE next == [Idle EXCEPT !.at = "record"]
  <2>1. next \in Tasks /\ next.at = "record"
    BY DEF Idle, Tasks
  <2>2. task'[t] = next /\ \A u \in Task \ {t} : task'[u] = task[u]
    BY <1>9, <2>1, Becoming DEF _mark_pending_retraining, IntakeTypeOK
  <2>3. /\ pending' = pending \cup {task[t].req} /\ unmarked' = unmarked \ {task[t].req}
        /\ status' = status
    BY <1>9 DEF _mark_pending_retraining
  <2>4. \A u \in Task : At(u, "mark") =>
          task[u].req \in pending' \/ (At(u, "mark")' /\ task'[u].req = task[u].req)
    BY <2>2, <2>3 DEF At
  <2>5. ASSUME NEW x \in Request, status'[x] = "pending_approval"
        PROVE  x \in pending' \cup unmarked' \/ \E u \in Task : At(u, "mark")' /\ task'[u].req = x
    <3>1. CASE x = task[t].req
      BY <2>3, <3>1
    <3>2. CASE x # task[t].req
      BY <2>3, <2>4, <2>5, <3>2 DEF MarkersAreThere
    <3>3. QED BY <3>1, <3>2
  <2>6. ASSUME NEW u \in Task, At(u, "remove")' PROVE status'[task'[u].req] \in Closed
    BY <2>1, <2>2, <2>3, <2>6 DEF MarkersAreThere, At
  <2>7. QED
    BY <2>5, <2>6 DEF MarkersAreThere
<1>10. ASSUME NEW t \in Task, _record_trigger(t) PROVE MarkersAreThere'
  BY <1>10, IdleType, MarkersStay DEF _record_trigger, documents, At
<1>11. ASSUME NEW t \in Task, TaskFails(t) PROVE MarkersAreThere'
  <2>1. task'[t] = Idle /\ Idle.at = "idle" /\ \A u \in Task \ {t} : task'[u] = task[u]
    BY <1>11, IdleType, Becoming DEF TaskFails, IntakeTypeOK
  <2>2. UNCHANGED <<status, pending>> /\ unmarked' = unmarked \cup MarkedNext({t})
    BY <1>11 DEF TaskFails
  <2>3. ASSUME NEW x \in Request, status[x] = "pending_approval",
               NEW u \in Task, At(u, "mark"), task[u].req = x
        PROVE  x \in unmarked' \/ (At(u, "mark")' /\ task'[u].req = x)
    BY <2>1, <2>2, <2>3 DEF MarkedNext, At
  <2>4. QED
    BY <2>1, <2>2, <2>3 DEF MarkersAreThere, At
<1>12. CASE MonitorRestarts
  <2>1. \A t \in Task : task'[t].at \in {"idle", "members"}
    BY <1>12, IdleType DEF MonitorRestarts
  <2>2. UNCHANGED <<status, pending>> /\ unmarked' = unmarked \cup MarkedNext(Task)
    BY <1>12 DEF MonitorRestarts
  <2>3. QED
    BY <2>1, <2>2 DEF MarkersAreThere, MarkedNext, At
<1>13. ASSUME NEW r \in Request, DashboardMoves(r) PROVE MarkersAreThere'
  <2>1. PICK s \in {"approved", "closed"} : Save(r, s) /\ status[r] \in Live
    BY <1>13 DEF DashboardMoves, Live
  <2>2. /\ status'[r] = s /\ unmarked' = unmarked \ {r}
        /\ \A x \in Request \ {r} : status'[x] = status[x]
    BY <2>1, SaveType DEF Live, Closed
  <2>3. UNCHANGED <<pending, task>>
    BY <1>13 DEF DashboardMoves
  <2>4. \A u \in Task : At(u, "remove") => task[u].req \in Request
    BY <1>0 DEF Tasks, IntakeTypeOK
  <2>5. QED
    BY <2>1, <2>2, <2>3, <2>4 DEF MarkersAreThere, At, Live, Closed
<1>14. ASSUME NEW r \in Request, RejectionClears(r) PROVE MarkersAreThere'
  BY <1>14 DEF RejectionClears, MarkersAreThere, At, Live
<1>15. ASSUME NEW r \in Request, DashboardPrunes(r) PROVE MarkersAreThere'
  <2>1. CASE status[r] \in Closed /\ pending' = pending \ {r} /\ UNCHANGED <<status, unmarked, task>>
    BY <2>1 DEF MarkersAreThere, At, Closed
  <2>2. CASE Save(r, "closed") /\ UNCHANGED <<pending, task>>
    <3>1. /\ status'[r] = "closed" /\ unmarked' = unmarked \ {r}
          /\ \A x \in Request \ {r} : status'[x] = status[x]
      BY <2>2, SaveType DEF Closed
    <3>2. \A u \in Task : At(u, "remove") => task[u].req \in Request
      BY <1>0 DEF Tasks, IntakeTypeOK
    <3>3. QED
      BY <2>2, <3>1, <3>2 DEF MarkersAreThere, At, Closed
  <2>3. QED
    BY <1>15, <2>1, <2>2 DEF DashboardPrunes
<1>16. ASSUME NEW r \in Request, Age(r) PROVE MarkersAreThere'
  BY <1>16 DEF Age, MarkersAreThere, At
<1>17. CASE CooldownEnds
  BY <1>17 DEF CooldownEnds, documents, MarkersAreThere, At
<1>18. CASE UNCHANGED intakeVars
  BY <1>18 DEF intakeVars, MarkersAreThere, At
<1>19. QED
  BY <1>1, <1>2, <1>3, <1>4, <1>5, <1>6, <1>7, <1>8, <1>9, <1>10, <1>11, <1>12, <1>13, <1>14,
     <1>15, <1>16, <1>17, <1>18 DEF IntakeNext, TaskSteps

\* However the tasks of the monitor interleave, and whatever operators, jobs, failed
\* commands and restarts do meanwhile, a task has two requests waiting for approval only
\* if one of them was left without a marker, by a creator that failed or by a rejection
\* (_has_pending_request, _create_retraining_request).
THEOREM OneWaits == IntakeSpec => []OneWaitsEach
<1> DEFINE I == KnownRequests /\ LookDiscipline /\ MarkedOnce /\ MarkersAreThere
<1>1. IntakeInit => I
  BY LookInit, IdleType DEF IntakeInit, MarkersAreThere, At
<1>2. IntakeTypeOK /\ I /\ [IntakeNext]_intakeVars => I'
  BY LookStep, MarkersStep
<1>3. IntakeTypeOK /\ I => OneWaitsEach
  <2> SUFFICES ASSUME IntakeTypeOK, I, NEW r \in Request \ unmarked, NEW s \in Request \ unmarked,
                      status[r] = "pending_approval", status[s] = "pending_approval",
                      creator[r] = creator[s]
               PROVE  r = s
    BY DEF OneWaitsEach
  <2>1. \A x \in {r, s} : x \in pending \/ \E t \in Task : At(t, "mark") /\ task[t].req = x
    BY DEF MarkersAreThere
  <2>2. \A t \in Task : At(t, "mark") =>
          creator[task[t].req] = t /\ \A x \in pending : creator[x] # t
    BY DEF LookDiscipline, KnowsItsOwn
  <2>3. QED
    BY <2>1, <2>2 DEF MarkedOnce
<1> HIDE DEF I
<1>4. QED
  BY <1>1, <1>2, <1>3, IntakeTypeInit, IntakeTypeStep, PTL DEF IntakeSpec

-----------------------------------------------------------------------------
(* The fault engine. *)

LEMMA FaultTypeInit == FaultInit => FaultTypeOK /\ FaultsAreWatched
<1> SUFFICES ASSUME FaultInit
             PROVE  FaultTypeOK /\ FaultsAreWatched
    OBVIOUS
<1>1. _active_scenario \in BOOLEAN
  BY DEF FaultInit
<1>2. engineFaults \in 0..MaxEngineFaults
  BY FaultParameters DEF FaultParameters, FaultInit
<1>3. FaultsAreWatched
  BY Zenon DEF FaultInit, FaultsAreWatched
<1>4. QED BY <1>1, <1>2, <1>3 DEF FaultInit, FaultTypeOK

\* The count of faults stays in its range.
LEMMA EngineFaultsType ==
  ASSUME FaultTypeOK, Outage \/ UNCHANGED engineFaults
  PROVE  engineFaults' \in 0..MaxEngineFaults
BY FaultParameters DEF FaultParameters, FaultTypeOK, Outage

LEMMA FaultTypeStep == FaultTypeOK /\ [FaultNext]_faultVars => FaultTypeOK'
<1> SUFFICES ASSUME FaultTypeOK, [FaultNext]_faultVars
             PROVE  FaultTypeOK'
    OBVIOUS
<1>1. Outage \/ UNCHANGED engineFaults
  BY DEF FaultNext, EngineWorks, inject_fault, _schedule_fault_expiry, start_scenario,
         _run_scenario, ScenarioEnds, stop_scenario, EngineDies, startup, StartsUncleared,
         _activate_fault, _deactivate_fault, faultVars
<1>2. engineFaults' \in 0..MaxEngineFaults
  BY <1>1, EngineFaultsType
<1>3. _active_scenario' \in BOOLEAN
  BY Zenon
  DEF FaultTypeOK, FaultNext, EngineWorks, inject_fault, _schedule_fault_expiry, start_scenario,
      _run_scenario, ScenarioEnds, stop_scenario, EngineDies, startup, StartsUncleared, scenario,
      faultVars
<1>4. /\ _scenario_task' \in {"created", "asleep", "done"}
      /\ engine' \in {"up", "starting"}
  BY DEF FaultTypeOK, FaultNext, EngineWorks, inject_fault, _schedule_fault_expiry,
         start_scenario, _run_scenario, ScenarioEnds, stop_scenario, EngineDies, startup,
         StartsUncleared, scenario, faultVars
<1> DEFINE Sets == /\ _active_faults' \subseteq SimFault /\ faultHash' \subseteq SimFault
                   /\ timers' \subseteq SimFault /\ fault_ids' \subseteq SimFault
                   /\ injected' \subseteq SimFault /\ stranded' \subseteq SimFault
<1>5. Sets
  <2> USE DEF FaultTypeOK, scenario
  <2>1. ASSUME NEW f \in SimFault, inject_fault(f)
        PROVE  Sets
    BY <2>1 DEF inject_fault, _activate_fault
  <2>2. ASSUME NEW f \in SimFault, _schedule_fault_expiry(f)
        PROVE  Sets
    BY <2>2 DEF _schedule_fault_expiry, _deactivate_fault
  <2>3. CASE start_scenario
    BY <2>3 DEF start_scenario
  <2>4. CASE _run_scenario
    BY <2>4 DEF _run_scenario, _activate_fault
  <2>5. CASE ScenarioEnds
    BY <2>5 DEF ScenarioEnds, _deactivate_fault
  <2>6. CASE stop_scenario
    BY <2>6 DEF stop_scenario, _deactivate_fault
  <2>7. CASE EngineDies \/ startup \/ StartsUncleared
    BY <2>7 DEF EngineDies, startup, StartsUncleared
  <2>8. CASE UNCHANGED faultVars
    BY <2>8 DEF faultVars
  <2>9. QED
    BY <2>1, <2>2, <2>3, <2>4, <2>5, <2>6, <2>7, <2>8 DEF FaultNext, EngineWorks
<1>6. QED BY <1>2, <1>3, <1>4, <1>5 DEF FaultTypeOK

\* A fault and its expiry task begin and end in one step of the event loop; so do the
\* faults of a scenario.
LEMMA WatchStep == FaultsAreWatched /\ [FaultNext]_faultVars => FaultsAreWatched'
<1> SUFFICES ASSUME FaultsAreWatched, [FaultNext]_faultVars
             PROVE  FaultsAreWatched'
    OBVIOUS
<1> USE DEF FaultsAreWatched, scenario
<1>1. ASSUME NEW f \in SimFault, inject_fault(f)
      PROVE  FaultsAreWatched'
  BY <1>1 DEF inject_fault, _activate_fault
<1>2. ASSUME NEW f \in SimFault, _schedule_fault_expiry(f)
      PROVE  FaultsAreWatched'
  BY <1>2 DEF _schedule_fault_expiry, _deactivate_fault
<1>3. CASE start_scenario
  BY <1>3 DEF start_scenario
<1>4. CASE _run_scenario
  BY <1>4 DEF _run_scenario, _activate_fault
<1>5. CASE ScenarioEnds
  BY <1>5 DEF ScenarioEnds, _deactivate_fault
<1>6. CASE stop_scenario
  BY <1>6 DEF stop_scenario, _deactivate_fault
<1>7. CASE EngineDies \/ startup \/ StartsUncleared
  BY <1>7 DEF EngineDies, startup, StartsUncleared
<1>8. CASE UNCHANGED faultVars
  BY <1>8 DEF faultVars
<1>9. QED
  BY <1>1, <1>2, <1>3, <1>4, <1>5, <1>6, <1>7, <1>8 DEF FaultNext, EngineWorks

\* However scenarios replace and stop each other, and whatever fails: no active fault is
\* without a task that ends it, and the simulators see no fault the engine does not know,
\* but for those an outage left behind (fault-engine/main.py).
THEOREM FaultsStayWatched == FaultSpec => []FaultsAreWatched
BY FaultTypeInit, WatchStep, PTL DEF FaultSpec

-----------------------------------------------------------------------------
(* The pipeline. *)

\* A part moves as it does by itself, or rests.
LEMMA PartsMove ==
  [PipelineNext]_pipelineVars =>
    /\ [ReloadNext]_reloadVars /\ [IntakeNext]_intakeVars
    /\ [ScoringNext]_scoringVars /\ [FaultNext]_faultVars
BY DEF PipelineNext, pipelineVars, During

LEMMA PartsBegin == PipelineInit => ReloadInit /\ IntakeInit /\ ScoringInit /\ FaultInit
BY DEF PipelineInit

\* Every variable of the pipeline keeps its type.
THEOREM PipelineTypesHold == PipelineSpec => []PipelineTypeOK
<1>1. EvaluationSound => ServiceTypeOK /\ EvaluatorTypeOK
  BY DEF EvaluationSound, ServicesSound
<1>2. QED
  BY <1>1, PartsBegin, PartsMove, ReloadTypeInit, ReloadTypeStep, IntakeTypeInit, IntakeTypeStep,
     EvaluationSoundInit, EvaluationSoundStep, FaultTypeInit, FaultTypeStep, PTL
  DEF PipelineSpec, PipelineTypeOK

================================================================================
