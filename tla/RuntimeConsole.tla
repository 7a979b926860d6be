---------------------------- MODULE RuntimeConsole -----------------------------
(***************************************************************************)
(* The runtime controls on the page "Orchestration": operators enable and  *)
(* disable the inference services, or put them in manual mode.             *)
(* dashboard-backend keeps a service under several keys in Redis, which a  *)
(* PATCH writes one after the other and a GET reads one after the other.   *)
(* A PATCH that fails after the first of them is not undone.               *)
(***************************************************************************)
EXTENDS Naturals, QueryCache

CONSTANTS
  NoPatch,          \* no call
  MaxRuntimeOps     \* bound: presses, those of others, lost answers and failed PATCHes

ASSUME RuntimeParameters == MaxRuntimeOps \in Nat

VARIABLES
  service,      \* Redis: the keys enabled and mode of a service
  serviceList,  \* cache entry ["runtime", "services"]
  reading,      \* the value of enabled that the GET under way has read
  patch,        \* runtimePatchMutation in flight
  stranger,     \* a PATCH this page does not wait for: of another operator, or given up
  runtimeOps,   \* operations so far
  crowded,      \* history: two PATCHes have been under way together
  halfWritten   \* history: a PATCH has failed between its keys, and none was complete since

runtimeVars ==
  <<service, serviceList, reading, patch, stranger, runtimeOps, crowded, halfWritten>>

--------------------------------------------------------------------------------
ServiceMode == {"auto", "manual", "disabled"}

Service == [enabled : BOOLEAN, mode : ServiceMode]

\* The stages of a PATCH: sent, the first key written, both written.
PatchStage == {"sent", "half", "done"}

\* No call is not a call.
ASSUME NoPatchIsNone == NoPatch \notin [payload : Service, stage : PatchStage]

\* The payloads of the three buttons, made from the service as it is shown.
RuntimePayload(shown, button) ==
  CASE button = "Enable"  -> [enabled |-> TRUE,          mode |-> "auto"]
    [] button = "Disable" -> [enabled |-> FALSE,         mode |-> "disabled"]
    [] button = "Manual"  -> [enabled |-> shown.enabled, mode |-> "manual"]

\* The buttons that are not disabled for it.
RuntimeButtons(shown) ==
  {"Manual"} \cup (IF shown.enabled THEN {"Disable"} ELSE {"Enable"})

\* patch_runtime_service: a disabled mode disables.
Effective(p) == [p EXCEPT !.enabled = @ /\ p.mode # "disabled"]

RuntimeOp == runtimeOps < MaxRuntimeOps /\ runtimeOps' = runtimeOps + 1

Sent(p) == [payload |-> Effective(p), stage |-> "sent"]

\* One write of a PATCH: the key enabled, then the key mode.
Write(p) ==
  /\ service' = IF p.stage = "sent" THEN [service EXCEPT !.enabled = p.payload.enabled]
                                    ELSE [service EXCEPT !.mode = p.payload.mode]
  /\ halfWritten' = (halfWritten /\ p.stage = "sent")

Written(p) == [p EXCEPT !.stage = IF p.stage = "sent" THEN "half" ELSE "done"]

--------------------------------------------------------------------------------
RuntimeInit ==
  /\ service \in {[enabled |-> TRUE, mode |-> "auto"], [enabled |-> FALSE, mode |-> "disabled"]}
  /\ serviceList = MountedEntry /\ reading = NoPatch
  /\ patch = NoPatch /\ stranger = NoPatch
  /\ runtimeOps = 0 /\ crowded = FALSE /\ halfWritten = FALSE

RuntimeFetch(e) ==
  /\ serviceList' = e
  /\ UNCHANGED <<service, patch, stranger, runtimeOps, crowded, halfWritten>>

\* Every 8 seconds.
RuntimePoll ==
  /\ ~Fetching(serviceList) /\ RuntimeFetch(Asked(serviceList))
  /\ reading' = NoPatch

\* _read_runtime_service_state: the key enabled, then the key mode.
ReadEnabled ==
  /\ Waiting(serviceList) /\ reading = NoPatch
  /\ reading' = [enabled |-> service.enabled]
  /\ UNCHANGED <<service, serviceList, patch, stranger, runtimeOps, crowded, halfWritten>>

ReadMode ==
  /\ Waiting(serviceList) /\ reading # NoPatch
  /\ RuntimeFetch(Answered(serviceList, [enabled |-> reading.enabled, mode |-> service.mode]))
  /\ reading' = NoPatch

RuntimeLand ==
  /\ Landing(serviceList) /\ RuntimeFetch(Landed(serviceList))
  /\ UNCHANGED reading

RuntimeFail ==
  /\ Fetching(serviceList) /\ RuntimeFetch(Failed(serviceList))
  /\ reading' = NoPatch

\* Mutant: the buttons do not wait for the call.
PressRuntimeMutant ==
  /\ serviceList.data # NoData /\ RuntimeOp
  /\ patch = NoPatch \/ stranger = NoPatch
  /\ \E b \in RuntimeButtons(serviceList.data) :
       patch' = Sent(RuntimePayload(serviceList.data, b))
  /\ stranger' = IF patch = NoPatch THEN stranger ELSE patch
  /\ crowded' = (crowded \/ stranger # NoPatch)
  /\ UNCHANGED <<service, serviceList, reading, halfWritten>>

\* A button, while the page waits for no call.
PressRuntime ==
  /\ patch = NoPatch /\ serviceList.data # NoData /\ RuntimeOp
  /\ \E b \in RuntimeButtons(serviceList.data) :
       patch' = Sent(RuntimePayload(serviceList.data, b))
  /\ crowded' = (crowded \/ stranger # NoPatch)
  /\ UNCHANGED <<service, serviceList, reading, stranger, halfWritten>>

\* Another operator presses a button of what his page shows, new or old.
StrangerPresses ==
  /\ stranger = NoPatch /\ RuntimeOp
  /\ \E e \in BOOLEAN : \E b \in {"Enable", "Disable", "Manual"} :
       stranger' = Sent(RuntimePayload([enabled |-> e, mode |-> service.mode], b))
  /\ crowded' = (crowded \/ patch # NoPatch)
  /\ UNCHANGED <<service, serviceList, reading, patch, halfWritten>>

ServePatch ==
  /\ patch # NoPatch /\ patch.stage # "done"
  /\ Write(patch) /\ patch' = Written(patch)
  /\ UNCHANGED <<serviceList, reading, stranger, runtimeOps, crowded>>

ServeStranger ==
  /\ stranger # NoPatch
  /\ Write(stranger)
  /\ stranger' = IF Written(stranger).stage = "done" THEN NoPatch ELSE Written(stranger)
  /\ UNCHANGED <<serviceList, reading, patch, runtimeOps, crowded>>

\* onSuccess.
PatchReturns ==
  /\ patch # NoPatch /\ patch.stage = "done"
  /\ patch' = NoPatch
  /\ serviceList' = Invalidated(serviceList)
  /\ reading' = NoPatch
  /\ UNCHANGED <<service, stranger, runtimeOps, crowded, halfWritten>>

\* onError: no answer; what is left of the call goes on without the page.
PatchLost ==
  /\ patch # NoPatch /\ RuntimeOp
  /\ patch.stage = "done" \/ stranger = NoPatch
  /\ stranger' = IF patch.stage = "done" THEN stranger ELSE patch
  /\ patch' = NoPatch
  /\ UNCHANGED <<service, serviceList, reading, crowded, halfWritten>>

\* Redis fails a write, or dashboard-backend is restarted: what is written stays.
PatchFails ==
  /\ RuntimeOp
  /\ \/ /\ patch # NoPatch /\ patch.stage # "done"
        /\ patch' = NoPatch /\ UNCHANGED stranger
        /\ halfWritten' = (halfWritten \/ patch.stage = "half")
     \/ /\ stranger # NoPatch
        /\ stranger' = NoPatch /\ UNCHANGED patch
        /\ halfWritten' = (halfWritten \/ stranger.stage = "half")
  /\ UNCHANGED <<service, serviceList, reading, crowded>>

RuntimeNext ==
  \/ RuntimePoll \/ ReadEnabled \/ ReadMode \/ RuntimeLand \/ RuntimeFail
  \/ PressRuntime \/ StrangerPresses \/ ServePatch \/ ServeStranger
  \/ PatchReturns \/ PatchLost \/ PatchFails

RuntimeSpec == RuntimeInit /\ [][RuntimeNext]_runtimeVars

--------------------------------------------------------------------------------
(* Properties. *)

RuntimeTypeOK ==
  /\ service \in Service
  /\ serviceList \in Entries(Service)
  /\ reading \in {NoPatch} \cup [enabled : BOOLEAN]
  /\ {patch, stranger} \subseteq {NoPatch} \cup [payload : Service, stage : PatchStage]
  /\ runtimeOps \in 0..MaxRuntimeOps /\ {crowded, halfWritten} \subseteq BOOLEAN

\* The keys of a service agree whenever no PATCH is under way: in mode disabled it is
\* off and in mode auto it is on, whatever mix of two states a page was shown when
\* its button was pressed.  A PATCH that fails between the keys leaves them apart, and
\* the next one that is complete brings them together, whichever button it was.  Only
\* PATCHes of two operators, or one that was given up and one after it, can mix their
\* keys for good; one page alone never does.
ServiceKeysAgree ==
  patch = NoPatch /\ stranger = NoPatch /\ ~crowded /\ ~halfWritten =>
    /\ service.mode = "disabled" => ~service.enabled
    /\ service.mode = "auto" => service.enabled

================================================================================
