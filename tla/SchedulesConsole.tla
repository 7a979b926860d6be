--------------------------- MODULE SchedulesConsole ---------------------------
(***************************************************************************)
(* The page "Retraining Schedule" (MlopsRetrainingSchedulePage.tsx): one   *)
(* form creates and edits the schedules of a polled list, the buttons of   *)
(* the rows enable, disable and delete them, and other operators do the    *)
(* same.  One call is in flight at a time.                                 *)
(*                                                                         *)
(* A schedule is its frequency, whether it is enabled, and the day fields  *)
(* of its cron expression; dashboard-backend keeps what it is sent.  Its   *)
(* refusals (a duplicate, a bad expression) change nothing, as a lost call *)
(* does.                                                                   *)
(***************************************************************************)
EXTENDS Naturals, QueryCache

CONSTANTS
  Schedule,        \* identifiers of schedules, in use or to be given
  NoSchedule,      \* no schedule, no call, no open dialog
  Past,            \* a deleted schedule; its identifier is not given again
  MaxScheduleOps   \* bound: fields typed, calls sent and changes of other operators

ASSUME SchedulesParameters ==
  {NoSchedule, Past} \cap Schedule = {} /\ NoSchedule # Past /\ MaxScheduleOps \in Nat

VARIABLES
  schedules,       \* dashboard-backend: the schedules
  scheduleList,    \* cache entry ["mlops", "retraining-schedule"]
  scheduleForm,    \* form
  scheduleModal,   \* pendingAction
  scheduleCall,    \* the mutation in flight
  scheduleOps,     \* how many of them so far
  reportedGone     \* history: schedules the page was told do not exist any more

schedulesVars == <<schedules, scheduleList, scheduleForm, scheduleModal, scheduleCall,
                   scheduleOps, reportedGone>>

--------------------------------------------------------------------------------
Frequency == {"DAILY", "WEEKLY", "MONTHLY", "CUSTOM_CRON"}

Day == {"*", "1"}  \* a field of a cron expression: every day, or a certain one

Cron == [dayOfMonth : Day, dayOfWeek : Day]

Schedules == [frequency : Frequency, cron : Cron, enabled : BOOLEAN]

Stores == [Schedule -> Schedules \cup {NoSchedule, Past}]

ASSUME NoStore == {NoSchedule, Past} \cap Schedules = {} /\ NoData \notin Stores

Forms ==
  [id : Schedule \cup {NoSchedule}, frequency : Frequency, dayOfMonth : Day, dayOfWeek : Day,
   customCron : Cron, enabled : BOOLEAN]

INITIAL_FORM ==
  [id |-> NoSchedule, frequency |-> "DAILY", dayOfMonth |-> "1", dayOfWeek |-> "1",
   customCron |-> [dayOfMonth |-> "*", dayOfWeek |-> "1"], enabled |-> TRUE]

cronFromForm(form) ==
  CASE form.frequency = "DAILY"       -> [dayOfMonth |-> "*", dayOfWeek |-> "*"]
    [] form.frequency = "WEEKLY"      -> [dayOfMonth |-> "*", dayOfWeek |-> form.dayOfWeek]
    [] form.frequency = "MONTHLY"     -> [dayOfMonth |-> form.dayOfMonth, dayOfWeek |-> "*"]
    [] form.frequency = "CUSTOM_CRON" -> form.customCron

\* Mutant: the custom expression keeps its initial value.
hydrateFormMutant(id, s) ==
  [INITIAL_FORM EXCEPT
    !.id = id, !.frequency = s.frequency, !.enabled = s.enabled,
    !.dayOfMonth = s.cron.dayOfMonth, !.dayOfWeek = s.cron.dayOfWeek]

\* The form of a schedule.  A field its frequency does not use is filled from the
\* expression all the same: "*".
hydrateForm(id, s) ==
  [id |-> id, frequency |-> s.frequency, dayOfMonth |-> s.cron.dayOfMonth,
   dayOfWeek |-> s.cron.dayOfWeek, customCron |-> s.cron, enabled |-> s.enabled]

SavedForm(form) ==
  [frequency |-> form.frequency, cron |-> cronFromForm(form), enabled |-> form.enabled]

Existing == {id \in Schedule : schedules[id] \notin {NoSchedule, Past}}

ScheduleRows ==
  IF scheduleList.data = NoData THEN {}
  ELSE {id \in Schedule : scheduleList.data[id] \notin {NoSchedule, Past}}

ScheduleTable == ~Loading(scheduleList) /\ ~scheduleList.error

scheduleBusy == scheduleCall # NoSchedule

ScheduleCalls ==
  [kind : {"create", "update", "enable", "disable", "delete"}, id : Schedule \cup {NoSchedule},
   payload : Schedules \cup {NoSchedule}, stage : {"sent", "done", "missing"}]

\* mutate(): the call is in flight.
ScheduleSend(kind, id, payload) ==
  /\ scheduleOps < MaxScheduleOps
  /\ scheduleOps' = scheduleOps + 1
  /\ scheduleCall' = [kind |-> kind, id |-> id, payload |-> payload, stage |-> "sent"]
  /\ UNCHANGED <<schedules, scheduleList, reportedGone>>

--------------------------------------------------------------------------------
SchedulesInit ==
  /\ schedules \in [Schedule -> {NoSchedule, SavedForm(INITIAL_FORM)}]
  /\ scheduleList = MountedEntry
  /\ scheduleForm = INITIAL_FORM
  /\ scheduleModal = NoSchedule /\ scheduleCall = NoSchedule
  /\ scheduleOps = 0 /\ reportedGone = {}

\* Another operator creates, changes or deletes a schedule.
ScheduleMoves ==
  /\ scheduleOps < MaxScheduleOps
  /\ scheduleOps' = scheduleOps + 1
  /\ \E id \in Schedule :
       /\ schedules[id] # Past
       /\ \/ \E f \in Frequency, on \in BOOLEAN :
               schedules' = [schedules EXCEPT ![id] =
                 SavedForm([INITIAL_FORM EXCEPT !.frequency = f, !.enabled = on])]
          \/ id \in Existing /\ schedules' = [schedules EXCEPT ![id] = Past]
  /\ UNCHANGED <<scheduleList, scheduleForm, scheduleModal, scheduleCall, reportedGone>>

SchedulesFetch(e) ==
  /\ scheduleList' = e
  /\ UNCHANGED <<schedules, scheduleForm, scheduleModal, scheduleCall, scheduleOps,
                 reportedGone>>

\* Every 30 seconds, and the button Refresh.
SchedulesPoll == ~Fetching(scheduleList) /\ SchedulesFetch(Asked(scheduleList))

SchedulesAnswered ==
  Waiting(scheduleList) /\ SchedulesFetch(Answered(scheduleList, schedules))

SchedulesLand == Landing(scheduleList) /\ SchedulesFetch(Landed(scheduleList))

SchedulesFail == Fetching(scheduleList) /\ SchedulesFetch(Failed(scheduleList))

SetForm(form) ==
  /\ scheduleModal = NoSchedule
  /\ scheduleForm' = form /\ form # scheduleForm
  /\ UNCHANGED <<schedules, scheduleList, scheduleModal, scheduleCall, reportedGone>>

\* The fields can be changed at any time, those the frequency does not use are hidden.
TypeInForm ==
  /\ scheduleOps < MaxScheduleOps
  /\ scheduleOps' = scheduleOps + 1
  /\ \/ \E f \in Frequency : SetForm([scheduleForm EXCEPT !.frequency = f])
     \/ \E d \in Day : \/ /\ scheduleForm.frequency = "MONTHLY"
                          /\ SetForm([scheduleForm EXCEPT !.dayOfMonth = d])
                       \/ /\ scheduleForm.frequency = "WEEKLY"
                          /\ SetForm([scheduleForm EXCEPT !.dayOfWeek = d])
     \/ \E c \in Cron : /\ scheduleForm.frequency = "CUSTOM_CRON"
                        /\ SetForm([scheduleForm EXCEPT !.customCron = c])
     \/ \E on \in BOOLEAN : SetForm([scheduleForm EXCEPT !.enabled = on])

\* "Edit" of a row, and "Clear".
EditRow ==
  /\ ~scheduleBusy /\ ScheduleTable
  /\ \E id \in ScheduleRows : SetForm(hydrateForm(id, scheduleList.data[id]))
  /\ UNCHANGED scheduleOps

ClearForm == ~scheduleBusy /\ SetForm(INITIAL_FORM) /\ UNCHANGED scheduleOps

submitForm ==
  /\ ~scheduleBusy /\ scheduleModal = NoSchedule
  /\ ScheduleSend(IF scheduleForm.id = NoSchedule THEN "create" ELSE "update",
                  scheduleForm.id, SavedForm(scheduleForm))
  /\ UNCHANGED <<scheduleForm, scheduleModal>>

\* Mutant: the row is sent back with the field changed.
onEnableToggleMutant ==
  /\ ~scheduleBusy /\ scheduleModal = NoSchedule /\ ScheduleTable
  /\ \E id \in ScheduleRows :
       /\ ~scheduleList.data[id].enabled
       /\ ScheduleSend("update", id, [scheduleList.data[id] EXCEPT !.enabled = TRUE])
       /\ UNCHANGED <<scheduleForm, scheduleModal>>

\* Enabling is sent at once, disabling is confirmed first.
onEnableToggle ==
  /\ ~scheduleBusy /\ scheduleModal = NoSchedule /\ ScheduleTable
  /\ \E id \in ScheduleRows :
       IF scheduleList.data[id].enabled
       THEN /\ scheduleModal' = [kind |-> "disable", id |-> id]
            /\ UNCHANGED <<schedules, scheduleList, scheduleForm, scheduleCall, scheduleOps,
                           reportedGone>>
       ELSE /\ ScheduleSend("enable", id, NoSchedule)
            /\ UNCHANGED <<scheduleForm, scheduleModal>>

AskDelete ==
  /\ ~scheduleBusy /\ scheduleModal = NoSchedule /\ ScheduleTable
  /\ \E id \in ScheduleRows : scheduleModal' = [kind |-> "delete", id |-> id]
  /\ UNCHANGED <<schedules, scheduleList, scheduleForm, scheduleCall, scheduleOps, reportedGone>>

confirmAction ==
  /\ scheduleModal # NoSchedule
  /\ ScheduleSend(scheduleModal.kind, scheduleModal.id, NoSchedule)
  /\ scheduleModal' = NoSchedule
  /\ UNCHANGED scheduleForm

CancelScheduleModal ==
  /\ scheduleModal # NoSchedule
  /\ scheduleModal' = NoSchedule
  /\ UNCHANGED <<schedules, scheduleList, scheduleForm, scheduleCall, scheduleOps, reportedGone>>

\* The handlers of dashboard-backend: what is left of the schedule.
Stored(c, s) ==
  CASE c.kind \in {"create", "update"} -> c.payload
    [] c.kind = "enable"               -> [s EXCEPT !.enabled = TRUE]
    [] c.kind = "disable"              -> [s EXCEPT !.enabled = FALSE]
    [] c.kind = "delete"               -> Past

ServeSchedule ==
  /\ scheduleBusy /\ scheduleCall.stage = "sent"
  /\ LET targets == IF scheduleCall.kind = "create" THEN {id \in Schedule : schedules[id] = NoSchedule}
                    ELSE {scheduleCall.id} \cap Existing
     IN \/ \E id \in targets :
             /\ schedules' = [schedules EXCEPT ![id] = Stored(scheduleCall, schedules[id])]
             /\ scheduleCall' = [scheduleCall EXCEPT !.stage = "done"]
        \/ /\ targets = {} /\ scheduleCall.kind # "create"
           /\ scheduleCall' = [scheduleCall EXCEPT !.stage = "missing"]
           /\ UNCHANGED schedules
  /\ UNCHANGED <<scheduleList, scheduleForm, scheduleModal, scheduleOps, reportedGone>>

\* onSuccess: a creation and every update, those of the buttons too, clear the form.
ScheduleReturns ==
  /\ scheduleBusy /\ scheduleCall.stage = "done"
  /\ scheduleForm' = IF scheduleCall.kind = "delete" THEN scheduleForm ELSE INITIAL_FORM
  /\ reportedGone' = IF scheduleCall.kind = "delete" THEN reportedGone \cup {scheduleCall.id}
                     ELSE reportedGone
  /\ scheduleList' = Invalidated(scheduleList)
  /\ scheduleCall' = NoSchedule
  /\ UNCHANGED <<schedules, scheduleModal, scheduleOps>>

\* Mutant: onError leaves the list alone.
ScheduleMissingMutant ==
  /\ scheduleBusy /\ scheduleCall.stage = "missing"
  /\ reportedGone' = reportedGone \cup {scheduleCall.id}
  /\ scheduleCall' = NoSchedule
  /\ UNCHANGED <<schedules, scheduleList, scheduleForm, scheduleModal, scheduleOps>>

\* onError of a 404: the list is fetched again, the form keeps its schedule.
ScheduleMissing ==
  /\ scheduleBusy /\ scheduleCall.stage = "missing"
  /\ reportedGone' = reportedGone \cup {scheduleCall.id}
  /\ scheduleList' = Invalidated(scheduleList)
  /\ scheduleCall' = NoSchedule
  /\ UNCHANGED <<schedules, scheduleForm, scheduleModal, scheduleOps>>

\* onError of everything else: refused, or no answer.
ScheduleErrs ==
  /\ scheduleBusy
  /\ scheduleCall' = NoSchedule
  /\ UNCHANGED <<schedules, scheduleList, scheduleForm, scheduleModal, scheduleOps, reportedGone>>

SchedulesNext ==
  \/ ScheduleMoves
  \/ SchedulesPoll \/ SchedulesAnswered \/ SchedulesLand \/ SchedulesFail
  \/ TypeInForm \/ EditRow \/ ClearForm \/ submitForm
  \/ onEnableToggle \/ AskDelete \/ confirmAction \/ CancelScheduleModal
  \/ ServeSchedule \/ ScheduleReturns \/ ScheduleMissing \/ ScheduleErrs

SchedulesSpec == SchedulesInit /\ [][SchedulesNext]_schedulesVars

--------------------------------------------------------------------------------
(* Properties. *)

SchedulesTypeOK ==
  /\ schedules \in Stores
  /\ scheduleList \in Entries(Stores)
  /\ scheduleForm \in Forms
  /\ scheduleModal \in [kind : {"delete", "disable"}, id : Schedule] \cup {NoSchedule}
  /\ scheduleCall \in ScheduleCalls \cup {NoSchedule}
  /\ scheduleOps \in 0..MaxScheduleOps
  /\ reportedGone \subseteq Schedule

\* A schedule that is opened and saved without a change goes on firing when it
\* did, whatever changes of frequency left in its expression.
EditKeepsCron ==
  \A id \in Existing :
    SavedForm(hydrateForm(id, schedules[id])) = schedules[id]

\* A schedule the operator was told is gone, because he deleted it or because it
\* was missing, is not offered to him again: a fetch that was answered before is
\* abandoned.
GoneStaysGone ==
  ~Fetching(scheduleList) /\ ScheduleTable => reportedGone \cap ScheduleRows = {}

\* Enabling or disabling a schedule from a row that is out of date leaves the time
\* that another operator has given it.
ButtonsKeepTheRest ==
  [][\A id \in Existing :
       /\ schedules'[id] # schedules[id] /\ schedules'[id] # Past
       /\ scheduleOps' = scheduleOps
       /\ schedules'[id].cron # schedules[id].cron
       => scheduleForm.id = id]_schedulesVars

================================================================================
