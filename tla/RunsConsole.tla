------------------------------ MODULE RunsConsole ------------------------------
(***************************************************************************)
(* The two pages that launch pipelines: "Orchestration", where a form is   *)
(* filled in for one of several actions, and "Operations", where one       *)
(* pipeline is confirmed.  Both list the runs, which dashboard-backend     *)
(* executes in the background, and open the logs of one of them.           *)
(*                                                                         *)
(* The list is polled always; the logs only while the answer they have     *)
(* says that the run goes on.                                              *)
(***************************************************************************)
EXTENDS Naturals, QueryCache

CONSTANTS
  Run,          \* runs, in the order they are created in any way
  NoRun,        \* no open logs
  MaxRunOps     \* bound: launches, openings of the logs and failed fetches

ASSUME RunsParameters == NoRun \notin Run /\ MaxRunOps \in Nat

VARIABLES
  runsPage,     \* "orchestration" or "operations"
  runs,         \* dashboard-backend: status of every run
  runList,      \* cache entry of the list
  runLogs,      \* cache entries of the logs
  logsRunId,    \* the run whose logs are open
  launchForm,   \* the form or the confirmation is open
  launches,     \* calls in flight: how many are sent, and how many have succeeded
  runOps        \* operations so far

runsVars == <<runsPage, runs, runList, runLogs, logsRunId, launchForm, launches, runOps>>

--------------------------------------------------------------------------------
(* dashboard-backend. *)

\* ENDED stands for SUCCESS, FAILED, TIMEOUT and DISABLED, which the pages tell
\* apart by a badge only.
RunStatus == {"none", "QUEUED", "RUNNING", "ENDED"}

\* execute_run: orchestration disabled, no runner, or a call of the runner.
RunMoves ==
  {<<"QUEUED", "ENDED">>, <<"QUEUED", "RUNNING">>, <<"RUNNING", "ENDED">>}

--------------------------------------------------------------------------------
(* The pages. *)

Logs(r) == runLogs[r]

NoLogs == [data |-> NoData, fetch |-> "idle", answer |-> NoData, error |-> FALSE]

GoesOn(status) == status \in {"RUNNING", "QUEUED"}

\* What the dialog of the logs shows.
LogsBody ==
  CASE logsRunId = NoRun               -> "closed"
    [] Logs(logsRunId).data = NoData   -> IF Fetching(Logs(logsRunId)) THEN "loading" ELSE "none"
    [] OTHER                           -> Logs(logsRunId).data

\* The rows of the table; every row has the button "Logs".
RunRows == IF runList.data = NoData THEN {} ELSE {r \in Run : runList.data[r] # "none"}

\* isPending of the mutation.
Launching == launches.sent + launches.done > 0

RunOp == runOps < MaxRunOps /\ runOps' = runOps + 1

--------------------------------------------------------------------------------
RunsInit ==
  /\ runsPage \in {"orchestration", "operations"}
  /\ runs \in [Run -> {"none", "RUNNING"}]
  /\ runList = MountedEntry
  /\ runLogs = [r \in Run |-> NoLogs]
  /\ logsRunId = NoRun
  /\ launchForm = FALSE /\ launches = [sent |-> 0, done |-> 0] /\ runOps = 0

\* The background task of a run, and runs that drift or other operators start.
RunProceeds ==
  /\ \E r \in Run, m \in RunMoves :
       runs[r] = m[1] /\ runs' = [runs EXCEPT ![r] = m[2]]
  /\ UNCHANGED <<runsPage, runList, runLogs, logsRunId, launchForm, launches, runOps>>

RunCreated(r) == runs[r] = "none" /\ runs' = [runs EXCEPT ![r] = "QUEUED"]

RunStartsElsewhere ==
  /\ \E r \in Run : RunCreated(r)
  /\ UNCHANGED <<runsPage, runList, runLogs, logsRunId, launchForm, launches, runOps>>

RunsFetch(e) ==
  /\ runList' = e
  /\ UNCHANGED <<runsPage, runs, runLogs, logsRunId, launchForm, launches>>

\* Mutant: the poll of the list stops when no run goes on.
RunsPollMutant ==
  /\ ~Fetching(runList) /\ (runList.data # NoData => \E r \in RunRows : GoesOn(runList.data[r]))
  /\ RunsFetch(Asked(runList)) /\ UNCHANGED runOps

\* Every 5 seconds; on Operations every 30 when no run goes on.
RunsPoll == ~Fetching(runList) /\ RunsFetch(Asked(runList)) /\ UNCHANGED runOps

RunsAnswered ==
  /\ Waiting(runList)
  /\ RunsFetch(Answered(runList, runs)) /\ UNCHANGED runOps

RunsLand == Landing(runList) /\ RunsFetch(Landed(runList)) /\ UNCHANGED runOps

RunsFail == Fetching(runList) /\ RunOp /\ RunsFetch(Failed(runList))

LogsFetch(r, e) ==
  /\ runLogs' = [runLogs EXCEPT ![r] = e]
  /\ UNCHANGED <<runsPage, runs, runList, logsRunId, launchForm, launches>>

\* Opening them fetches them, unless an answer of less than 30 seconds ago is there.
OpenLogs ==
  /\ logsRunId = NoRun /\ RunOp
  /\ \E r \in RunRows :
       /\ logsRunId' = r
       /\ \E e \in {Asked(Logs(r))} \cup (IF Logs(r).data # NoData THEN {Logs(r)} ELSE {}) :
            runLogs' = [runLogs EXCEPT ![r] = e]
  /\ UNCHANGED <<runsPage, runs, runList, launchForm, launches>>

CloseLogs ==
  /\ logsRunId # NoRun /\ logsRunId' = NoRun
  /\ UNCHANGED <<runsPage, runs, runList, runLogs, launchForm, launches, runOps>>

\* Mutant: a run that waits for its start is not polled.
LogsPollMutant ==
  /\ logsRunId # NoRun /\ ~Fetching(Logs(logsRunId)) /\ Logs(logsRunId).data = "RUNNING"
  /\ LogsFetch(logsRunId, Asked(Logs(logsRunId))) /\ UNCHANGED runOps

\* refetchInterval: every 2 seconds, on Operations every 4; none without an answer.
LogsPoll ==
  /\ logsRunId # NoRun /\ ~Fetching(Logs(logsRunId)) /\ GoesOn(Logs(logsRunId).data)
  /\ LogsFetch(logsRunId, Asked(Logs(logsRunId))) /\ UNCHANGED runOps

LogsAnswered(r) ==
  /\ Waiting(Logs(r))
  /\ LogsFetch(r, Answered(Logs(r), runs[r])) /\ UNCHANGED runOps

LogsLand(r) == Landing(Logs(r)) /\ LogsFetch(r, Landed(Logs(r))) /\ UNCHANGED runOps

LogsFail(r) == Fetching(Logs(r)) /\ RunOp /\ LogsFetch(r, Failed(Logs(r)))

--------------------------------------------------------------------------------
(* Launching. *)

\* Mutant: the button does not wait for the launch in flight.
OpenLaunchMutant ==
  /\ ~launchForm
  /\ launchForm' = TRUE
  /\ UNCHANGED <<runsPage, runs, runList, runLogs, logsRunId, launches, runOps>>

\* The button of an action, or of the pipeline.  Operations also waits for the list
\* to be fetched again after a launch; here its button may be back before.
OpenLaunch ==
  /\ ~launchForm /\ ~Launching
  /\ launchForm' = TRUE
  /\ UNCHANGED <<runsPage, runs, runList, runLogs, logsRunId, launches, runOps>>

CancelLaunch ==
  /\ launchForm /\ launchForm' = FALSE
  /\ UNCHANGED <<runsPage, runs, runList, runLogs, logsRunId, launches, runOps>>

\* Operations closes its dialog; the form stays and may be submitted again.
SubmitLaunch ==
  /\ launchForm /\ RunOp
  /\ launchForm' = (runsPage = "orchestration")
  /\ launches' = [launches EXCEPT !.sent = @ + 1]
  /\ UNCHANGED <<runsPage, runs, runList, runLogs, logsRunId>>

\* create_run: a run for every call.
ServeLaunch ==
  /\ launches.sent > 0
  /\ \E r \in Run : RunCreated(r)
  /\ launches' = [sent |-> launches.sent - 1, done |-> launches.done + 1]
  /\ UNCHANGED <<runsPage, runList, runLogs, logsRunId, launchForm, runOps>>

\* onSuccess: on Orchestration the form is closed, whichever it is by now.
LaunchReturns ==
  /\ launches.done > 0
  /\ launches' = [launches EXCEPT !.done = @ - 1]
  /\ runList' = Invalidated(runList)
  /\ launchForm' = (launchForm /\ runsPage = "operations")
  /\ UNCHANGED <<runsPage, runs, runLogs, logsRunId, runOps>>

\* onError: an alert, a message; the run may have been created.
LaunchErrs ==
  /\ Launching
  /\ \/ launches.sent > 0 /\ launches' = [launches EXCEPT !.sent = @ - 1]
     \/ launches.done > 0 /\ launches' = [launches EXCEPT !.done = @ - 1]
  /\ UNCHANGED <<runsPage, runs, runList, runLogs, logsRunId, launchForm, runOps>>

RunsNext ==
  \/ RunProceeds \/ RunStartsElsewhere
  \/ RunsPoll \/ RunsAnswered \/ RunsLand \/ RunsFail
  \/ OpenLogs \/ CloseLogs \/ LogsPoll
  \/ \E r \in Run : LogsAnswered(r) \/ LogsLand(r) \/ LogsFail(r)
  \/ OpenLaunch \/ CancelLaunch \/ SubmitLaunch \/ ServeLaunch \/ LaunchReturns \/ LaunchErrs

\* The polls go on while the page is there, and fetches are answered.
RunsFairness ==
  /\ WF_runsVars(RunsPoll) /\ WF_runsVars(RunsAnswered) /\ WF_runsVars(RunsLand)
  /\ WF_runsVars(LogsPoll)
  /\ \A r \in Run : WF_runsVars(LogsAnswered(r)) /\ WF_runsVars(LogsLand(r))

RunsSpec == RunsInit /\ [][RunsNext]_runsVars /\ RunsFairness

--------------------------------------------------------------------------------
(* Properties. *)

\* Types; on Operations one launch is in flight at a time.
RunsTypeOK ==
  /\ runsPage \in {"orchestration", "operations"}
  /\ runs \in [Run -> RunStatus]
  /\ runList \in Entries([Run -> RunStatus]) /\ runLogs \in [Run -> Entries(RunStatus)]
  /\ logsRunId \in Run \cup {NoRun} /\ launchForm \in BOOLEAN
  /\ launches \in [sent : 0..MaxRunOps, done : 0..MaxRunOps] /\ runOps \in 0..MaxRunOps
  /\ runsPage = "operations" => launches.sent + launches.done <= 1

\* The list shows every run as it ended up, whoever launched it and also when the
\* answer to a launch was lost.
RunsShown == runList.data = runs

RunsAreShown == <>[]RunsShown

\* Logs that are open and have been read once do not stop before the run does: they
\* come to show its end, although nothing polls them any more from then on.
LogsAtTheEnd ==
  logsRunId # NoRun /\ Logs(logsRunId).data # NoData
  => Logs(logsRunId).data = runs[logsRunId]

LogsReachTheEnd == <>[]LogsAtTheEnd

================================================================================
