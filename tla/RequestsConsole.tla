---------------------------- MODULE RequestsConsole ----------------------------
(***************************************************************************)
(* The page "Retraining Requests" (MlopsRequestsPage.tsx): an operator     *)
(* approves, rejects and executes retraining requests from a list that is  *)
(* polled, while other operators, the scheduler and the training threads   *)
(* of dashboard-backend change the same requests.                          *)
(*                                                                         *)
(* What the page decides on is the list it fetched last; what the server   *)
(* does depends on the request as it is when the call arrives.             *)
(***************************************************************************)
EXTENDS Naturals, QueryCache

CONSTANTS
  Request,           \* identifiers of retraining requests
  NoCall,            \* no call, no open dialog
  MaxRequestChanges  \* bound: changes of the requests on the server

ASSUME RequestsParameters == NoCall \notin Request /\ MaxRequestChanges \in Nat

VARIABLES
  requests,        \* the server: status of each request, "none" before it exists
  requestChanges,  \* history: changes so far, the version of an answer
  requestList,     \* cache entry ["mlops", "requests"]
  requestModal,    \* pendingAction: the operation to be confirmed
  requestCall,     \* the mutation in flight
  requestAcked     \* history: version of the last operation reported as done

requestsVars ==
  <<requests, requestChanges, requestList, requestModal, requestCall, requestAcked>>

--------------------------------------------------------------------------------
(* The server. *)

RequestStatus ==
  {"none", "pending_approval", "approved", "running", "completed", "failed",
   "timeout", "skipped", "rejected", "expired"}

\* What others may do to a request: the decisions of other operators, the
\* expiry of old requests, the scheduler and the ends of pipelines.
ElsewhereMoves ==
  {<<"none", "pending_approval">>, <<"none", "approved">>,
   <<"pending_approval", "approved">>, <<"pending_approval", "rejected">>,
   <<"pending_approval", "expired">>, <<"approved", "rejected">>,
   <<"approved", "running">>, <<"approved", "skipped">>}
  \cup ({"running"} \X {"completed", "failed", "timeout"})

\* The effects a call may have on its request.
Effects(op) ==
  CASE op = "approve" -> {<<"pending_approval", "approved">>}
    [] op = "reject"  -> {"pending_approval", "approved"} \X {"rejected"}
    [] op = "execute" -> {"approved"} \X {"running", "skipped"}

RequestsAnswer == [rows |-> requests, at |-> requestChanges]

RequestsAnswers == [rows : [Request -> RequestStatus], at : Nat]

--------------------------------------------------------------------------------
(* The page. *)

\* The buttons of a row; writers only see this page.
Offered(s) ==
  CASE s = "pending_approval" -> {"approve", "reject"}
    [] s = "approved"         -> {"reject", "execute"}
    [] OTHER                  -> {}

Rows == IF requestList.data = NoData THEN [r \in Request |-> "none"]
        ELSE requestList.data.rows

\* What the body of the page shows: an error hides the rows it still has.
RequestsBody ==
  CASE Loading(requestList) -> "loading"
    [] requestList.error    -> "unavailable"
    [] OTHER                -> "table"

\* A row: a request as the list has it, with its buttons.
ShownRow(r) == [id |-> r, status |-> Rows[r], actions |-> Offered(Rows[r])]

Listed == {r \in Request : Rows[r] # "none"}

\* The statuses the page knows; the filter offers these and "all".
STATUS_ORDER ==
  {"pending_approval", "approved", "running", "completed", "failed", "skipped", "rejected"}

Grouped(status) == {r \in Listed : Rows[r] = status}

\* The cards of the summary and the requests each counts.
Cards ==
  [Pending |-> Grouped("pending_approval"), Approved |-> Grouped("approved"),
   Running |-> Grouped("running"), Completed |-> Grouped("completed"),
   Failed |-> Grouped("failed") \cup Grouped("skipped"), Rejected |-> Grouped("rejected")]

\* The rows a choice of the status filter leaves; the filters for model and trigger
\* narrow them in the same way.
Found(filter) == IF filter = "all" THEN Listed ELSE Grouped(filter)

Busy == requestCall # NoCall

RequestCalls ==
  [op : {"approve", "reject", "execute", "simulate"}, id : Request \cup {NoCall},
   stage : {"sent", "done", "refused"}, at : Nat]

\* at: the version of the server in which the call was done.
RequestSent(op, id) == [op |-> op, id |-> id, stage |-> "sent", at |-> 0]

RequestModals == [op : {"approve", "reject", "execute"}, id : Request]

--------------------------------------------------------------------------------
RequestsInit ==
  /\ requests \in [Request -> {"none", "pending_approval", "approved"}]
  /\ requestChanges = 0
  /\ requestList = MountedEntry
  /\ requestModal = NoCall
  /\ requestCall = NoCall
  /\ requestAcked = 0

RequestMoves ==
  /\ requestChanges < MaxRequestChanges
  /\ \E r \in Request, m \in ElsewhereMoves :
       /\ requests[r] = m[1]
       /\ requests' = [requests EXCEPT ![r] = m[2]]
  /\ requestChanges' = requestChanges + 1
  /\ UNCHANGED <<requestList, requestModal, requestCall, requestAcked>>

RequestsFetch(e) ==
  /\ requestList' = e
  /\ UNCHANGED <<requests, requestChanges, requestModal, requestCall, requestAcked>>

\* Mutant: a page that polls only while a request is running.
RequestsPollMutant ==
  /\ ~Fetching(requestList)
  /\ \E r \in Request : Rows[r] = "running"
  /\ RequestsFetch(Asked(requestList))

\* The poll, every 10 or 15 seconds, and the button Refresh.
RequestsPoll ==
  /\ ~Fetching(requestList)
  /\ RequestsFetch(Asked(requestList))

RequestsAnswered ==
  /\ Waiting(requestList)
  /\ RequestsFetch(Answered(requestList, RequestsAnswer))

RequestsLand ==
  /\ Landing(requestList)
  /\ RequestsFetch(Landed(requestList))

RequestsFail ==
  /\ Fetching(requestList)
  /\ RequestsFetch(Failed(requestList))

\* A button of a row, found with whatever filter, opens the dialog.
OpenRequestModal ==
  /\ requestModal = NoCall /\ ~Busy /\ RequestsBody = "table"
  /\ requestChanges < MaxRequestChanges
  /\ \E filter \in {"all"} \cup STATUS_ORDER : \E r \in Found(filter) :
       \E op \in ShownRow(r).actions : requestModal' = [op |-> op, id |-> r]
  /\ UNCHANGED <<requests, requestChanges, requestList, requestCall, requestAcked>>

CancelRequestModal ==
  /\ requestModal # NoCall
  /\ requestModal' = NoCall
  /\ UNCHANGED <<requests, requestChanges, requestList, requestCall, requestAcked>>

\* The dialog is confirmed: the row is not looked at again.
ConfirmRequest ==
  /\ requestModal # NoCall
  /\ requestCall' = RequestSent(requestModal.op, requestModal.id)
  /\ requestModal' = NoCall
  /\ UNCHANGED <<requests, requestChanges, requestList, requestAcked>>

\* The button "Simulate Drift Trigger", there before the list is.
SimulateTrigger ==
  /\ ~Busy /\ requestModal = NoCall
  /\ requestChanges < MaxRequestChanges
  /\ requestCall' = RequestSent("simulate", NoCall)
  /\ UNCHANGED <<requests, requestChanges, requestList, requestModal, requestAcked>>

RequestServed(stage) ==
  /\ requestCall' = [requestCall EXCEPT !.stage = stage, !.at = requestChanges']
  /\ UNCHANGED <<requestList, requestModal, requestAcked>>

ServeDecision ==
  /\ Busy /\ requestCall.stage = "sent" /\ requestCall.op # "simulate"
  /\ LET allowed == {m \in Effects(requestCall.op) : requests[requestCall.id] = m[1]}
     IN \/ /\ allowed = {}
           /\ UNCHANGED <<requests, requestChanges>>
           /\ RequestServed("refused")
        \/ \E m \in allowed :
             /\ requests' = [requests EXCEPT ![requestCall.id] = m[2]]
             /\ requestChanges' = requestChanges + 1
             /\ RequestServed("done")

\* The drift monitor creates the requests that are not there, or none.
ServeSimulate ==
  /\ Busy /\ requestCall.stage = "sent" /\ requestCall.op = "simulate"
  /\ \E new \in SUBSET {r \in Request : requests[r] = "none"} :
       /\ requests' = [r \in Request |-> IF r \in new THEN "pending_approval" ELSE requests[r]]
       /\ requestChanges' = IF new = {} THEN requestChanges ELSE requestChanges + 1
  /\ RequestServed("done")

\* Mutant: onSuccess forgets to invalidate the list.
RequestReturnsMutant ==
  /\ Busy /\ requestCall.stage = "done"
  /\ requestCall' = NoCall
  /\ requestAcked' = IF requestList.data = NoData THEN requestAcked ELSE requestCall.at
  /\ UNCHANGED <<requests, requestChanges, requestList, requestModal>>

\* onSuccess.  An operation is acknowledged to an operator who has the list
\* before his eyes; until the first answer he has none.
RequestReturns ==
  /\ Busy /\ requestCall.stage = "done"
  /\ requestCall' = NoCall
  /\ requestList' = Invalidated(requestList)
  /\ requestAcked' = IF requestList.data = NoData THEN requestAcked ELSE requestCall.at
  /\ UNCHANGED <<requests, requestChanges, requestModal>>

\* onError: the server refused, or no answer arrived, whether or not the server
\* has done its work.  The list is not invalidated.
RequestErrs ==
  /\ Busy
  /\ requestCall' = NoCall
  /\ UNCHANGED <<requests, requestChanges, requestList, requestModal, requestAcked>>

RequestsCallSteps == ServeDecision \/ ServeSimulate \/ RequestReturns \/ RequestErrs

RequestsNext ==
  \/ RequestMoves
  \/ RequestsPoll \/ RequestsAnswered \/ RequestsLand \/ RequestsFail
  \/ OpenRequestModal \/ CancelRequestModal \/ ConfirmRequest \/ SimulateTrigger
  \/ RequestsCallSteps

\* The poll goes on, answers arrive, and not every fetch fails.
RequestsFairness ==
  /\ WF_requestsVars(RequestsPoll) /\ SF_requestsVars(RequestsAnswered)
  /\ SF_requestsVars(RequestsLand) /\ WF_requestsVars(RequestsCallSteps)

RequestsSpec == RequestsInit /\ [][RequestsNext]_requestsVars /\ RequestsFairness

--------------------------------------------------------------------------------
(* Properties. *)

RequestsLoaded == requestList.data # NoData

\* The requests that have one of these statuses on the server.
Actual(statuses) == {r \in Request : requests[r] \in statuses}

RequestsTypeOK ==
  /\ requests \in [Request -> RequestStatus]
  /\ requestChanges \in Nat /\ requestAcked \in Nat
  /\ requestList \in Entries(RequestsAnswers)
  /\ requestModal \in RequestModals \cup {NoCall}
  /\ requestCall \in RequestCalls \cup {NoCall}

\* Once an operation was reported as done, the rows the page offers to decide on
\* are never older than it, unless the page is fetching them again or says that
\* they are unavailable.
AckedIsShown ==
  ~Fetching(requestList) /\ RequestsBody = "table" => requestList.data.at >= requestAcked

\* What others did, and operations whose answer was lost, are shown in the end: the
\* page polls whether or not its own calls succeed, and then every request is listed
\* and the cards count those, and only those, that the server has.
RequestsShown ==
  /\ RequestsLoaded /\ Found("all") = {r \in Request : requests[r] # "none"}
  /\ Cards.Pending = Actual({"pending_approval"}) /\ Cards.Approved = Actual({"approved"})
  /\ Cards.Running = Actual({"running"}) /\ Cards.Completed = Actual({"completed"})
  /\ Cards.Failed = Actual({"failed", "skipped"}) /\ Cards.Rejected = Actual({"rejected"})

RequestsAreShown == <>[]RequestsShown

================================================================================
