---------------------------- MODULE ActionsConsole ----------------------------
(***************************************************************************)
(* The pages "Control Actions" (PendingApproval, ActionHistory and the tabs*)
(* beside them) and the bell of the top bar: operators approve, reject and *)
(* execute the actions of policy-control from a list that all of them      *)
(* share, while the consumer of policy-control and other operators change  *)
(* the actions.                                                            *)
(*                                                                         *)
(* A call outlives the tab it was made on: the buttons of a tab wait for   *)
(* the calls of this tab only, and leaving it drops its error message.     *)
(*                                                                         *)
(* policy-control reads an action, decides on that copy and saves all of   *)
(* it later, for a message as for a call: a save may undo what was changed *)
(* since its copy was read.  PolicyControl has the single commands.        *)
(***************************************************************************)
EXTENDS Naturals, QueryCache

CONSTANTS
  CtlAction,   \* identifiers of actions
  CtlType,     \* what the policy rules recommend
  NoRow,       \* an action that does not exist yet
  MaxCtlOps    \* bound: calls, changes of tab and changes elsewhere

ASSUME ActionsParameters == NoRow \notin CtlAction /\ MaxCtlOps \in Nat

VARIABLES
  ctlActions,  \* policy-control: type and status of every action
  ctlVersion,  \* history: changes of the actions so far
  ctlSaves,    \* copies of actions that were read and decided on, and not yet saved
  overtaken,   \* history: actions saved from a copy whose status was not theirs any more
  ctlList,     \* cache entry ["controls", "actions"]
  ctlTab,      \* the tab that is shown and when it was opened
  ctlError,    \* actionErr of this tab
  ctlCalls,    \* mutations in flight
  ctlOps,      \* operations so far; numbers the calls and the tabs
  ctlAcked     \* history: version of the last call that was reported as done

ctlVars ==
  <<ctlActions, ctlVersion, ctlSaves, overtaken, ctlList, ctlTab, ctlError, ctlCalls, ctlOps,
    ctlAcked>>

ctlStored == <<ctlActions, ctlVersion, ctlSaves, overtaken>>

--------------------------------------------------------------------------------
(* policy-control. *)

CtlStatus == {"PENDING_APPROVAL", "APPROVED", "REJECTED", "EXECUTED_SIMULATED", "FAILED"}

CtlRecord == [type : CtlType, status : CtlStatus]

CtlStore == [CtlAction -> CtlRecord \cup {NoRow}]

CtlAnswers == [items : CtlStore, at : Nat]

ASSUME NoCtlRecord == NoRow \notin CtlRecord /\ NoData \notin CtlAnswers

CtlAllowed(op, status) ==
  CASE op = "approve" -> status = "PENDING_APPROVAL"
    [] op = "reject"  -> status \in {"PENDING_APPROVAL", "APPROVED"}
    [] op = "execute" -> status = "APPROVED"

CtlOutcome(op) ==
  CASE op = "approve" -> "APPROVED"
    [] op = "reject"  -> "REJECTED"
    [] op = "execute" -> "EXECUTED_SIMULATED"

\* Mutant: an action follows its alert until it is executed.
FollowsAlertMutant(s) == s \in {"PENDING_APPROVAL", "APPROVED"}

\* The consumer decides an action anew from every message of its alert.
FollowsAlert(s) == s = "PENDING_APPROVAL"

\* What the rules decide: the default rule asks for nothing and is executed at once.
Decisions == [type : CtlType, status : {"PENDING_APPROVAL", "EXECUTED_SIMULATED"}]

CtlSaveSet ==
  [who : {"consumer", "operator", "page"}, no : 1..MaxCtlOps, id : CtlAction,
   read : CtlRecord, new : CtlRecord]

\* A copy of action a was read, and becomes new.
Copied(w, n, a, new) ==
  ctlSaves' = ctlSaves \cup {[who |-> w, no |-> n, id |-> a, read |-> ctlActions[a], new |-> new]}

--------------------------------------------------------------------------------
(* The pages. *)

Tabs == {"pending-approval", "action-history", "simulated-actuations", "drift-monitor"}

CtlItems ==
  IF ctlList.data = NoData THEN {}
  ELSE {a \in CtlAction : ctlList.data.items[a] # NoRow}

Item(a) == ctlList.data.items[a]

\* The rows of the tab.  An error is shown above the rows of the last answer.
CtlRows ==
  {a \in CtlItems :
     \/ ctlTab.name = "pending-approval" /\ Item(a).status = "PENDING_APPROVAL"
     \/ ctlTab.name = "action-history" /\ Item(a).status # "PENDING_APPROVAL"}

\* ActionRow: the buttons of an action.
CtlButtons(a) ==
  CASE Item(a).status = "PENDING_APPROVAL" -> {"approve", "reject"}
    [] Item(a).status = "APPROVED"         -> {"execute"}
    [] OTHER                               -> {}

\* PipelineViz: the stages an action is shown to have passed.
Stages(a) ==
  {"alert", "action"}
  \cup (IF Item(a).status # "PENDING_APPROVAL" THEN {"approval"} ELSE {})
  \cup (IF Item(a).status = "EXECUTED_SIMULATED" THEN {"execution"} ELSE {})

\* The bell of the top bar.
pendingCount == {a \in CtlItems : Item(a).status = "PENDING_APPROVAL"}

\* isPending of the three mutations of this tab.
mutLoading == \E c \in ctlCalls : c.tab = ctlTab.opened

CtlCallSet ==
  [no : 1..MaxCtlOps, op : {"approve", "reject", "execute"}, id : CtlAction, shown : CtlType,
   tab : 0..MaxCtlOps, stage : {"sent", "decided", "done", "refused"}, at : Nat]

CtlOp == ctlOps < MaxCtlOps /\ ctlOps' = ctlOps + 1

--------------------------------------------------------------------------------
CtlInit ==
  /\ ctlActions \in [CtlAction -> [type : CtlType, status : {"PENDING_APPROVAL", "APPROVED"}]
                                  \cup {NoRow}]
  /\ ctlVersion = 0 /\ ctlAcked = 0
  /\ ctlSaves = {} /\ overtaken = {}
  /\ ctlList = MountedEntry
  /\ ctlTab = [name |-> "action-history", opened |-> 0]
  /\ ctlError = FALSE
  /\ ctlCalls = {} /\ ctlOps = 0

\* The one consumer reads the action of its message; there may be none yet.
ConsumerReads ==
  /\ CtlOp
  /\ \A x \in ctlSaves : x.who # "consumer"
  /\ \E a \in CtlAction : \E d \in Decisions :
       \/ /\ ctlActions[a] = NoRow
          /\ ctlActions' = [ctlActions EXCEPT ![a] = d]
          /\ ctlVersion' = ctlVersion + 1
          /\ UNCHANGED ctlSaves
       \/ /\ ctlActions[a] # NoRow /\ FollowsAlert(ctlActions[a].status)
          /\ Copied("consumer", ctlOps + 1, a, d)
          /\ UNCHANGED <<ctlActions, ctlVersion>>
  /\ UNCHANGED <<overtaken, ctlList, ctlTab, ctlError, ctlCalls, ctlAcked>>

\* The call of another operator reads its action.
OperatorReads ==
  /\ CtlOp
  /\ \E a \in CtlAction : \E op \in {"approve", "reject", "execute"} :
       /\ ctlActions[a] # NoRow /\ CtlAllowed(op, ctlActions[a].status)
       /\ Copied("operator", ctlOps + 1, a, [ctlActions[a] EXCEPT !.status = CtlOutcome(op)])
  /\ UNCHANGED <<ctlActions, ctlVersion, overtaken, ctlList, ctlTab, ctlError, ctlCalls, ctlAcked>>

\* Somebody's copy is saved, whatever the action is by now.
CtlSaved ==
  /\ \E x \in ctlSaves :
       /\ ctlSaves' = ctlSaves \ {x}
       /\ ctlActions' = [ctlActions EXCEPT ![x.id] = x.new]
       /\ ctlVersion' = ctlVersion + 1
       /\ overtaken' = IF ctlActions[x.id].status = x.read.status THEN overtaken
                       ELSE overtaken \cup {x.id}
       /\ ctlCalls' = {IF x.who = "page" /\ c.no = x.no
                       THEN [c EXCEPT !.stage = "done", !.at = ctlVersion + 1] ELSE c :
                       c \in ctlCalls}
  /\ UNCHANGED <<ctlList, ctlTab, ctlError, ctlOps, ctlAcked>>

\* A copy is lost to an error of Redis or of the actuator, or to a restart.
SaveFails ==
  /\ \E x \in ctlSaves : ctlSaves' = ctlSaves \ {x}
  /\ UNCHANGED <<ctlActions, ctlVersion, overtaken, ctlList, ctlTab, ctlError, ctlCalls, ctlOps,
                 ctlAcked>>

CtlFetch(e) ==
  /\ ctlList' = e
  /\ UNCHANGED <<ctlStored, ctlTab, ctlError, ctlCalls, ctlOps, ctlAcked>>

\* The tab polls every 8 seconds, the top bar every 15.
CtlPoll == ~Fetching(ctlList) /\ CtlFetch(Asked(ctlList))

CtlAnswered ==
  /\ Waiting(ctlList)
  /\ CtlFetch(Answered(ctlList, [items |-> ctlActions, at |-> ctlVersion]))

CtlLand == Landing(ctlList) /\ CtlFetch(Landed(ctlList))

CtlFail == Fetching(ctlList) /\ CtlFetch(Failed(ctlList))

\* Another tab: the entry stays, the top bar observes it as well.
OpenTab ==
  /\ CtlOp
  /\ \E t \in Tabs \ {ctlTab.name} : ctlTab' = [name |-> t, opened |-> ctlOps + 1]
  /\ ctlError' = FALSE
  /\ UNCHANGED <<ctlStored, ctlList, ctlCalls, ctlAcked>>

\* A button of a row.  Nothing is confirmed.
PressCtl ==
  /\ ~mutLoading /\ CtlOp
  /\ \E a \in CtlRows : \E op \in CtlButtons(a) :
       ctlCalls' = ctlCalls \cup
         {[no |-> ctlOps + 1, op |-> op, id |-> a, shown |-> Item(a).type,
           tab |-> ctlTab.opened, stage |-> "sent", at |-> 0]}
  /\ UNCHANGED <<ctlStored, ctlList, ctlTab, ctlError, ctlAcked>>

\* A call of the page reads its action; an execution is applied to the network here,
\* from the copy it has read.
ServeCtl ==
  /\ \E c \in ctlCalls :
       /\ c.stage = "sent"
       /\ IF CtlAllowed(c.op, ctlActions[c.id].status)
          THEN /\ Copied("page", c.no, c.id,
                         [ctlActions[c.id] EXCEPT !.status = CtlOutcome(c.op)])
               /\ ctlCalls' = (ctlCalls \ {c}) \cup {[c EXCEPT !.stage = "decided"]}
          ELSE /\ ctlCalls' = (ctlCalls \ {c}) \cup {[c EXCEPT !.stage = "refused"]}
               /\ UNCHANGED ctlSaves
  /\ UNCHANGED <<ctlActions, ctlVersion, overtaken, ctlList, ctlTab, ctlError, ctlOps, ctlAcked>>

\* Mutant: a callback that is not called once the tab has been left.
CtlReturnsMutant ==
  /\ \E c \in ctlCalls :
       /\ c.stage = "done"
       /\ ctlCalls' = ctlCalls \ {c}
       /\ ctlAcked' = IF c.at > ctlAcked THEN c.at ELSE ctlAcked
       /\ ctlList' = IF c.tab = ctlTab.opened THEN Invalidated(ctlList) ELSE ctlList
  /\ UNCHANGED <<ctlStored, ctlTab, ctlError, ctlOps>>

\* onSuccess: everything under ["controls"] is fetched again, on whichever tab.  An
\* old error message stays.
CtlReturns ==
  /\ \E c \in ctlCalls :
       /\ c.stage = "done"
       /\ ctlCalls' = ctlCalls \ {c}
       /\ ctlAcked' = IF c.at > ctlAcked THEN c.at ELSE ctlAcked
  /\ ctlList' = Invalidated(ctlList)
  /\ UNCHANGED <<ctlStored, ctlTab, ctlError, ctlOps>>

\* onError: refused, or the answer was lost; shown if its tab is still there.
CtlErrs ==
  /\ \E c \in ctlCalls :
       /\ ctlCalls' = ctlCalls \ {c}
       /\ ctlError' = (ctlError \/ c.tab = ctlTab.opened)
  /\ UNCHANGED <<ctlStored, ctlList, ctlTab, ctlOps, ctlAcked>>

DismissError ==
  /\ ctlError /\ ctlError' = FALSE
  /\ UNCHANGED <<ctlStored, ctlList, ctlTab, ctlCalls, ctlOps, ctlAcked>>

CtlNext ==
  \/ ConsumerReads \/ OperatorReads \/ CtlSaved \/ SaveFails
  \/ CtlPoll \/ CtlAnswered \/ CtlLand \/ CtlFail
  \/ OpenTab \/ PressCtl \/ ServeCtl \/ CtlReturns \/ CtlErrs \/ DismissError

CtlSpec == CtlInit /\ [][CtlNext]_ctlVars

--------------------------------------------------------------------------------
(* Properties. *)

CtlTypeOK ==
  /\ ctlActions \in CtlStore
  /\ ctlSaves \subseteq CtlSaveSet /\ overtaken \subseteq CtlAction
  /\ ctlVersion \in Nat /\ ctlAcked \in 0..ctlVersion
  /\ ctlList \in Entries(CtlAnswers)
  /\ ctlTab \in [name : Tabs, opened : 0..MaxCtlOps]
  /\ ctlError \in BOOLEAN
  /\ ctlCalls \subseteq CtlCallSet
  /\ ctlOps \in 0..MaxCtlOps

\* What is applied to the network is what the row said when "Execute" was pressed,
\* however old the row was: an alert changes an action only until it is decided.  Of
\* an action that was saved from a copy whose status others had changed meanwhile
\* this is not so: the consumer can undo an approval, and an Execute that was pressed
\* before then applies what somebody approves after.
ExecutedAsShown ==
  [][\A c \in ctlCalls :
       /\ c.stage = "sent" /\ c.op = "execute" /\ c.id \notin overtaken
       /\ [c EXCEPT !.stage = "decided"] \in ctlCalls'
       => ctlActions[c.id].type = c.shown]_ctlVars

\* Once a call was reported as done, no tab and not the bell show the actions as
\* they were before, unless they are being fetched again or the last fetch failed;
\* this holds too when the tab of the call was left before it returned.
ActionsAreFresh ==
  ~Fetching(ctlList) /\ ~ctlList.error => ctlList.data.at >= ctlAcked

================================================================================
