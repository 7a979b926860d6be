------------------------------ MODULE MCConsoles ------------------------------
(* The pages that change what a server keeps, on small instances.  The router  *)
(* mounts one page at a time, so a behaviour is about one of them; a page that *)
(* is not mounted rests in a fixed initial state.                              *)
EXTENDS UsersConsole, SchedulesConsole, ActionsConsole, ModelsConsole, RuntimeConsole

VARIABLE page  \* the page this behaviour is about

consolesVars == <<page, usersVars, schedulesVars, ctlVars, modelsVars, runtimeVars>>

At(p, A) == page = p /\ A

ConsolesInit ==
  /\ page \in {"users", "schedules", "actions", "models", "runtime"}
  /\ page # "users" =>
       accounts = [u \in User |-> IF u = Self THEN [role |-> "ADMIN", status |-> "active"]
                                  ELSE [role |-> "NETWORK_OPERATOR", status |-> "absent"]]
  /\ page # "schedules" => schedules = [s \in Schedule |-> NoSchedule]
  /\ page # "actions" => ctlActions = [a \in CtlAction |-> NoRow]
  /\ page # "runtime" => service = [enabled |-> TRUE, mode |-> "auto"]
  /\ UsersInit /\ SchedulesInit /\ CtlInit /\ ModelsInit /\ RuntimeInit

ConsolesNext ==
  /\ UNCHANGED page
  /\ \/ At("users", UsersNext)
        /\ UNCHANGED <<schedulesVars, ctlVars, modelsVars, runtimeVars>>
     \/ At("schedules", SchedulesNext)
        /\ UNCHANGED <<usersVars, ctlVars, modelsVars, runtimeVars>>
     \/ At("actions", CtlNext)
        /\ UNCHANGED <<usersVars, schedulesVars, modelsVars, runtimeVars>>
     \/ At("models", ModelsNext)
        /\ UNCHANGED <<usersVars, schedulesVars, ctlVars, runtimeVars>>
     \/ At("runtime", RuntimeNext)
        /\ UNCHANGED <<usersVars, schedulesVars, ctlVars, modelsVars>>

ConsolesSpec == ConsolesInit /\ [][ConsolesNext]_consolesVars

\* The types of all pages.
ConsolesTypeOK ==
  /\ UsersTypeOK /\ SchedulesTypeOK /\ CtlTypeOK /\ ModelsTypeOK /\ RuntimeTypeOK

\* What a page does to the server never rests on what its operator did not see or
\* choose, however stale the page is and whatever others did meanwhile: roles,
\* passwords, toggles, the times of schedules and what is applied to the network.
NothingUnseenIsChanged ==
  /\ NoLostRoleChange /\ ToggleDoesAsItSaid /\ []PasswordOfItsAccount
  /\ ButtonsKeepTheRest /\ []EditKeepsCron
  /\ ExecutedAsShown

\* What the page has reported to its operator as done is not shown undone by an
\* answer that was sent before: deleted schedules, decided actions, promoted models.
\* And the two keys of a runtime service agree when their writers are done.
ReportsAgree ==
  GoneStaysGone /\ ActionsAreFresh /\ DetailsFollowReports /\ ServiceKeysAgree

================================================================================
