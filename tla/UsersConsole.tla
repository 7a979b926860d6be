----------------------------- MODULE UsersConsole -----------------------------
(***************************************************************************)
(* The page "User management" (UsersManagementPage.tsx): a manager creates,*)
(* edits, disables and deletes accounts from a list that is fetched when   *)
(* the page opens and after his own operations, but never polled, while    *)
(* other managers do the same.  The answers of auth-service are modelled   *)
(* from AuthService.create_user, update_user and soft_delete_user.         *)
(*                                                                         *)
(* Calls overlap: only the buttons of the open dialog wait for the update  *)
(* that was sent last, those of the rows wait for nothing.                 *)
(***************************************************************************)
EXTENDS Naturals, QueryCache

CONSTANTS
  User,       \* accounts, existing or to be created
  Self,       \* the account of the operator, an ADMIN
  NoUser,     \* no account, no dialog
  MaxUserOps  \* bound: calls of the page and changes of other managers

ASSUME UsersParameters == Self \in User /\ NoUser \notin User /\ MaxUserOps \in Nat

VARIABLES
  accounts,    \* auth-service: role and status of every account
  userList,    \* cache entry ["admin", "users"]
  editing,     \* editingUser and editForm
  resetFor,    \* resetPasswordFor
  newPassword, \* history: the account for which the password was typed, or NoUser
  createForm,  \* isFormOpen and form: the account to create, its role
  userCalls,   \* mutations in flight
  userOps,     \* operations so far; numbers the calls
  lastUpdate   \* the call updateMutation.isPending is about

usersVars == <<accounts, userList, editing, resetFor, newPassword, createForm,
               userCalls, userOps, lastUpdate>>

dialogVars == <<editing, resetFor, newPassword, createForm>>

--------------------------------------------------------------------------------
(* auth-service. *)

ASSIGNABLE_ROLES == {"NETWORK_OPERATOR", "NETWORK_MANAGER", "DATA_MLOPS_ENGINEER"}

Role == ASSIGNABLE_ROLES \cup {"ADMIN"}

Accounts == [role : Role, status : {"absent", "active", "disabled", "deleted"}]

\* GET /users leaves out the deleted accounts.
Present(a) == a.status \in {"active", "disabled"}

Unchanged == "unchanged"  \* a field the payload leaves out

\* Mutant: the update flips is_active, whatever the payload says.
UpdatedMutant(a, c) ==
  IF ~Present(a) THEN {}
  ELSE {[role   |-> IF c.role = Unchanged THEN a.role ELSE c.role,
         status |-> IF c.status = Unchanged THEN a.status
                    ELSE IF a.status = "active" THEN "disabled" ELSE "active"]}

\* update_user: what is left of an account, or nothing when the call is refused.
Updated(a, c) ==
  IF \/ ~Present(a)
     \/ a.role = "ADMIN" /\ (c.role # Unchanged \/ c.status = "disabled")
  THEN {}
  ELSE {[role   |-> IF c.role = Unchanged THEN a.role ELSE c.role,
         status |-> IF c.status = Unchanged THEN a.status ELSE c.status]}

\* soft_delete_user.
Deleted(id, a) ==
  IF ~Present(a) \/ a.role = "ADMIN" \/ id = Self THEN {}
  ELSE {[a EXCEPT !.status = "deleted"]}

\* create_user: an email is never given twice, not even that of a deleted account.
CreatedAccount(a, c) ==
  IF a.status # "absent" THEN {} ELSE {[role |-> c.role, status |-> "active"]}

Effect(c) ==
  CASE c.kind = "create" -> CreatedAccount(accounts[c.id], c)
    [] c.kind = "delete" -> Deleted(c.id, accounts[c.id])
    [] OTHER             -> Updated(accounts[c.id], c)

--------------------------------------------------------------------------------
(* The page. *)

\* Mutant: administrators are forgotten.
isManagerAdminRoleMutant(role) == role = "NETWORK_MANAGER"

isManagerAdminRole(role) == role \in {"ADMIN", "NETWORK_MANAGER"}

ShownUsers == IF userList.data = NoData THEN {} ELSE {u \in User : Present(userList.data[u])}

UsersTable == ~Loading(userList) /\ ~userList.error

Row(u) == userList.data[u]

\* The buttons of a row that are not disabled.
RowActions(u) ==
  {"reset"}
  \cup (IF isManagerAdminRole(Row(u).role) THEN {} ELSE {"edit"})
  \cup (IF isManagerAdminRole(Row(u).role) \/ u = Self THEN {} ELSE {"toggle", "delete"})

NoDialog == editing = NoUser /\ resetFor = NoUser

updatePending == \E c \in userCalls : c.no = lastUpdate

UserCalls ==
  [no : 1..MaxUserOps, kind : {"create", "edit", "toggle", "password", "delete"}, id : User,
   role : Role \cup {Unchanged}, status : {"active", "disabled", Unchanged},
   chosen : BOOLEAN, typedFor : User \cup {NoUser}, stage : {"sent", "done"}]

NoFields == [role |-> Unchanged, status |-> Unchanged, chosen |-> FALSE, typedFor |-> NoUser]

\* mutate(): the call is in flight.
Call(kind, u, p) ==
  /\ userOps < MaxUserOps
  /\ userOps' = userOps + 1
  /\ userCalls' = userCalls \cup
       {[no |-> userOps + 1, kind |-> kind, id |-> u, role |-> p.role, status |-> p.status,
         chosen |-> p.chosen, typedFor |-> p.typedFor, stage |-> "sent"]}
  /\ lastUpdate' = IF kind \in {"create", "delete"} THEN lastUpdate ELSE userOps + 1
  /\ UNCHANGED <<accounts, userList>>

--------------------------------------------------------------------------------
UsersInit ==
  /\ accounts \in [User -> Accounts]
  /\ \A u \in User :
       IF u = Self THEN accounts[u] = [role |-> "ADMIN", status |-> "active"]
       ELSE accounts[u] \in {[role |-> "NETWORK_OPERATOR", status |-> "active"],
                             [role |-> "NETWORK_OPERATOR", status |-> "absent"]}
  /\ userList = MountedEntry
  /\ editing = NoUser /\ resetFor = NoUser /\ newPassword = NoUser
  /\ createForm = NoUser
  /\ userCalls = {} /\ userOps = 0 /\ lastUpdate = 0

\* Another manager, with the same page or with the API.
AccountMoves ==
  /\ userOps < MaxUserOps
  /\ userOps' = userOps + 1
  /\ \E u \in User \ {Self}, status \in {"active", "disabled", Unchanged},
       role \in ASSIGNABLE_ROLES \cup {Unchanged} :
       \E a \in Updated(accounts[u], [role |-> role, status |-> status])
                \cup Deleted(u, accounts[u])
                \cup CreatedAccount(accounts[u], [role |-> "NETWORK_OPERATOR"]) :
         accounts' = [accounts EXCEPT ![u] = a]
  /\ UNCHANGED <<userList, editing, resetFor, newPassword, createForm, userCalls, lastUpdate>>

UsersFetch(e) ==
  /\ userList' = e
  /\ UNCHANGED <<accounts, editing, resetFor, newPassword, createForm, userCalls, userOps,
                 lastUpdate>>

UsersAnswered == Waiting(userList) /\ UsersFetch(Answered(userList, accounts))

UsersLand == Landing(userList) /\ UsersFetch(Landed(userList))

UsersFail == Fetching(userList) /\ UsersFetch(Failed(userList))

\* "New user" opens and closes the form and keeps what was typed; "Cancel" drops it.
FillCreateForm ==
  /\ NoDialog
  /\ \E form \in {NoUser} \cup (User \X ASSIGNABLE_ROLES) :
       createForm # form /\ createForm' = form
  /\ UNCHANGED <<accounts, userList, editing, resetFor, newPassword, userCalls, userOps,
                 lastUpdate>>

handleCreate ==
  /\ NoDialog /\ createForm # NoUser
  /\ ~\E c \in userCalls : c.kind = "create"
  /\ Call("create", createForm[1], [NoFields EXCEPT !.role = createForm[2]])
  /\ UNCHANGED dialogVars

\* seen: the role of the row when the dialog was opened.
openEdit ==
  /\ NoDialog /\ UsersTable
  /\ \E u \in ShownUsers :
       /\ "edit" \in RowActions(u)
       /\ editing' = [id |-> u, seen |-> Row(u).role, role |-> Row(u).role]
  /\ UNCHANGED <<accounts, userList, resetFor, newPassword, createForm, userCalls, userOps,
                 lastUpdate>>

ChooseRole ==
  /\ editing # NoUser
  /\ \E role \in ASSIGNABLE_ROLES \ {editing.role} :
       editing' = [editing EXCEPT !.role = role]
  /\ UNCHANGED <<accounts, userList, resetFor, newPassword, createForm, userCalls, userOps,
                 lastUpdate>>

\* Mutant: the whole form is sent.
handleEditSubmitMutant ==
  /\ editing # NoUser /\ ~updatePending
  /\ Call("edit", editing.id, [NoFields EXCEPT !.role = editing.role,
                                              !.chosen = editing.role # editing.seen])
  /\ UNCHANGED dialogVars

\* The payload has the fields that differ from the row the dialog was opened on:
\* the role if another one was chosen; otherwise the name, or there is no call.
handleEditSubmit ==
  /\ editing # NoUser /\ ~updatePending
  /\ \/ /\ editing.role # editing.seen
        /\ Call("edit", editing.id, [NoFields EXCEPT !.role = editing.role, !.chosen = TRUE])
        /\ UNCHANGED dialogVars
     \/ /\ editing.role = editing.seen
        /\ Call("edit", editing.id, NoFields)
        /\ UNCHANGED dialogVars
     \/ /\ editing.role = editing.seen
        /\ editing' = NoUser
        /\ UNCHANGED <<accounts, userList, resetFor, newPassword, createForm, userCalls,
                       userOps, lastUpdate>>

CloseEdit ==
  /\ editing # NoUser
  /\ editing' = NoUser
  /\ UNCHANGED <<accounts, userList, resetFor, newPassword, createForm, userCalls, userOps,
                 lastUpdate>>

\* Mutant: the field keeps the password that was typed for another account.
openResetMutant ==
  /\ NoDialog /\ UsersTable
  /\ \E u \in ShownUsers : resetFor' = u
  /\ UNCHANGED <<accounts, userList, editing, newPassword, createForm, userCalls, userOps,
                 lastUpdate>>

openReset ==
  /\ NoDialog /\ UsersTable
  /\ \E u \in ShownUsers : "reset" \in RowActions(u) /\ resetFor' = u
  /\ newPassword' = NoUser
  /\ UNCHANGED <<accounts, userList, editing, createForm, userCalls, userOps, lastUpdate>>

TypePassword ==
  /\ resetFor # NoUser /\ newPassword = NoUser
  /\ newPassword' = resetFor
  /\ UNCHANGED <<accounts, userList, editing, resetFor, createForm, userCalls, userOps,
                 lastUpdate>>

\* A password of less than eight characters, as the empty one, is not sent.
handleResetPassword ==
  /\ resetFor # NoUser /\ newPassword # NoUser /\ ~updatePending
  /\ Call("password", resetFor, [NoFields EXCEPT !.typedFor = newPassword])
  /\ UNCHANGED dialogVars

\* Closing the dialog leaves the password in the field.
CloseReset ==
  /\ resetFor # NoUser
  /\ resetFor' = NoUser
  /\ UNCHANGED <<accounts, userList, editing, newPassword, createForm, userCalls, userOps,
                 lastUpdate>>

handleToggleActive ==
  /\ NoDialog /\ UsersTable
  /\ \E u \in ShownUsers :
       /\ "toggle" \in RowActions(u)
       /\ Call("toggle", u, [NoFields EXCEPT
            !.status = IF Row(u).status = "active" THEN "disabled" ELSE "active"])
  /\ UNCHANGED dialogVars

handleDelete ==
  /\ NoDialog /\ UsersTable
  /\ \E u \in ShownUsers : "delete" \in RowActions(u) /\ Call("delete", u, NoFields)
  /\ UNCHANGED dialogVars

\* auth-service handles a call; a refused one changes nothing and goes to onError.
ServeUserCall ==
  /\ \E c \in userCalls :
       /\ c.stage = "sent"
       /\ \E a \in Effect(c) :
            /\ accounts' = [accounts EXCEPT ![c.id] = a]
            /\ userCalls' = (userCalls \ {c}) \cup {[c EXCEPT !.stage = "done"]}
  /\ UNCHANGED <<userList, editing, resetFor, newPassword, createForm, userOps, lastUpdate>>

\* onSuccess: every update closes the edit and the reset dialog, whichever account
\* they are about; a creation closes the form.
UserCallReturns ==
  /\ \E c \in userCalls :
       /\ c.stage = "done"
       /\ userCalls' = userCalls \ {c}
       /\ IF c.kind \in {"create", "delete"} THEN UNCHANGED <<editing, resetFor, newPassword>>
          ELSE editing' = NoUser /\ resetFor' = NoUser /\ newPassword' = NoUser
       /\ createForm' = IF c.kind = "create" THEN NoUser ELSE createForm
  /\ userList' = Invalidated(userList)
  /\ UNCHANGED <<accounts, userOps, lastUpdate>>

\* onError: refused by the server, or the answer was lost.  The list stays as it is.
UserCallErrs ==
  /\ \E c \in userCalls : userCalls' = userCalls \ {c}
  /\ UNCHANGED <<accounts, userList, editing, resetFor, newPassword, createForm, userOps,
                 lastUpdate>>

UsersNext ==
  \/ AccountMoves
  \/ UsersAnswered \/ UsersLand \/ UsersFail
  \/ FillCreateForm \/ handleCreate
  \/ openEdit \/ ChooseRole \/ handleEditSubmit \/ CloseEdit
  \/ openReset \/ TypePassword \/ handleResetPassword \/ CloseReset
  \/ handleToggleActive \/ handleDelete
  \/ ServeUserCall \/ UserCallReturns \/ UserCallErrs

UsersSpec == UsersInit /\ [][UsersNext]_usersVars

--------------------------------------------------------------------------------
(* Properties. *)

\* Types; of an operator's own account the page changes the password only (a
\* creation with its email is refused).
UsersTypeOK ==
  /\ accounts \in [User -> Accounts]
  /\ userList \in Entries([User -> Accounts])
  /\ editing \in [id : User, seen : Role, role : Role] \cup {NoUser}
  /\ resetFor \in User \cup {NoUser} /\ newPassword \in User \cup {NoUser}
  /\ createForm \in (User \X ASSIGNABLE_ROLES) \cup {NoUser}
  /\ userCalls \subseteq UserCalls
  /\ \A c \in userCalls : c.id = Self => c.kind \in {"password", "create"}
  /\ userOps \in 0..MaxUserOps /\ lastUpdate \in 0..MaxUserOps

\* In this step auth-service did what call c asks for.
ServedCall(c) == c.stage = "sent" /\ [c EXCEPT !.stage = "done"] \in userCalls'

\* Saving an edit never takes back what another manager changed meanwhile: a call
\* changes a role only when its operator chose one in the dialog, however stale
\* the row was on which the dialog was opened.
NoLostRoleChange ==
  [][\A c \in userCalls :
       ServedCall(c) /\ c.kind # "create" /\ accounts'[c.id].role # accounts[c.id].role
         => c.chosen]_usersVars

\* A password goes to the account in whose dialog it was typed, although the
\* field is shared and keeps its content when the dialog is closed.
PasswordOfItsAccount ==
  \A c \in userCalls : c.kind = "password" => c.typedFor = c.id

\* A second click before the list is fetched again repeats the first: a toggle
\* sets what its button said, it never flips what another call has set.
ToggleDoesAsItSaid ==
  [][\A c \in userCalls :
       ServedCall(c) /\ c.kind = "toggle" => accounts'[c.id].status = c.status]_usersVars

================================================================================
