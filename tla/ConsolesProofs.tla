---------------------------- MODULE ConsolesProofs -----------------------------
(***************************************************************************)
(* Machine-checked proofs about the pages that change what a server keeps, *)
(* for every set of users, schedules, actions and models and every bound.  *)
(***************************************************************************)
EXTENDS MCConsoles, TLAPS

--------------------------------------------------------------------------------
(* The inductive invariants of ActionsConsole. *)

\* Action a, read as item, exists; once decided it stays decided and of its type, unless
\* a copy was saved over a change of others.
Still(item, a) ==
  /\ ctlActions[a] # NoRow
  /\ item.status # "PENDING_APPROVAL" /\ a \notin overtaken =>
       ctlActions[a].status # "PENDING_APPROVAL" /\ ctlActions[a].type = item.type

\* Calls are about actions that were shown, an execution about a decided one.
CtlCallDiscipline ==
  \A c \in ctlCalls :
    /\ ctlList.data # NoData /\ ctlActions[c.id] # NoRow /\ c.at <= ctlVersion
    /\ c.op = "execute" => Still([type |-> c.shown, status |-> "APPROVED"], c.id)

\* A copy that is kept was true of a decided action, and will leave it decided.
SaveDiscipline ==
  \A x \in ctlSaves :
    /\ Still(x.read, x.id)
    /\ x.read.status # "PENDING_APPROVAL" =>
         x.new.status # "PENDING_APPROVAL" /\ x.new.type = x.read.type

\* What is shown or about to be is true of decided actions, and no answer that will be
\* shown is older than a call that was reported.
CtlListDiscipline ==
  /\ \A seen \in {ctlList.data, ctlList.answer} \ {NoData}, a \in CtlAction :
       seen.items[a] # NoRow => Still(seen.items[a], a)
  /\ Landing(ctlList) => ctlList.answer # NoData /\ ctlList.answer.at >= ctlAcked
  /\ ~Fetching(ctlList) /\ ~ctlList.error =>
       ctlList.data # NoData /\ ctlList.data.at >= ctlAcked

--------------------------------------------------------------------------------
(* The inductive invariants of ModelsConsole. *)

\* Dialogs are open, and calls are under way, for models whose details were shown; a call
\* knows of no change the model has not seen.
ModelCallDiscipline ==
  /\ modelAction # "none" =>
       modelSelected # NoModel /\ modelDetails[modelSelected].data # NoData
  /\ \A op \in ModelMutation :
       modelCalls[op] # NoModel =>
         /\ modelCalls[op].at <= models[modelCalls[op].id]
         /\ modelDetails[modelCalls[op].id].data # NoData

\* Nothing was reported that the selected model has not seen, and no answer that will be
\* shown of it is older than the report.
DetailDiscipline ==
  /\ \A m \in Model : Landing(modelDetails[m]) => modelDetails[m].answer # NoData
  /\ modelSelected # NoModel =>
       /\ modelReported <= models[modelSelected]
       /\ Landing(modelDetails[modelSelected]) =>
            modelDetails[modelSelected].answer >= modelReported
       /\ modelDetails[modelSelected].data # NoData /\ ~Fetching(modelDetails[modelSelected])
            /\ ~modelDetails[modelSelected].error
          => modelDetails[modelSelected].data >= modelReported

--------------------------------------------------------------------------------
(* The inductive invariants of RuntimeConsole. *)

\* A service, or a payload, whose two keys agree.
Agrees(s) == /\ s.mode = "disabled" => ~s.enabled
             /\ s.mode = "auto" => s.enabled

\* While one PATCH at a time is under way, what it writes agrees, and so do the keys but
\* in the middle of it or since the middle of one that failed.
PatchDiscipline ==
  ~crowded =>
    /\ patch = NoPatch \/ stranger = NoPatch
    /\ stranger # NoPatch => stranger.stage # "done"
    /\ \A p \in {patch, stranger} \ {NoPatch} :
         /\ Agrees(p.payload)
         /\ p.stage = "half" => service.enabled = p.payload.enabled
    /\ (\A p \in {patch, stranger} \ {NoPatch} : p.stage # "half") => Agrees(service) \/ halfWritten

--------------------------------------------------------------------------------
(* The inductive invariants of SchedulesConsole. *)

\* Schedule s can be opened and saved without a change.
Keeps(s) == SavedForm(hydrateForm(NoSchedule, s)) = s

\* An identifier the page has taken from its list.
Taken(id) == id \in Schedule /\ schedules[id] # NoSchedule /\ scheduleList.data # NoData

\* Form, dialog and call are about schedules that were in the list; an update is about
\* the schedule in the form, and what is sent can be opened again.
FormDiscipline ==
  /\ scheduleForm.id # NoSchedule => Taken(scheduleForm.id)
  /\ scheduleModal # NoSchedule => Taken(scheduleModal.id)
  /\ scheduleBusy =>
       /\ scheduleCall.kind # "create" => Taken(scheduleCall.id)
       /\ scheduleCall.kind = "update" => scheduleForm.id = scheduleCall.id
       /\ scheduleCall.kind \in {"create", "update"} =>
            scheduleCall.payload \in Schedules /\ Keeps(scheduleCall.payload)
       /\ scheduleCall.stage = "missing" \/ (scheduleCall.stage = "done" /\ scheduleCall.kind = "delete")
            => scheduleCall.kind # "create" /\ schedules[scheduleCall.id] = Past

\* What the list or an answer on its way has is there or deleted; what was reported as
\* gone is gone, and no answer that will be shown is from before.
ListDiscipline ==
  /\ \A seen \in {scheduleList.data, scheduleList.answer} \ {NoData}, id \in Schedule :
       seen[id] \notin {NoSchedule, Past} => schedules[id] # NoSchedule
  /\ Landing(scheduleList) => scheduleList.answer \in Stores
  /\ \A id \in reportedGone :
       /\ schedules[id] = Past /\ scheduleList.data # NoData
       /\ Landing(scheduleList) => scheduleList.answer[id] = Past
       /\ ~Fetching(scheduleList) /\ ~scheduleList.error => scheduleList.data[id] = Past

--------------------------------------------------------------------------------
(* The inductive invariants of UsersConsole. *)

\* The operator stays an active administrator, is shown as one, and edits others only.
SelfDiscipline ==
  /\ accounts[Self] = [role |-> "ADMIN", status |-> "active"]
  /\ \A seen \in {userList.data, userList.answer} \ {NoData} : seen[Self].role = "ADMIN"
  /\ editing # NoUser => editing.id # Self

\* Calls are numbered, and carry the fields their dialog or button asks for.
CallDiscipline ==
  /\ \A c \in userCalls :
       /\ c.no <= userOps
       /\ \A d \in userCalls : d.no = c.no => d = c
       /\ c.kind = "create" => c.role # Unchanged
       /\ c.kind # "create" /\ c.role # Unchanged => c.chosen
       /\ c.kind = "toggle" => c.status # Unchanged
       /\ c.kind = "password" => c.typedFor = c.id
  /\ resetFor # NoUser => newPassword \in {NoUser, resetFor}

--------------------------------------------------------------------------------
(* The cache entries. *)

LEMMA MountedType == \A S : MountedEntry \in Entries(S)
BY DEF MountedEntry, Entries

LEMMA EntryTypes ==
  ASSUME NEW S, NEW e \in Entries(S)
  PROVE  /\ Asked(e) \in Entries(S) /\ Invalidated(e) \in Entries(S)
         /\ Landed(e) \in Entries(S) /\ Failed(e) \in Entries(S)
         /\ \A v \in S : Answered(e, v) \in Entries(S)
<1>1. /\ e.data \in S \cup {NoData} /\ e.answer \in S \cup {NoData}
      /\ e.fetch \in {"idle", "asked", "answered"} /\ e.error \in BOOLEAN
  BY DEF Entries
<1>2. e = [data |-> e.data, fetch |-> e.fetch, answer |-> e.answer, error |-> e.error]
  BY DEF Entries
<1>3. Asked(e) \in Entries(S)
  <2>1. (e.error /\ e.data # NoData) \in BOOLEAN
    OBVIOUS
  <2>2. Asked(e) = e \/ Asked(e) = [data |-> e.data, fetch |-> "asked", answer |-> e.answer,
                                    error |-> e.error /\ e.data # NoData]
    BY <1>2 DEF Asked, Entries
  <2>3. \A b \in BOOLEAN :
          [data |-> e.data, fetch |-> "asked", answer |-> e.answer, error |-> b] \in Entries(S)
    BY <1>1 DEF Entries
  <2>4. QED BY <2>1, <2>2, <2>3, Zenon
<1>4. Invalidated(e) \in Entries(S)
  BY <1>1, <1>3 DEF Invalidated, Entries
<1>5. Landed(e) \in Entries(S)
  BY <1>1 DEF Landed, Entries
<1>6. Failed(e) \in Entries(S)
  BY <1>1 DEF Failed, Entries
<1>7. \A v \in S : Answered(e, v) \in Entries(S)
  BY <1>1 DEF Answered, Entries
<1>8. QED BY <1>3, <1>4, <1>5, <1>6, <1>7

\* What an entry has and what is on its way after a poll, an invalidation, an answer,
\* its landing and a failure.
LEMMA EntryData ==
  ASSUME NEW S, NEW e \in Entries(S)
  PROVE  /\ Asked(e).data = e.data /\ Asked(e).answer = e.answer
         /\ Invalidated(e).data = e.data /\ Invalidated(e).answer \in {e.answer, NoData}
         /\ Landed(e).data = e.answer /\ Landed(e).answer = NoData
         /\ Failed(e).data = e.data /\ Failed(e).answer = NoData
         /\ \A v : Answered(e, v).data = e.data /\ Answered(e, v).answer = v
BY DEF Asked, Invalidated, Landed, Failed, Answered, Entries

\* A fetch is under way after each of them but the last two, and nothing is landing
\* after an invalidation of an entry that has data.
LEMMA EntryStage ==
  ASSUME NEW S, NEW e \in Entries(S)
  PROVE  /\ Fetching(Asked(e)) /\ (Landing(Asked(e)) => Landing(e))
         /\ Fetching(Invalidated(e)) /\ (Landing(Invalidated(e)) => Landing(e) /\ e.data = NoData
                                                           /\ Invalidated(e).answer = e.answer)
         /\ \A v : Fetching(Answered(e, v)) /\ Landing(Answered(e, v))
         /\ ~Fetching(Landed(e)) /\ ~Landing(Landed(e)) /\ ~Landed(e).error
         /\ ~Landing(Failed(e)) /\ Failed(e).error
         /\ Landing(e) => Fetching(e)
         /\ Waiting(e) => Fetching(e)
BY DEF Asked, Invalidated, Landed, Failed, Answered, Entries, Fetching, Landing, Waiting

--------------------------------------------------------------------------------
(* The page "User management". *)

UsersInv == UsersTypeOK /\ SelfDiscipline /\ CallDiscipline

Fields ==
  [role : Role \cup {Unchanged}, status : {"active", "disabled", Unchanged}, chosen : BOOLEAN,
   typedFor : User \cup {NoUser}]

\* What update_user leaves of an account; an active administrator stays what he is.
LEMMA UpdatedTypes ==
  ASSUME NEW a \in Accounts, NEW c, c.role \in Role \cup {Unchanged},
         c.status \in {"active", "disabled", Unchanged}
  PROVE  /\ Updated(a, c) \subseteq Accounts
         /\ \A b \in Updated(a, c) :
              /\ c.role = Unchanged => b.role = a.role
              /\ b.status = IF c.status = Unchanged THEN a.status ELSE c.status
              /\ a.role = "ADMIN" /\ a.status = "active" => b = a
BY DEF Updated, Accounts, Present, Unchanged, Role, ASSIGNABLE_ROLES

\* What soft_delete_user and create_user leave of it.
LEMMA DeletedTypes ==
  ASSUME NEW u \in User, NEW a \in Accounts
  PROVE  /\ Deleted(u, a) \subseteq Accounts
         /\ \A b \in Deleted(u, a) : b.role = a.role /\ u # Self /\ a.role # "ADMIN"
BY DEF Deleted, Accounts

LEMMA CreatedTypes ==
  ASSUME NEW a \in Accounts, NEW c, c.role \in Role
  PROVE  /\ CreatedAccount(a, c) \subseteq Accounts
         /\ \A b \in CreatedAccount(a, c) : a.status = "absent"
BY DEF CreatedAccount, Accounts

\* What a call leaves of its account; nothing but its own call changes a role, and what
\* a toggle leaves has the status the toggle asks for.
LEMMA EffectTypes ==
  ASSUME UsersInv, NEW c \in userCalls, NEW b \in Effect(c)
  PROVE  /\ b \in Accounts
         /\ c.id = Self => b = accounts[Self]
         /\ c.kind # "create" /\ b.role # accounts[c.id].role => c.chosen
         /\ c.kind = "toggle" => b.status = c.status
<1>1. /\ c.id \in User /\ c.role \in Role \cup {Unchanged}
      /\ c.status \in {"active", "disabled", Unchanged}
      /\ c.kind \in {"create", "edit", "toggle", "password", "delete"}
  BY DEF UsersInv, UsersTypeOK, UserCalls
<1>2. accounts[c.id] \in Accounts
  BY <1>1 DEF UsersInv, UsersTypeOK
<1>3. /\ c.kind = "create" => c.role # Unchanged
      /\ c.kind # "create" /\ c.role # Unchanged => c.chosen
      /\ c.kind = "toggle" => c.status # Unchanged
  BY DEF UsersInv, CallDiscipline
<1>4. accounts[Self].role = "ADMIN" /\ accounts[Self].status = "active"
  BY DEF UsersInv, SelfDiscipline
<1>5. CASE c.kind = "create"
  <2>1. b \in CreatedAccount(accounts[c.id], c) /\ c.role \in Role
    BY <1>1, <1>3, <1>5 DEF Effect
  <2>2. b \in Accounts /\ accounts[c.id].status = "absent"
    BY <2>1, <1>2, CreatedTypes
  <2>3. QED BY <2>2, <1>4, <1>5
<1>6. CASE c.kind = "delete"
  <2>1. b \in Deleted(c.id, accounts[c.id])
    BY <1>6 DEF Effect
  <2>2. b \in Accounts /\ b.role = accounts[c.id].role /\ c.id # Self
    BY <2>1, <1>1, <1>2, DeletedTypes
  <2>3. QED BY <2>2, <1>6
<1>7. CASE c.kind \notin {"create", "delete"}
  <2>1. b \in Updated(accounts[c.id], c)
    BY <1>7, <1>1 DEF Effect
  <2>2. /\ b \in Accounts
        /\ c.role = Unchanged => b.role = accounts[c.id].role
        /\ b.status = IF c.status = Unchanged THEN accounts[c.id].status ELSE c.status
        /\ accounts[c.id].role = "ADMIN" /\ accounts[c.id].status = "active"
             => b = accounts[c.id]
    BY <2>1, <1>1, <1>2, UpdatedTypes
  <2>3. QED BY <2>2, <1>3, <1>4, <1>7
<1>8. QED BY <1>5, <1>6, <1>7

\* A call that is sent.
LEMMA CallSent ==
  ASSUME UsersInv, NEW kind \in {"create", "edit", "toggle", "password", "delete"},
         NEW u \in User, NEW p \in Fields, Call(kind, u, p),
         u = Self => kind \in {"password", "create"},
         kind = "create" => p.role # Unchanged,
         kind # "create" /\ p.role # Unchanged => p.chosen,
         kind = "toggle" => p.status # Unchanged,
         kind = "password" => p.typedFor = u,
         UNCHANGED dialogVars
  PROVE  /\ UsersInv'
         /\ accounts' = accounts
         /\ \A c \in userCalls' : c \in userCalls \/ (c.no > userOps /\ c.stage = "sent")
<1> DEFINE new == [no |-> userOps + 1, kind |-> kind, id |-> u, role |-> p.role,
                   status |-> p.status, chosen |-> p.chosen, typedFor |-> p.typedFor,
                   stage |-> "sent"]
<1>1. userOps \in Nat /\ MaxUserOps \in Nat /\ userOps < MaxUserOps /\ userOps' = userOps + 1
  BY UsersParameters DEF UsersInv, UsersTypeOK, Call
<1>2. userOps' \in 0..MaxUserOps /\ lastUpdate' \in 0..MaxUserOps
  BY <1>1 DEF UsersInv, UsersTypeOK, Call
<1>3. userCalls' = userCalls \cup {new} /\ UNCHANGED <<accounts, userList, dialogVars>>
  BY DEF Call
<1>4. new \in UserCalls
  BY <1>1 DEF UserCalls, Fields
<1>5. /\ new.no = userOps + 1 /\ new.kind = kind /\ new.id = u /\ new.role = p.role
      /\ new.status = p.status /\ new.typedFor = p.typedFor /\ new.stage = "sent"
  OBVIOUS
<1>6. new.chosen = p.chosen
  BY Zenon
<1>7. \A c \in userCalls : c.no \in Nat /\ c.no <= userOps
  BY DEF UsersInv, UsersTypeOK, CallDiscipline, UserCalls
<1> HIDE DEF new
<1>8. UsersTypeOK'
  BY <1>2, <1>3, <1>4, <1>5 DEF UsersInv, UsersTypeOK, dialogVars
<1>9. SelfDiscipline'
  BY <1>3 DEF UsersInv, SelfDiscipline, dialogVars
<1>10. ASSUME NEW c \in userCalls'
       PROVE  /\ c.no <= userOps' /\ \A d \in userCalls' : d.no = c.no => d = c
              /\ c \in userCalls \/ (c.no > userOps /\ c.stage = "sent")
  <2>1. \A d \in userCalls' : d \in userCalls \/ d = new
    BY <1>3
  <2>2. QED BY <2>1, <1>1, <1>5, <1>7 DEF UsersInv, CallDiscipline
<1>11. ASSUME NEW c \in userCalls'
       PROVE  /\ c.kind = "create" => c.role # Unchanged
              /\ c.kind # "create" /\ c.role # Unchanged => c.chosen
              /\ c.kind = "toggle" => c.status # Unchanged
              /\ c.kind = "password" => c.typedFor = c.id
  <2>1. CASE c = new
    BY <2>1, <1>5, <1>6, Zenon
  <2>2. CASE c \in userCalls
    BY <2>2 DEF UsersInv, CallDiscipline
  <2>3. QED BY <1>3, <2>1, <2>2
<1>12. CallDiscipline'
  BY <1>3, <1>10, <1>11 DEF UsersInv, CallDiscipline, dialogVars
<1>13. QED BY <1>3, <1>8, <1>9, <1>10, <1>12 DEF UsersInv

LEMMA UsersStart == UsersInit => UsersInv
<1> SUFFICES ASSUME UsersInit PROVE UsersInv
    OBVIOUS
<1>1. accounts \in [User -> Accounts]
  BY DEF UsersInit
<1>2. userList \in Entries([User -> Accounts])
  BY MountedType DEF UsersInit
<1>3. UsersTypeOK
  BY <1>1, <1>2, UsersParameters DEF UsersInit, UsersTypeOK
<1>4. SelfDiscipline
  BY UsersParameters DEF UsersInit, SelfDiscipline, MountedEntry
<1>5. CallDiscipline
  BY DEF UsersInit, CallDiscipline
<1>6. QED BY <1>3, <1>4, <1>5 DEF UsersInv

\* A step that leaves the calls, the accounts and the list alone.
LEMMA DialogStep ==
  ASSUME UsersInv, UNCHANGED <<accounts, userList, userCalls, userOps, lastUpdate>>,
         editing' \in [id : User, seen : Role, role : Role] \cup {NoUser},
         editing' # NoUser => editing'.id # Self,
         resetFor' \in User \cup {NoUser}, newPassword' \in User \cup {NoUser},
         createForm' \in (User \X ASSIGNABLE_ROLES) \cup {NoUser},
         resetFor' # NoUser => newPassword' \in {NoUser, resetFor'}
  PROVE  UsersInv'
<1>1. UsersTypeOK'
  BY DEF UsersInv, UsersTypeOK
<1>2. SelfDiscipline'
  BY DEF UsersInv, SelfDiscipline
<1>3. CallDiscipline'
  BY DEF UsersInv, CallDiscipline
<1>4. QED BY <1>1, <1>2, <1>3 DEF UsersInv

\* A step of the fetch of the list.
LEMMA UsersFetchStep ==
  ASSUME UsersInv, NEW e \in Entries([User -> Accounts]), UsersFetch(e),
         e.data \in {userList.data, userList.answer, NoData},
         e.answer \in {userList.answer, accounts, NoData}
  PROVE  UsersInv'
<1>1. UsersTypeOK'
  BY DEF UsersInv, UsersTypeOK, UsersFetch
<1>2. SelfDiscipline'
  BY DEF UsersInv, SelfDiscipline, UsersFetch
<1>3. CallDiscipline'
  BY DEF UsersInv, CallDiscipline, UsersFetch
<1>4. QED BY <1>1, <1>2, <1>3 DEF UsersInv

\* A call that is served.
LEMMA ServedStep ==
  ASSUME UsersInv, NEW c \in userCalls, NEW b \in Effect(c), c.stage = "sent",
         accounts' = [accounts EXCEPT ![c.id] = b],
         userCalls' = (userCalls \ {c}) \cup {[c EXCEPT !.stage = "done"]},
         UNCHANGED <<userList, editing, resetFor, newPassword, createForm, userOps, lastUpdate>>
  PROVE  UsersInv'
<1> DEFINE done == [c EXCEPT !.stage = "done"]
<1>1. c \in UserCalls /\ c.id \in User
  BY DEF UsersInv, UsersTypeOK, UserCalls
<1>2. /\ done \in UserCalls /\ done.no = c.no /\ done.kind = c.kind /\ done.id = c.id
      /\ done.role = c.role /\ done.status = c.status /\ done.typedFor = c.typedFor
  BY <1>1 DEF UserCalls
<1>3. done.chosen = c.chosen
  <2>1. "chosen" \in DOMAIN c
    BY <1>1 DEF UserCalls
  <2>2. QED BY <2>1, Zenon
<1>4. userCalls' = (userCalls \ {c}) \cup {done}
  OBVIOUS
<1> HIDE DEF done
<1>5. b \in Accounts /\ (c.id = Self => b = accounts[Self])
  BY EffectTypes
<1>6. UsersTypeOK'
  <2>1. accounts' \in [User -> Accounts]
    BY <1>1, <1>5 DEF UsersInv, UsersTypeOK
  <2>2. userCalls' \subseteq UserCalls
    BY <1>2, <1>4 DEF UsersInv, UsersTypeOK
  <2>3. \A d \in userCalls' : d.id = Self => d.kind \in {"password", "create"}
    BY <1>2, <1>4 DEF UsersInv, UsersTypeOK
  <2>4. QED BY <2>1, <2>2, <2>3 DEF UsersInv, UsersTypeOK
<1>7. SelfDiscipline'
  <2>1. accounts'[Self] = accounts[Self]
    BY <1>1, <1>5, UsersParameters DEF UsersInv, UsersTypeOK
  <2>2. QED BY <2>1 DEF UsersInv, SelfDiscipline
<1>8. ASSUME NEW d \in userCalls'
      PROVE  d.no <= userOps /\ \A f \in userCalls' : f.no = d.no => f = d
  <2>1. \A f \in userCalls' : f = done \/ (f \in userCalls /\ f # c)
    BY <1>4
  <2>2. QED BY <2>1, <1>2 DEF UsersInv, CallDiscipline
<1>9. ASSUME NEW d \in userCalls'
      PROVE  /\ d.kind = "create" => d.role # Unchanged
             /\ d.kind # "create" /\ d.role # Unchanged => d.chosen
             /\ d.kind = "toggle" => d.status # Unchanged
             /\ d.kind = "password" => d.typedFor = d.id
  <2>1. CASE d = done
    BY <2>1, <1>2, <1>3, Zenon DEF UsersInv, CallDiscipline
  <2>2. CASE d \in userCalls
    BY <2>2 DEF UsersInv, CallDiscipline
  <2>3. QED BY <1>4, <2>1, <2>2
<1>10. CallDiscipline'
  BY <1>8, <1>9 DEF UsersInv, CallDiscipline
<1>11. QED BY <1>6, <1>7, <1>10 DEF UsersInv

\* A call that is over.
LEMMA OverStep ==
  ASSUME UsersInv, NEW c \in userCalls, userCalls' = userCalls \ {c},
         NEW e \in Entries([User -> Accounts]), userList' = e,
         e.data = userList.data, e.answer \in {userList.answer, NoData},
         \/ UNCHANGED <<editing, resetFor, newPassword>>
         \/ editing' = NoUser /\ resetFor' = NoUser /\ newPassword' = NoUser,
         createForm' \in {createForm, NoUser},
         UNCHANGED <<accounts, userOps, lastUpdate>>
  PROVE  UsersInv'
<1>1. UsersTypeOK'
  BY DEF UsersInv, UsersTypeOK
<1>2. SelfDiscipline'
  BY DEF UsersInv, SelfDiscipline
<1>3. CallDiscipline'
  BY DEF UsersInv, CallDiscipline
<1>4. QED BY <1>1, <1>2, <1>3 DEF UsersInv

\* The rows of the list and their buttons.
LEMMA RowTypes ==
  ASSUME UsersInv, NEW u \in ShownUsers
  PROVE  /\ u \in User /\ Row(u) \in Accounts
         /\ RowActions(u) \cap {"edit", "toggle", "delete"} # {} => u # Self
<1>1. u \in User /\ userList.data # NoData
  BY DEF ShownUsers
<1>2. userList.data \in [User -> Accounts]
  BY <1>1 DEF UsersInv, UsersTypeOK, Entries
<1>3. userList.data[Self].role = "ADMIN"
  BY <1>1 DEF UsersInv, SelfDiscipline
<1>4. QED BY <1>1, <1>2, <1>3 DEF Row, RowActions, isManagerAdminRole

\* The payloads of the buttons and dialogs.
LEMMA FieldTypes ==
  /\ NoFields \in Fields /\ NoFields.role = Unchanged
  /\ \A role \in Role : LET p == [NoFields EXCEPT !.role = role]
                        IN p \in Fields /\ p.role = role
  /\ \A role \in Role : LET p == [NoFields EXCEPT !.role = role, !.chosen = TRUE]
                        IN p \in Fields /\ p.chosen
  /\ \A status \in {"active", "disabled"} :
       LET p == [NoFields EXCEPT !.status = status]
       IN p \in Fields /\ p.role = Unchanged /\ p.status = status
  /\ \A u \in User : LET p == [NoFields EXCEPT !.typedFor = u]
                     IN p \in Fields /\ p.role = Unchanged /\ p.typedFor = u
BY DEF NoFields, Fields, Unchanged

LEMMA RoleTypes == \A role \in ASSIGNABLE_ROLES : role \in Role /\ role # Unchanged
BY DEF ASSIGNABLE_ROLES, Role, Unchanged

\* The actions that send a call.
SendsCall == handleCreate \/ handleEditSubmit \/ handleResetPassword \/ handleToggleActive
             \/ handleDelete

LEMMA SendsCallStep ==
  ASSUME UsersInv, SendsCall
  PROVE  /\ UsersInv' /\ accounts' = accounts
         /\ \A c \in userCalls' : c \in userCalls \/ (c.no > userOps /\ c.stage = "sent")
<1>1. CASE handleCreate
  <2> DEFINE p == [NoFields EXCEPT !.role = createForm[2]]
  <2>1. createForm[1] \in User /\ createForm[2] \in ASSIGNABLE_ROLES
    BY <1>1 DEF handleCreate, UsersInv, UsersTypeOK
  <2>2. p \in Fields /\ p.role # Unchanged
    BY <2>1, FieldTypes, RoleTypes
  <2>3. Call("create", createForm[1], p) /\ UNCHANGED dialogVars
    BY <1>1 DEF handleCreate
  <2> HIDE DEF p
  <2>4. QED BY <2>1, <2>2, <2>3, CallSent
<1>2. CASE handleEditSubmit
  <2> DEFINE p == [NoFields EXCEPT !.role = editing.role, !.chosen = TRUE]
  <2>1. editing.id \in User \ {Self} /\ editing.role \in Role
    BY <1>2 DEF handleEditSubmit, UsersInv, UsersTypeOK, SelfDiscipline
  <2>2. p \in Fields /\ p.chosen
    BY <2>1, FieldTypes
  <2>3. \/ Call("edit", editing.id, p) /\ UNCHANGED dialogVars
        \/ Call("edit", editing.id, NoFields) /\ UNCHANGED dialogVars
        \/ editing' = NoUser /\ UNCHANGED <<accounts, userList, resetFor, newPassword, createForm,
                                            userCalls, userOps, lastUpdate>>
    BY <1>2 DEF handleEditSubmit
  <2> HIDE DEF p
  <2>4. CASE Call("edit", editing.id, p) /\ UNCHANGED dialogVars
    BY <2>1, <2>2, <2>4, CallSent
  <2>5. CASE Call("edit", editing.id, NoFields) /\ UNCHANGED dialogVars
    BY <2>1, <2>5, FieldTypes, CallSent
  <2>6. CASE /\ editing' = NoUser
             /\ UNCHANGED <<accounts, userList, resetFor, newPassword, createForm, userCalls,
                            userOps, lastUpdate>>
    <3>1. UsersInv'
      BY <2>6, DialogStep DEF UsersInv, UsersTypeOK, CallDiscipline
    <3>2. QED BY <2>6, <3>1
  <2>7. QED BY <2>3, <2>4, <2>5, <2>6
<1>3. CASE handleResetPassword
  <2> DEFINE p == [NoFields EXCEPT !.typedFor = newPassword]
  <2>1. resetFor \in User /\ newPassword = resetFor
    BY <1>3 DEF handleResetPassword, UsersInv, UsersTypeOK, CallDiscipline
  <2>2. p \in Fields /\ p.role = Unchanged /\ p.typedFor = resetFor
    BY <2>1, FieldTypes
  <2>3. Call("password", resetFor, p) /\ UNCHANGED dialogVars
    BY <1>3 DEF handleResetPassword
  <2> HIDE DEF p
  <2>4. QED BY <2>1, <2>2, <2>3, CallSent
<1>4. CASE handleToggleActive
  <2>1. PICK u \in ShownUsers :
          /\ "toggle" \in RowActions(u)
          /\ Call("toggle", u, [NoFields EXCEPT
                  !.status = IF Row(u).status = "active" THEN "disabled" ELSE "active"])
    BY <1>4 DEF handleToggleActive
  <2> DEFINE status == IF Row(u).status = "active" THEN "disabled" ELSE "active"
             p == [NoFields EXCEPT !.status = status]
  <2>2. u \in User /\ u # Self
    BY <2>1, RowTypes
  <2>3. status \in {"active", "disabled"}
    OBVIOUS
  <2>4. Call("toggle", u, p) /\ UNCHANGED dialogVars
    BY <1>4, <2>1 DEF handleToggleActive
  <2> HIDE DEF status
  <2>5. p \in Fields /\ p.role = Unchanged /\ p.status = status
    BY <2>3, FieldTypes
  <2>6. p.status # Unchanged
    BY <2>3, <2>5 DEF Unchanged
  <2> HIDE DEF p
  <2>7. QED BY <2>2, <2>4, <2>5, <2>6, CallSent
<1>5. CASE handleDelete
  <2>1. PICK u \in ShownUsers : "delete" \in RowActions(u) /\ Call("delete", u, NoFields)
    BY <1>5 DEF handleDelete
  <2>2. u \in User /\ u # Self
    BY <2>1, RowTypes
  <2>3. UNCHANGED dialogVars
    BY <1>5 DEF handleDelete
  <2>4. QED BY <2>1, <2>2, <2>3, FieldTypes, CallSent
<1>6. QED BY <1>1, <1>2, <1>3, <1>4, <1>5 DEF SendsCall

\* The actions that fill, open and close forms and dialogs.
MovesDialog == FillCreateForm \/ openEdit \/ ChooseRole \/ CloseEdit \/ openReset
               \/ TypePassword \/ CloseReset

LEMMA MovesDialogStep ==
  ASSUME UsersInv, MovesDialog
  PROVE  UsersInv' /\ UNCHANGED <<accounts, userCalls>>
<1>1. CASE FillCreateForm
  <2>1. UsersInv'
    BY <1>1, DialogStep DEF FillCreateForm, UsersInv, UsersTypeOK, CallDiscipline, SelfDiscipline
  <2>2. QED BY <1>1, <2>1 DEF FillCreateForm
<1>2. CASE openEdit
  <2>1. PICK u \in ShownUsers :
          "edit" \in RowActions(u)
          /\ editing' = [id |-> u, seen |-> Row(u).role, role |-> Row(u).role]
    BY <1>2 DEF openEdit
  <2>2. u \in User /\ u # Self /\ Row(u).role \in Role
    BY <2>1, RowTypes DEF Accounts
  <2>3. /\ editing' \in [id : User, seen : Role, role : Role] /\ editing'.id # Self
        /\ UNCHANGED <<accounts, userList, resetFor, newPassword, createForm, userCalls, userOps,
                       lastUpdate>>
    BY <1>2, <2>1, <2>2 DEF openEdit
  <2>4. QED BY <2>3, DialogStep DEF UsersInv, UsersTypeOK, CallDiscipline
<1>3. CASE ChooseRole
  <2>1. editing \in [id : User, seen : Role, role : Role] /\ editing.id # Self
    BY <1>3 DEF ChooseRole, UsersInv, UsersTypeOK, SelfDiscipline
  <2>2. PICK role \in ASSIGNABLE_ROLES : editing' = [editing EXCEPT !.role = role]
    BY <1>3 DEF ChooseRole
  <2>3. /\ editing' \in [id : User, seen : Role, role : Role] /\ editing'.id # Self
        /\ UNCHANGED <<accounts, userList, resetFor, newPassword, createForm, userCalls, userOps,
                       lastUpdate>>
    BY <1>3, <2>1, <2>2, RoleTypes DEF ChooseRole
  <2>4. QED BY <2>3, DialogStep DEF UsersInv, UsersTypeOK, CallDiscipline
<1>4. CASE CloseEdit
  <2>1. UsersInv'
    BY <1>4, DialogStep DEF CloseEdit, UsersInv, UsersTypeOK, CallDiscipline
  <2>2. QED BY <1>4, <2>1 DEF CloseEdit
<1>5. CASE openReset
  <2>1. resetFor' \in User /\ newPassword' = NoUser
    BY <1>5, RowTypes DEF openReset
  <2>2. UsersInv'
    BY <1>5, <2>1, DialogStep DEF openReset, UsersInv, UsersTypeOK, SelfDiscipline
  <2>3. QED BY <1>5, <2>2 DEF openReset
<1>6. CASE TypePassword
  <2>1. UsersInv'
    BY <1>6, DialogStep DEF TypePassword, UsersInv, UsersTypeOK, SelfDiscipline
  <2>2. QED BY <1>6, <2>1 DEF TypePassword
<1>7. CASE CloseReset
  <2>1. UsersInv'
    BY <1>7, DialogStep DEF CloseReset, UsersInv, UsersTypeOK, SelfDiscipline
  <2>2. QED BY <1>7, <2>1 DEF CloseReset
<1>8. QED BY <1>1, <1>2, <1>3, <1>4, <1>5, <1>6, <1>7 DEF MovesDialog

\* The fetch of the list.
FetchesUsers == UsersAnswered \/ UsersLand \/ UsersFail

LEMMA FetchesUsersStep ==
  ASSUME UsersInv, FetchesUsers
  PROVE  UsersInv' /\ UNCHANGED <<accounts, userCalls>>
<1>1. userList \in Entries([User -> Accounts]) /\ accounts \in [User -> Accounts]
  BY DEF UsersInv, UsersTypeOK
<1>2. CASE UsersAnswered
  BY <1>1, <1>2, UsersFetchStep, EntryTypes, EntryData DEF UsersAnswered, UsersFetch
<1>3. CASE UsersLand
  BY <1>1, <1>3, UsersFetchStep, EntryTypes, EntryData DEF UsersLand, UsersFetch
<1>4. CASE UsersFail
  BY <1>1, <1>4, UsersFetchStep, EntryTypes, EntryData DEF UsersFail, UsersFetch
<1>5. QED BY <1>2, <1>3, <1>4 DEF FetchesUsers

\* What another manager does.
LEMMA AccountMovesStep ==
  ASSUME UsersInv, AccountMoves
  PROVE  UsersInv' /\ UNCHANGED userCalls
<1>1. PICK u \in User \ {Self}, status \in {"active", "disabled", Unchanged},
           role \in ASSIGNABLE_ROLES \cup {Unchanged} :
        \E a \in Updated(accounts[u], [role |-> role, status |-> status])
                 \cup Deleted(u, accounts[u])
                 \cup CreatedAccount(accounts[u], [role |-> "NETWORK_OPERATOR"]) :
          accounts' = [accounts EXCEPT ![u] = a]
  BY DEF AccountMoves
<1>2. PICK a \in Updated(accounts[u], [role |-> role, status |-> status])
                 \cup Deleted(u, accounts[u])
                 \cup CreatedAccount(accounts[u], [role |-> "NETWORK_OPERATOR"]) :
        accounts' = [accounts EXCEPT ![u] = a]
  BY <1>1
<1>3. accounts[u] \in Accounts /\ accounts \in [User -> Accounts]
  BY DEF UsersInv, UsersTypeOK
<1>4. a \in Accounts
  <2>1. role \in Role \cup {Unchanged} /\ "NETWORK_OPERATOR" \in Role
    BY DEF Role, ASSIGNABLE_ROLES
  <2>2. /\ [role |-> role, status |-> status].role = role
        /\ [role |-> role, status |-> status].status = status
        /\ [role |-> "NETWORK_OPERATOR"].role = "NETWORK_OPERATOR"
    OBVIOUS
  <2>3. Updated(accounts[u], [role |-> role, status |-> status]) \subseteq Accounts
    BY <1>3, <2>1, <2>2, UpdatedTypes
  <2>4. CreatedAccount(accounts[u], [role |-> "NETWORK_OPERATOR"]) \subseteq Accounts
    BY <1>3, <2>1, <2>2, CreatedTypes
  <2>5. Deleted(u, accounts[u]) \subseteq Accounts
    BY <1>3, DeletedTypes
  <2>6. QED BY <1>2, <2>3, <2>4, <2>5
<1>5. /\ userOps' = userOps + 1 /\ userOps < MaxUserOps
      /\ UNCHANGED <<userList, editing, resetFor, newPassword, createForm, userCalls, lastUpdate>>
  BY DEF AccountMoves
<1>6. accounts' \in [User -> Accounts] /\ accounts'[Self] = accounts[Self]
  BY <1>2, <1>3, <1>4, UsersParameters
<1>7. UsersTypeOK'
  BY <1>5, <1>6, UsersParameters DEF UsersInv, UsersTypeOK
<1>8. SelfDiscipline'
  BY <1>5, <1>6 DEF UsersInv, SelfDiscipline
<1>9. userOps \in Nat /\ \A c \in userCalls : c.no \in Nat /\ c.no <= userOps
  BY DEF UsersInv, UsersTypeOK, UserCalls, CallDiscipline
<1>10. \A c \in userCalls : c.no <= userOps'
  BY <1>5, <1>9
<1>11. CallDiscipline'
  BY <1>5, <1>10 DEF UsersInv, CallDiscipline
<1>12. QED BY <1>5, <1>7, <1>8, <1>11 DEF UsersInv

\* Calls that end.
EndsUserCall == UserCallReturns \/ UserCallErrs

LEMMA EndsUserCallStep ==
  ASSUME UsersInv, EndsUserCall
  PROVE  UsersInv' /\ accounts' = accounts /\ userCalls' \subseteq userCalls
<1>1. userList \in Entries([User -> Accounts])
  BY DEF UsersInv, UsersTypeOK
<1>2. CASE UserCallReturns
  <2>1. PICK c \in userCalls :
          /\ userCalls' = userCalls \ {c}
          /\ IF c.kind \in {"create", "delete"} THEN UNCHANGED <<editing, resetFor, newPassword>>
             ELSE editing' = NoUser /\ resetFor' = NoUser /\ newPassword' = NoUser
          /\ createForm' = IF c.kind = "create" THEN NoUser ELSE createForm
    BY <1>2 DEF UserCallReturns
  <2>2. userList' = Invalidated(userList) /\ UNCHANGED <<accounts, userOps, lastUpdate>>
    BY <1>2 DEF UserCallReturns
  <2>3. /\ Invalidated(userList) \in Entries([User -> Accounts])
        /\ Invalidated(userList).data = userList.data
        /\ Invalidated(userList).answer \in {userList.answer, NoData}
    BY <1>1, EntryTypes, EntryData
  <2>4. UsersInv'
    BY <2>1, <2>2, <2>3, OverStep
  <2>5. QED BY <2>1, <2>2, <2>4
<1>3. CASE UserCallErrs
  <2>1. PICK c \in userCalls : userCalls' = userCalls \ {c}
    BY <1>3 DEF UserCallErrs
  <2>2. UNCHANGED <<accounts, userList, editing, resetFor, newPassword, createForm, userOps,
                    lastUpdate>>
    BY <1>3 DEF UserCallErrs
  <2>3. UsersInv'
    BY <1>1, <2>1, <2>2, OverStep
  <2>4. QED BY <2>1, <2>2, <2>3
<1>4. QED BY <1>2, <1>3 DEF EndsUserCall

\* The call that auth-service handles in a step.
ServesUserCall(c, b) ==
  /\ c.stage = "sent"
  /\ accounts' = [accounts EXCEPT ![c.id] = b]
  /\ userCalls' = (userCalls \ {c}) \cup {[c EXCEPT !.stage = "done"]}

\* A step keeps the invariants.  It handles one call of those in flight; or it leaves the
\* accounts alone, but for other managers, and adds at most a call with a new number.
LEMMA UsersStep ==
  ASSUME UsersInv, UsersNext
  PROVE  /\ UsersInv'
         /\ \/ \E c \in userCalls : \E b \in Effect(c) : ServesUserCall(c, b)
            \/ \A c \in userCalls' : c \in userCalls \/ (c.no > userOps /\ c.stage = "sent")
<1>1. CASE AccountMoves
  BY <1>1, AccountMovesStep
<1>2. CASE FetchesUsers
  BY <1>2, FetchesUsersStep
<1>3. CASE MovesDialog
  BY <1>3, MovesDialogStep
<1>4. CASE SendsCall
  BY <1>4, SendsCallStep
<1>5. CASE ServeUserCall
  <2>1. PICK c \in userCalls : \E b \in Effect(c) : ServesUserCall(c, b)
    BY <1>5 DEF ServeUserCall, ServesUserCall
  <2>2. PICK b \in Effect(c) : ServesUserCall(c, b)
    BY <2>1
  <2>3. UNCHANGED <<userList, editing, resetFor, newPassword, createForm, userOps, lastUpdate>>
    BY <1>5 DEF ServeUserCall
  <2>4. UsersInv'
    BY <2>2, <2>3, ServedStep DEF ServesUserCall
  <2>5. QED BY <2>2, <2>4
<1>6. CASE EndsUserCall
  BY <1>6, EndsUserCallStep
<1>7. QED
  BY <1>1, <1>2, <1>3, <1>4, <1>5, <1>6
  DEF UsersNext, FetchesUsers, MovesDialog, SendsCall, EndsUserCall

\* The call auth-service did in a step is the one it handled: the numbers tell them apart.
LEMMA ServedIsHandled ==
  ASSUME UsersInv, UsersNext, NEW c \in userCalls, ServedCall(c)
  PROVE  \E b \in Effect(c) : accounts' = [accounts EXCEPT ![c.id] = b]
<1> DEFINE done == [c EXCEPT !.stage = "done"]
<1>1. c \in UserCalls
  BY DEF UsersInv, UsersTypeOK
<1>2. done.no = c.no /\ done.stage = "done" /\ c.no \in Nat
  BY <1>1 DEF UserCalls
<1>3. done \in userCalls' /\ c.stage = "sent"
  BY DEF ServedCall
<1> HIDE DEF done
<1>4. \A d \in userCalls : d.no \in Nat /\ d.no <= userOps /\ (d.no = c.no => d = c)
  BY DEF UsersInv, UsersTypeOK, UserCalls, CallDiscipline
<1>5. done \notin userCalls
  BY <1>2, <1>3, <1>4
<1>6. userOps \in Nat
  BY DEF UsersInv, UsersTypeOK
<1>7. PICK d \in userCalls : \E b \in Effect(d) : ServesUserCall(d, b)
  <2>1. ~(done \in userCalls \/ (done.no > userOps /\ done.stage = "sent"))
    BY <1>2, <1>5
  <2>2. QED BY <1>3, <2>1, UsersStep
<1>8. PICK b \in Effect(d) : ServesUserCall(d, b)
  BY <1>7
<1>9. done = [d EXCEPT !.stage = "done"]
  BY <1>3, <1>5, <1>8 DEF ServesUserCall
<1>10. d \in UserCalls
  BY DEF UsersInv, UsersTypeOK
<1>11. d.no = c.no
  BY <1>2, <1>9, <1>10 DEF UserCalls
<1>12. d = c
  BY <1>4, <1>11
<1>13. QED BY <1>8, <1>12 DEF ServesUserCall

\* What the handled call does to its account is what its operator chose.
LEMMA ServedAsChosen ==
  ASSUME UsersInv, UsersNext, NEW c \in userCalls, ServedCall(c)
  PROVE  /\ c.kind # "create" /\ accounts'[c.id].role # accounts[c.id].role => c.chosen
         /\ c.kind = "toggle" => accounts'[c.id].status = c.status
<1>1. PICK b \in Effect(c) : accounts' = [accounts EXCEPT ![c.id] = b]
  BY ServedIsHandled
<1>2. c.id \in User /\ accounts \in [User -> Accounts]
  BY DEF UsersInv, UsersTypeOK, UserCalls
<1>3. accounts'[c.id] = b
  BY <1>1, <1>2
<1>4. QED BY <1>3, EffectTypes

--------------------------------------------------------------------------------
(* The page "Retraining Schedule". *)

SchedulesInv == SchedulesTypeOK /\ EditKeepsCron /\ FormDiscipline /\ ListDiscipline

\* What a form saves is a schedule that can be opened and saved again; enabling or
\* disabling it keeps its time and that.
LEMMA SavedTypes ==
  ASSUME NEW form \in Forms
  PROVE  SavedForm(form) \in Schedules /\ Keeps(SavedForm(form))
<1>1. /\ form.frequency \in Frequency /\ form.dayOfMonth \in Day /\ form.dayOfWeek \in Day
      /\ form.customCron \in Cron /\ form.enabled \in BOOLEAN
  BY DEF Forms
<1>2. cronFromForm(form) \in Cron
  BY <1>1 DEF cronFromForm, Cron, Frequency, Day
<1>3. SavedForm(form) \in Schedules
  BY <1>1, <1>2 DEF SavedForm, Schedules
<1>4. cronFromForm(hydrateForm(NoSchedule, SavedForm(form))) = cronFromForm(form)
  BY <1>1 DEF cronFromForm, hydrateForm, SavedForm, Cron, Frequency
<1>5. /\ hydrateForm(NoSchedule, SavedForm(form)).frequency = form.frequency
      /\ hydrateForm(NoSchedule, SavedForm(form)).enabled = form.enabled
  BY Zenon DEF hydrateForm, SavedForm
<1>6. Keeps(SavedForm(form))
  BY <1>4, <1>5, Zenon DEF Keeps, SavedForm
<1>7. QED BY <1>3, <1>6

LEMMA SwitchedTypes ==
  ASSUME NEW s \in Schedules, NEW on \in BOOLEAN
  PROVE  /\ [s EXCEPT !.enabled = on] \in Schedules /\ [s EXCEPT !.enabled = on].cron = s.cron
         /\ Keeps(s) => Keeps([s EXCEPT !.enabled = on])
<1>1. /\ s = [frequency |-> s.frequency, cron |-> s.cron, enabled |-> s.enabled]
      /\ s.frequency \in Frequency /\ s.cron \in Cron /\ s.enabled \in BOOLEAN
  BY DEF Schedules
<1>2. [s EXCEPT !.enabled = on] = [frequency |-> s.frequency, cron |-> s.cron, enabled |-> on]
  BY <1>1
<1>3. \A b \in BOOLEAN :
        LET t == [frequency |-> s.frequency, cron |-> s.cron, enabled |-> b]
        IN Keeps(t) <=> cronFromForm(hydrateForm(NoSchedule, s)) = s.cron
  BY <1>1, Zenon DEF Keeps, SavedForm, hydrateForm, cronFromForm
<1>4. QED BY <1>1, <1>2, <1>3 DEF Schedules

LEMMA KeepsAnyId == \A id, s : SavedForm(hydrateForm(id, s)) = SavedForm(hydrateForm(NoSchedule, s))
BY DEF SavedForm, hydrateForm, cronFromForm

LEMMA EditableAre ==
  EditKeepsCron <=> \A id \in Existing : Keeps(schedules[id])
BY KeepsAnyId DEF EditKeepsCron, Keeps

\* The forms: empty, and filled from a row.
LEMMA FormTypes ==
  /\ INITIAL_FORM \in Forms /\ INITIAL_FORM.id = NoSchedule
  /\ \A id \in Schedule, s \in Schedules : /\ hydrateForm(id, s) \in Forms
                                           /\ hydrateForm(id, s).id = id
<1>1. INITIAL_FORM \in Forms /\ INITIAL_FORM.id = NoSchedule
  BY DEF INITIAL_FORM, Forms, Frequency, Day, Cron
<1>2. ASSUME NEW id \in Schedule, NEW s \in Schedules
      PROVE  hydrateForm(id, s) \in Forms /\ hydrateForm(id, s).id = id
  BY DEF hydrateForm, Forms, Schedules, Cron
<1>3. QED BY <1>1, <1>2

LEMMA SchedulesStart == SchedulesInit => SchedulesInv
<1> SUFFICES ASSUME SchedulesInit PROVE SchedulesInv
    OBVIOUS
<1>1. SavedForm(INITIAL_FORM) \in Schedules /\ Keeps(SavedForm(INITIAL_FORM))
  BY FormTypes, SavedTypes
<1>2. schedules \in Stores
  BY <1>1 DEF SchedulesInit, Stores
<1>3. SchedulesTypeOK
  BY <1>2, MountedType, FormTypes, SchedulesParameters DEF SchedulesInit, SchedulesTypeOK
<1>4. EditKeepsCron
  BY <1>1, EditableAre DEF SchedulesInit, Existing
<1>5. FormDiscipline
  BY FormTypes DEF SchedulesInit, FormDiscipline, scheduleBusy
<1>6. ListDiscipline
  BY DEF SchedulesInit, ListDiscipline, MountedEntry, Landing
<1>7. QED BY <1>3, <1>4, <1>5, <1>6 DEF SchedulesInv

\* The server changes a schedule that is not deleted, or adds it.
ServerSets(id, s) ==
  /\ schedules' = [schedules EXCEPT ![id] = s]
  /\ id \in Schedule /\ schedules[id] # Past
  /\ s = Past \/ (s \in Schedules /\ Keeps(s))

LEMMA ServerStep ==
  ASSUME SchedulesInv, NEW id, NEW s, ServerSets(id, s), UNCHANGED <<scheduleList, reportedGone>>
  PROVE  /\ schedules' \in Stores /\ schedules'[id] = s
         /\ EditKeepsCron' /\ ListDiscipline'
         /\ \A x : Taken(x) => Taken(x)'
         /\ \A x \in Schedule : schedules[x] = Past => schedules'[x] = Past
<1>1. schedules \in Stores /\ scheduleList \in Entries(Stores) /\ reportedGone \subseteq Schedule
  BY DEF SchedulesInv, SchedulesTypeOK
<1>2. schedules' \in Stores /\ schedules'[id] = s
  BY <1>1 DEF ServerSets, Stores
<1>3. \A x \in Schedule : x # id => schedules'[x] = schedules[x]
  BY <1>1 DEF ServerSets, Stores
<1>4. s # NoSchedule
  BY NoStore, SchedulesParameters DEF ServerSets
<1>5. \A x \in Existing' : Keeps(schedules'[x])
  <2>1. ASSUME NEW x \in Schedule, schedules'[x] \notin {NoSchedule, Past}
        PROVE  Keeps(schedules'[x])
    <3>1. CASE x = id
      BY <2>1, <3>1, <1>2 DEF ServerSets
    <3>2. CASE x # id
      BY <2>1, <3>2, <1>3, EditableAre DEF SchedulesInv, Existing
    <3>3. QED BY <3>1, <3>2
  <2>2. QED BY <2>1 DEF Existing
<1>6. EditKeepsCron'
  BY <1>5, KeepsAnyId DEF EditKeepsCron, Existing, Keeps
<1>7. \A x \in Schedule : schedules[x] # NoSchedule => schedules'[x] # NoSchedule
  BY <1>2, <1>3, <1>4
<1>8. \A x \in Schedule : schedules[x] = Past => schedules'[x] = Past
  BY <1>3 DEF ServerSets
<1>9. ListDiscipline'
  <2>1. ASSUME NEW seen \in {scheduleList.data, scheduleList.answer} \ {NoData},
               NEW x \in Schedule, seen[x] \notin {NoSchedule, Past}
        PROVE  schedules'[x] # NoSchedule
    BY <2>1, <1>7 DEF SchedulesInv, ListDiscipline
  <2>2. ASSUME NEW x \in reportedGone
        PROVE  /\ schedules'[x] = Past /\ scheduleList.data # NoData
               /\ Landing(scheduleList) => scheduleList.answer[x] = Past
               /\ ~Fetching(scheduleList) /\ ~scheduleList.error => scheduleList.data[x] = Past
    BY <1>1, <1>8 DEF SchedulesInv, ListDiscipline
  <2>3. Landing(scheduleList) => scheduleList.answer \in Stores
    BY DEF SchedulesInv, ListDiscipline
  <2>4. QED BY <2>1, <2>2, <2>3 DEF ListDiscipline, Landing, Fetching
<1>10. \A x : Taken(x) => Taken(x)'
  BY <1>7 DEF Taken
<1>11. QED BY <1>2, <1>6, <1>8, <1>9, <1>10

\* Other operators.
LEMMA ScheduleMovesStep ==
  ASSUME SchedulesInv, ScheduleMoves
  PROVE  SchedulesInv' /\ scheduleOps' # scheduleOps
<1>1. PICK id \in Schedule :
        /\ schedules[id] # Past
        /\ \/ \E f \in Frequency, on \in BOOLEAN :
                schedules' = [schedules EXCEPT ![id] =
                  SavedForm([INITIAL_FORM EXCEPT !.frequency = f, !.enabled = on])]
           \/ id \in Existing /\ schedules' = [schedules EXCEPT ![id] = Past]
  BY DEF ScheduleMoves
<1>2. \E s : ServerSets(id, s)
  <2>1. CASE schedules' = [schedules EXCEPT ![id] = Past]
    BY <1>1, <2>1 DEF ServerSets
  <2>2. ASSUME NEW f \in Frequency, NEW on \in BOOLEAN,
               schedules' = [schedules EXCEPT ![id] =
                  SavedForm([INITIAL_FORM EXCEPT !.frequency = f, !.enabled = on])]
        PROVE  \E s : ServerSets(id, s)
    <3>1. [INITIAL_FORM EXCEPT !.frequency = f, !.enabled = on] \in Forms
      BY FormTypes DEF Forms
    <3>2. QED BY <1>1, <2>2, <3>1, SavedTypes DEF ServerSets
  <2>3. QED BY <1>1, <2>1, <2>2
<1>3. /\ scheduleOps < MaxScheduleOps /\ scheduleOps' = scheduleOps + 1
      /\ UNCHANGED <<scheduleList, scheduleForm, scheduleModal, scheduleCall, reportedGone>>
  BY DEF ScheduleMoves
<1>4. /\ schedules' \in Stores /\ EditKeepsCron' /\ ListDiscipline'
      /\ \A x : Taken(x) => Taken(x)'
      /\ \A x \in Schedule : schedules[x] = Past => schedules'[x] = Past
  BY <1>2, <1>3, ServerStep
<1>5. SchedulesTypeOK'
  BY <1>3, <1>4, SchedulesParameters DEF SchedulesInv, SchedulesTypeOK
<1>6. FormDiscipline'
  <2>1. scheduleForm.id # NoSchedule => Taken(scheduleForm.id)'
    BY <1>3, <1>4 DEF SchedulesInv, FormDiscipline, Taken
  <2>2. scheduleModal # NoSchedule => Taken(scheduleModal.id)'
    BY <1>3, <1>4 DEF SchedulesInv, FormDiscipline, Taken
  <2>3. scheduleBusy =>
          /\ scheduleCall.kind # "create" => Taken(scheduleCall.id)'
          /\ scheduleCall.stage = "missing"
             \/ (scheduleCall.stage = "done" /\ scheduleCall.kind = "delete")
               => scheduleCall.kind # "create" /\ schedules'[scheduleCall.id] = Past
    BY <1>3, <1>4 DEF SchedulesInv, FormDiscipline, Taken
  <2>4. QED BY <1>3, <2>1, <2>2, <2>3 DEF SchedulesInv, FormDiscipline, Taken, scheduleBusy
<1>7. QED BY <1>3, <1>4, <1>5, <1>6 DEF SchedulesInv, SchedulesTypeOK

\* A step of the fetch of the list, which leaves the data it has or replaces it.
LEMMA SchedulesFetchStep ==
  ASSUME SchedulesInv, NEW e \in Entries(Stores), SchedulesFetch(e),
         scheduleList.data # NoData => e.data # NoData,
         e.data \in {scheduleList.data, scheduleList.answer, NoData},
         e.answer \in {scheduleList.answer, schedules, NoData},
         Landing(e) => e.answer \in Stores,
         \A id \in reportedGone :
           /\ Landing(e) => e.answer[id] = Past
           /\ ~Fetching(e) /\ ~e.error => e.data[id] = Past
  PROVE  SchedulesInv' /\ schedules' = schedules
<1>1. SchedulesTypeOK'
  BY DEF SchedulesInv, SchedulesTypeOK, SchedulesFetch
<1>2. EditKeepsCron'
  BY DEF SchedulesInv, EditKeepsCron, SchedulesFetch, Existing
<1>3. FormDiscipline'
  BY DEF SchedulesInv, FormDiscipline, SchedulesFetch, Taken, scheduleBusy
<1>4. ListDiscipline'
  <2>1. ASSUME NEW seen \in {e.data, e.answer} \ {NoData},
               NEW x \in Schedule, seen[x] \notin {NoSchedule, Past}
        PROVE  schedules[x] # NoSchedule
    BY <2>1 DEF SchedulesInv, ListDiscipline
  <2>2. ASSUME NEW x \in reportedGone
        PROVE  schedules[x] = Past /\ e.data # NoData
    BY DEF SchedulesInv, ListDiscipline
  <2>3. QED BY <2>1, <2>2 DEF ListDiscipline, SchedulesFetch, Landing, Fetching
<1>5. QED BY <1>1, <1>2, <1>3, <1>4 DEF SchedulesInv, SchedulesFetch

FetchesSchedules == SchedulesPoll \/ SchedulesAnswered \/ SchedulesLand \/ SchedulesFail

LEMMA FetchesSchedulesStep ==
  ASSUME SchedulesInv, FetchesSchedules
  PROVE  SchedulesInv' /\ schedules' = schedules
<1>1. scheduleList \in Entries(Stores) /\ schedules \in Stores /\ reportedGone \subseteq Schedule
  BY DEF SchedulesInv, SchedulesTypeOK
<1>2. CASE SchedulesPoll
  <2> DEFINE e == Asked(scheduleList)
  <2>1. ~Fetching(scheduleList) /\ SchedulesFetch(e)
    BY <1>2 DEF SchedulesPoll
  <2>2. ~Landing(e) /\ Fetching(e)
    BY <1>1, <2>1, EntryStage
  <2>3. e \in Entries(Stores) /\ e.data = scheduleList.data /\ e.answer = scheduleList.answer
    BY <1>1, EntryTypes, EntryData
  <2> HIDE DEF e
  <2>4. QED BY <2>1, <2>2, <2>3, SchedulesFetchStep
<1>3. CASE SchedulesAnswered
  <2> DEFINE e == Answered(scheduleList, schedules)
  <2>1. SchedulesFetch(e)
    BY <1>3 DEF SchedulesAnswered
  <2>2. Fetching(e)
    BY <1>1, EntryStage
  <2>3. \A id \in reportedGone : schedules[id] = Past
    BY DEF SchedulesInv, ListDiscipline
  <2>4. e \in Entries(Stores) /\ e.data = scheduleList.data /\ e.answer = schedules
    BY <1>1, EntryTypes, EntryData
  <2> HIDE DEF e
  <2>5. QED BY <1>1, <2>1, <2>2, <2>3, <2>4, SchedulesFetchStep
<1>4. CASE SchedulesLand
  <2> DEFINE e == Landed(scheduleList)
  <2>1. Landing(scheduleList) /\ SchedulesFetch(e)
    BY <1>4 DEF SchedulesLand
  <2>2. /\ scheduleList.answer \in Stores /\ scheduleList.answer # NoData
        /\ \A id \in reportedGone : scheduleList.answer[id] = Past
    BY <2>1, NoStore DEF SchedulesInv, ListDiscipline
  <2>3. e \in Entries(Stores) /\ e.data = scheduleList.answer /\ e.answer = NoData
    BY <1>1, EntryTypes, EntryData
  <2>4. ~Landing(e)
    BY <1>1, EntryStage
  <2> HIDE DEF e
  <2>5. QED BY <2>1, <2>2, <2>3, <2>4, SchedulesFetchStep
<1>5. CASE SchedulesFail
  <2> DEFINE e == Failed(scheduleList)
  <2>1. SchedulesFetch(e)
    BY <1>5 DEF SchedulesFail
  <2>2. e \in Entries(Stores) /\ e.data = scheduleList.data /\ e.answer = NoData
    BY <1>1, EntryTypes, EntryData
  <2>3. ~Landing(e) /\ e.error
    BY <1>1, EntryStage
  <2> HIDE DEF e
  <2>4. QED BY <2>1, <2>2, <2>3, SchedulesFetchStep
<1>6. QED BY <1>2, <1>3, <1>4, <1>5 DEF FetchesSchedules

\* The rows of the list.
LEMMA ScheduleRowTypes ==
  ASSUME SchedulesInv, NEW id \in ScheduleRows
  PROVE  id \in Schedule /\ scheduleList.data[id] \in Schedules /\ Taken(id)
<1>1. id \in Schedule /\ scheduleList.data # NoData /\ scheduleList.data[id] \notin {NoSchedule, Past}
  BY DEF ScheduleRows
<1>2. scheduleList.data \in Stores
  BY <1>1 DEF SchedulesInv, SchedulesTypeOK, Entries
<1>3. scheduleList.data[id] \in Schedules
  BY <1>1, <1>2 DEF Stores
<1>4. schedules[id] # NoSchedule
  BY <1>1 DEF SchedulesInv, ListDiscipline
<1>5. QED BY <1>1, <1>3, <1>4 DEF Taken

\* A step that changes the form, the dialog and the call only.
LEMMA PageStep ==
  ASSUME SchedulesInv, UNCHANGED <<schedules, scheduleList, reportedGone>>,
         scheduleForm' \in Forms, scheduleOps' \in 0..MaxScheduleOps,
         scheduleModal' \in [kind : {"delete", "disable"}, id : Schedule] \cup {NoSchedule},
         scheduleCall' \in ScheduleCalls \cup {NoSchedule},
         scheduleForm'.id # NoSchedule => Taken(scheduleForm'.id),
         scheduleModal' # NoSchedule => Taken(scheduleModal'.id),
         scheduleCall' # NoSchedule =>
           /\ scheduleCall'.kind # "create" => Taken(scheduleCall'.id)
           /\ scheduleCall'.kind = "update" => scheduleForm'.id = scheduleCall'.id
           /\ scheduleCall'.kind \in {"create", "update"} =>
                scheduleCall'.payload \in Schedules /\ Keeps(scheduleCall'.payload)
           /\ scheduleCall'.stage = "missing"
              \/ (scheduleCall'.stage = "done" /\ scheduleCall'.kind = "delete")
                => scheduleCall'.kind # "create" /\ schedules[scheduleCall'.id] = Past
  PROVE  SchedulesInv'
<1>1. SchedulesTypeOK'
  BY DEF SchedulesInv, SchedulesTypeOK
<1>2. EditKeepsCron'
  BY DEF SchedulesInv, EditKeepsCron, Existing
<1>3. FormDiscipline'
  BY DEF FormDiscipline, Taken, scheduleBusy
<1>4. ListDiscipline'
  BY DEF SchedulesInv, ListDiscipline
<1>5. QED BY <1>1, <1>2, <1>3, <1>4 DEF SchedulesInv

\* The form is filled: by typing, from a row, or with its initial values.
LEMMA SetFormStep ==
  ASSUME SchedulesInv, NEW form \in Forms, SetForm(form), scheduleOps' \in 0..MaxScheduleOps,
         form.id = scheduleForm.id \/ (~scheduleBusy /\ (form.id = NoSchedule \/ Taken(form.id)))
  PROVE  SchedulesInv' /\ schedules' = schedules
<1>1. /\ UNCHANGED <<schedules, scheduleList, reportedGone, scheduleModal, scheduleCall>>
      /\ scheduleForm' = form
  BY DEF SetForm
<1>2. /\ scheduleModal \in [kind : {"delete", "disable"}, id : Schedule] \cup {NoSchedule}
      /\ scheduleCall \in ScheduleCalls \cup {NoSchedule}
  BY DEF SchedulesInv, SchedulesTypeOK
<1>3. FormDiscipline
  BY DEF SchedulesInv
<1>4. QED BY <1>1, <1>2, <1>3, PageStep DEF FormDiscipline, scheduleBusy

FillsForm == TypeInForm \/ EditRow \/ ClearForm

LEMMA FillsFormStep ==
  ASSUME SchedulesInv, FillsForm
  PROVE  SchedulesInv' /\ schedules' = schedules
<1>1. scheduleForm \in Forms /\ scheduleOps \in 0..MaxScheduleOps
  BY DEF SchedulesInv, SchedulesTypeOK
<1>2. CASE TypeInForm
  <2>1. scheduleOps' \in 0..MaxScheduleOps
    BY <1>1, <1>2, SchedulesParameters DEF TypeInForm
  <2>2. \E form \in Forms : SetForm(form) /\ form.id = scheduleForm.id
    <3>1. \A f \in Frequency : [scheduleForm EXCEPT !.frequency = f] \in Forms
                               /\ [scheduleForm EXCEPT !.frequency = f].id = scheduleForm.id
      BY <1>1 DEF Forms
    <3>2. \A d \in Day : /\ [scheduleForm EXCEPT !.dayOfMonth = d] \in Forms
                         /\ [scheduleForm EXCEPT !.dayOfMonth = d].id = scheduleForm.id
                         /\ [scheduleForm EXCEPT !.dayOfWeek = d] \in Forms
                         /\ [scheduleForm EXCEPT !.dayOfWeek = d].id = scheduleForm.id
      BY <1>1 DEF Forms
    <3>3. \A c \in Cron : [scheduleForm EXCEPT !.customCron = c] \in Forms
                          /\ [scheduleForm EXCEPT !.customCron = c].id = scheduleForm.id
      BY <1>1 DEF Forms
    <3>4. \A on \in BOOLEAN : [scheduleForm EXCEPT !.enabled = on] \in Forms
                              /\ [scheduleForm EXCEPT !.enabled = on].id = scheduleForm.id
      BY <1>1 DEF Forms
    <3>5. QED BY <1>2, <3>1, <3>2, <3>3, <3>4, Zenon DEF TypeInForm
  <2>3. QED BY <2>1, <2>2, SetFormStep
<1>3. CASE EditRow
  <2>1. PICK id \in ScheduleRows : SetForm(hydrateForm(id, scheduleList.data[id]))
    BY <1>3 DEF EditRow
  <2>2. /\ hydrateForm(id, scheduleList.data[id]) \in Forms
        /\ hydrateForm(id, scheduleList.data[id]).id = id /\ Taken(id)
    BY ScheduleRowTypes, FormTypes
  <2>3. ~scheduleBusy /\ scheduleOps' = scheduleOps
    BY <1>3 DEF EditRow
  <2>4. QED BY <1>1, <2>1, <2>2, <2>3, SetFormStep
<1>4. CASE ClearForm
  <2>1. ~scheduleBusy /\ SetForm(INITIAL_FORM) /\ scheduleOps' = scheduleOps
    BY <1>4 DEF ClearForm
  <2>2. QED BY <1>1, <2>1, FormTypes, SetFormStep
<1>5. QED BY <1>2, <1>3, <1>4 DEF FillsForm

\* A call is sent: of the form, or of a button for a schedule that was in the list.
LEMMA ScheduleSendStep ==
  ASSUME SchedulesInv,
         NEW kind \in {"create", "update", "enable", "disable", "delete"},
         NEW id \in Schedule \cup {NoSchedule}, NEW payload \in Schedules \cup {NoSchedule},
         ScheduleSend(kind, id, payload), scheduleForm' = scheduleForm,
         scheduleModal' \in {scheduleModal, NoSchedule},
         kind # "create" => Taken(id),
         kind = "update" => scheduleForm.id = id,
         kind \in {"create", "update"} => payload \in Schedules /\ Keeps(payload)
  PROVE  SchedulesInv' /\ schedules' = schedules
<1> DEFINE call == [kind |-> kind, id |-> id, payload |-> payload, stage |-> "sent"]
<1>1. /\ call \in ScheduleCalls /\ call.kind = kind /\ call.id = id /\ call.payload = payload
      /\ call.stage = "sent"
  BY DEF ScheduleCalls
<1>2. /\ UNCHANGED <<schedules, scheduleList, reportedGone>> /\ scheduleCall' = call
      /\ scheduleOps' = scheduleOps + 1 /\ scheduleOps < MaxScheduleOps
  BY DEF ScheduleSend
<1> HIDE DEF call
<1>3. /\ scheduleModal' \in [kind : {"delete", "disable"}, id : Schedule] \cup {NoSchedule}
      /\ scheduleForm' \in Forms /\ scheduleOps' \in 0..MaxScheduleOps
  BY <1>2, SchedulesParameters DEF SchedulesInv, SchedulesTypeOK
<1>4. /\ scheduleForm.id # NoSchedule => Taken(scheduleForm.id)
      /\ scheduleModal # NoSchedule => Taken(scheduleModal.id)
  BY DEF SchedulesInv, FormDiscipline
<1>5. QED BY <1>1, <1>2, <1>3, <1>4, PageStep

UsesButtons == submitForm \/ onEnableToggle \/ AskDelete \/ confirmAction \/ CancelScheduleModal

LEMMA UsesButtonsStep ==
  ASSUME SchedulesInv, UsesButtons
  PROVE  SchedulesInv' /\ schedules' = schedules
<1>1. scheduleForm \in Forms /\ scheduleOps \in 0..MaxScheduleOps
  BY DEF SchedulesInv, SchedulesTypeOK
<1>2. FormDiscipline
  BY DEF SchedulesInv
<1>3. CASE submitForm
  <2> DEFINE kind == IF scheduleForm.id = NoSchedule THEN "create" ELSE "update"
  <2>1. ScheduleSend(kind, scheduleForm.id, SavedForm(scheduleForm))
        /\ UNCHANGED <<scheduleForm, scheduleModal>>
    BY <1>3 DEF submitForm
  <2>2. SavedForm(scheduleForm) \in Schedules /\ Keeps(SavedForm(scheduleForm))
    BY <1>1, SavedTypes
  <2>3. scheduleForm.id \in Schedule \cup {NoSchedule}
    BY <1>1 DEF Forms
  <2>4. kind \in {"create", "update"} /\ (kind # "create" => Taken(scheduleForm.id))
    BY <1>2 DEF FormDiscipline
  <2> HIDE DEF kind
  <2>5. QED BY <2>1, <2>2, <2>3, <2>4, ScheduleSendStep
<1>4. ASSUME NEW modal, modal = NoSchedule \/ (/\ modal \in [kind : {"delete", "disable"}, id : Schedule]
                                                /\ Taken(modal.id)),
             scheduleModal' = modal,
             UNCHANGED <<schedules, scheduleList, scheduleForm, scheduleCall, scheduleOps,
                         reportedGone>>
      PROVE  SchedulesInv'
  <2>1. scheduleCall \in ScheduleCalls \cup {NoSchedule}
    BY DEF SchedulesInv, SchedulesTypeOK
  <2>2. QED BY <1>1, <1>2, <1>4, <2>1, PageStep DEF FormDiscipline, scheduleBusy
<1>5. CASE onEnableToggle
  <2>1. PICK id \in ScheduleRows :
          IF scheduleList.data[id].enabled
          THEN /\ scheduleModal' = [kind |-> "disable", id |-> id]
               /\ UNCHANGED <<schedules, scheduleList, scheduleForm, scheduleCall, scheduleOps,
                              reportedGone>>
          ELSE /\ ScheduleSend("enable", id, NoSchedule)
               /\ UNCHANGED <<scheduleForm, scheduleModal>>
    BY <1>5 DEF onEnableToggle
  <2>2. id \in Schedule /\ Taken(id)
    BY ScheduleRowTypes
  <2>3. CASE /\ scheduleModal' = [kind |-> "disable", id |-> id]
             /\ UNCHANGED <<schedules, scheduleList, scheduleForm, scheduleCall, scheduleOps,
                            reportedGone>>
    BY <2>2, <2>3, <1>4
  <2>4. CASE ScheduleSend("enable", id, NoSchedule) /\ UNCHANGED <<scheduleForm, scheduleModal>>
    BY <2>2, <2>4, ScheduleSendStep
  <2>5. QED BY <2>1, <2>3, <2>4
<1>6. CASE AskDelete
  <2>1. PICK id \in ScheduleRows : scheduleModal' = [kind |-> "delete", id |-> id]
    BY <1>6 DEF AskDelete
  <2>2. id \in Schedule /\ Taken(id)
    BY ScheduleRowTypes
  <2>3. UNCHANGED <<schedules, scheduleList, scheduleForm, scheduleCall, scheduleOps, reportedGone>>
    BY <1>6 DEF AskDelete
  <2>4. QED BY <2>1, <2>2, <2>3, <1>4
<1>7. CASE confirmAction
  <2>1. /\ scheduleModal # NoSchedule /\ scheduleModal' = NoSchedule
        /\ scheduleForm' = scheduleForm
        /\ ScheduleSend(scheduleModal.kind, scheduleModal.id, NoSchedule)
    BY <1>7 DEF confirmAction
  <2>2. scheduleModal.kind \in {"delete", "disable"} /\ scheduleModal.id \in Schedule
    BY <2>1 DEF SchedulesInv, SchedulesTypeOK
  <2>3. Taken(scheduleModal.id)
    BY <2>1, <1>2 DEF FormDiscipline
  <2>4. QED BY <2>1, <2>2, <2>3, ScheduleSendStep
<1>8. CASE CancelScheduleModal
  <2>1. /\ scheduleModal' = NoSchedule
        /\ UNCHANGED <<schedules, scheduleList, scheduleForm, scheduleCall, scheduleOps,
                       reportedGone>>
    BY <1>8 DEF CancelScheduleModal
  <2>2. QED BY <2>1, <1>4
<1>9. QED BY <1>3, <1>5, <1>6, <1>7, <1>8 DEF UsesButtons

\* A call that is served keeps its payload and its schedule.
LEMMA ServedCallTypes ==
  ASSUME NEW c \in ScheduleCalls, NEW stage \in {"done", "missing"}
  PROVE  LET d == [c EXCEPT !.stage = stage]
         IN /\ d \in ScheduleCalls /\ d.kind = c.kind /\ d.id = c.id
            /\ d.payload = c.payload /\ d.stage = stage
BY DEF ScheduleCalls

\* dashboard-backend finds a schedule for the call, or it does not.
LEMMA ServeScheduleCases ==
  ASSUME SchedulesInv, ServeSchedule
  PROVE  /\ scheduleCall \in ScheduleCalls /\ scheduleCall # NoSchedule
         /\ \/ \E id : /\ ServerSets(id, Stored(scheduleCall, schedules[id]))
                       /\ IF scheduleCall.kind = "create" THEN schedules[id] = NoSchedule
                          ELSE id = scheduleCall.id /\ id \in Existing
                       /\ scheduleCall' = [scheduleCall EXCEPT !.stage = "done"]
            \/ /\ scheduleCall.kind # "create" /\ schedules[scheduleCall.id] = Past
               /\ scheduleCall' = [scheduleCall EXCEPT !.stage = "missing"]
               /\ UNCHANGED schedules
<1>1. scheduleCall \in ScheduleCalls /\ scheduleCall # NoSchedule
  BY DEF ServeSchedule, scheduleBusy, SchedulesInv, SchedulesTypeOK
<1>2. /\ scheduleCall.kind # "create" => Taken(scheduleCall.id)
      /\ scheduleCall.kind \in {"create", "update"} =>
           scheduleCall.payload \in Schedules /\ Keeps(scheduleCall.payload)
  BY <1>1 DEF SchedulesInv, FormDiscipline, scheduleBusy
<1>3. scheduleCall.kind \in {"create", "update", "enable", "disable", "delete"}
  BY <1>1 DEF ScheduleCalls
<1>4. schedules \in Stores
  BY DEF SchedulesInv, SchedulesTypeOK
<1> DEFINE targets == IF scheduleCall.kind = "create"
                      THEN {id \in Schedule : schedules[id] = NoSchedule}
                      ELSE {scheduleCall.id} \cap Existing
<1>5. \/ \E id \in targets :
           /\ schedules' = [schedules EXCEPT ![id] = Stored(scheduleCall, schedules[id])]
           /\ scheduleCall' = [scheduleCall EXCEPT !.stage = "done"]
      \/ /\ targets = {} /\ scheduleCall.kind # "create"
         /\ scheduleCall' = [scheduleCall EXCEPT !.stage = "missing"]
         /\ UNCHANGED schedules
  BY DEF ServeSchedule
<1>6. CASE \E id \in targets :
             /\ schedules' = [schedules EXCEPT ![id] = Stored(scheduleCall, schedules[id])]
             /\ scheduleCall' = [scheduleCall EXCEPT !.stage = "done"]
  <2>1. PICK id \in targets :
          /\ schedules' = [schedules EXCEPT ![id] = Stored(scheduleCall, schedules[id])]
          /\ scheduleCall' = [scheduleCall EXCEPT !.stage = "done"]
    BY <1>6
  <2> DEFINE s == Stored(scheduleCall, schedules[id])
  <2>2. /\ id \in Schedule /\ schedules[id] # Past
        /\ IF scheduleCall.kind = "create" THEN schedules[id] = NoSchedule
           ELSE id = scheduleCall.id /\ id \in Existing
    BY SchedulesParameters DEF Existing
  <2>3. s = Past \/ (s \in Schedules /\ Keeps(s))
    <3>1. CASE scheduleCall.kind \in {"create", "update"}
      BY <3>1, <1>2 DEF Stored
    <3>2. CASE scheduleCall.kind \in {"enable", "disable"}
      <4>1. schedules[id] \in Schedules /\ Keeps(schedules[id])
        BY <2>2, <3>2, <1>4, EditableAre DEF Existing, Stores, SchedulesInv
      <4>2. s = [schedules[id] EXCEPT !.enabled = TRUE] \/ s = [schedules[id] EXCEPT !.enabled = FALSE]
        BY <3>2 DEF Stored
      <4>3. QED BY <4>1, <4>2, SwitchedTypes
    <3>3. CASE scheduleCall.kind = "delete"
      BY <3>3 DEF Stored
    <3>4. QED BY <1>3, <3>1, <3>2, <3>3
  <2> HIDE DEF s
  <2>4. ServerSets(id, s)
    BY <2>1, <2>2, <2>3 DEF ServerSets, s
  <2>5. QED BY <1>1, <2>1, <2>2, <2>4 DEF s
<1>7. CASE /\ targets = {} /\ scheduleCall.kind # "create"
           /\ scheduleCall' = [scheduleCall EXCEPT !.stage = "missing"]
           /\ UNCHANGED schedules
  <2>1. scheduleCall.id \in Schedule /\ scheduleCall.id \notin Existing
        /\ schedules[scheduleCall.id] # NoSchedule
    BY <1>2, <1>7 DEF Taken
  <2>2. QED BY <1>1, <1>7, <2>1 DEF Existing
<1>8. QED BY <1>5, <1>6, <1>7

LEMMA ServeScheduleStep ==
  ASSUME SchedulesInv, ServeSchedule
  PROVE  SchedulesInv'
<1>1. scheduleCall \in ScheduleCalls /\ scheduleCall # NoSchedule
  BY ServeScheduleCases
<1>2. UNCHANGED <<scheduleList, scheduleForm, scheduleModal, scheduleOps, reportedGone>>
  BY DEF ServeSchedule
<1>3. /\ scheduleCall.kind # "create" => Taken(scheduleCall.id)
      /\ scheduleCall.kind = "update" => scheduleForm.id = scheduleCall.id
      /\ scheduleCall.kind \in {"create", "update"} =>
           scheduleCall.payload \in Schedules /\ Keeps(scheduleCall.payload)
      /\ scheduleForm.id # NoSchedule => Taken(scheduleForm.id)
      /\ scheduleModal # NoSchedule => Taken(scheduleModal.id)
  BY <1>1 DEF SchedulesInv, FormDiscipline, scheduleBusy
<1>4. CASE \E id : /\ ServerSets(id, Stored(scheduleCall, schedules[id]))
                   /\ IF scheduleCall.kind = "create" THEN schedules[id] = NoSchedule
                      ELSE id = scheduleCall.id /\ id \in Existing
                   /\ scheduleCall' = [scheduleCall EXCEPT !.stage = "done"]
  <2>1. PICK id : /\ ServerSets(id, Stored(scheduleCall, schedules[id]))
                  /\ IF scheduleCall.kind = "create" THEN schedules[id] = NoSchedule
                     ELSE id = scheduleCall.id /\ id \in Existing
                  /\ scheduleCall' = [scheduleCall EXCEPT !.stage = "done"]
    BY <1>4
  <2>2. /\ schedules' \in Stores /\ schedules'[id] = Stored(scheduleCall, schedules[id])
        /\ EditKeepsCron' /\ ListDiscipline' /\ \A x : Taken(x) => Taken(x)'
    BY <1>2, <2>1, ServerStep
  <2>3. /\ scheduleCall' \in ScheduleCalls /\ scheduleCall'.kind = scheduleCall.kind
        /\ scheduleCall'.id = scheduleCall.id /\ scheduleCall'.payload = scheduleCall.payload
        /\ scheduleCall'.stage = "done"
    BY <1>1, <2>1, ServedCallTypes
  <2>4. SchedulesTypeOK'
    BY <1>2, <2>2, <2>3 DEF SchedulesInv, SchedulesTypeOK
  <2>5. scheduleCall.kind = "delete" => schedules'[scheduleCall.id] = Past
    BY <2>1, <2>2 DEF Stored
  <2>6. /\ scheduleCall.kind # "create" => Taken(scheduleCall.id)'
        /\ scheduleForm.id # NoSchedule => Taken(scheduleForm.id)'
        /\ scheduleModal # NoSchedule => Taken(scheduleModal.id)'
    BY <1>2, <1>3, <2>2, <2>3 DEF Taken
  <2>7. FormDiscipline'
    BY <1>2, <1>3, <2>3, <2>5, <2>6 DEF FormDiscipline, Taken, scheduleBusy
  <2>8. QED BY <2>2, <2>4, <2>7 DEF SchedulesInv
<1>5. CASE /\ scheduleCall.kind # "create" /\ schedules[scheduleCall.id] = Past
           /\ scheduleCall' = [scheduleCall EXCEPT !.stage = "missing"]
           /\ UNCHANGED schedules
  <2>1. /\ scheduleCall' \in ScheduleCalls /\ scheduleCall'.kind = scheduleCall.kind
        /\ scheduleCall'.id = scheduleCall.id /\ scheduleCall'.payload = scheduleCall.payload
        /\ scheduleCall'.stage = "missing"
    BY <1>1, <1>5, ServedCallTypes
  <2>2. /\ scheduleForm' \in Forms /\ scheduleOps' \in 0..MaxScheduleOps
        /\ scheduleModal' \in [kind : {"delete", "disable"}, id : Schedule] \cup {NoSchedule}
    BY <1>2 DEF SchedulesInv, SchedulesTypeOK
  <2>3. QED BY <1>2, <1>3, <1>5, <2>1, <2>2, PageStep
<1>6. QED BY <1>4, <1>5, ServeScheduleCases

\* A call is over, and has told the page of a schedule that is gone, or not.
LEMMA ScheduleOverStep ==
  ASSUME SchedulesInv, scheduleBusy, scheduleCall' = NoSchedule,
         NEW told \in SUBSET {scheduleCall.id},
         told # {} => scheduleCall.kind # "create" /\ schedules[scheduleCall.id] = Past,
         reportedGone' = reportedGone \cup told,
         scheduleForm' \in {scheduleForm, INITIAL_FORM},
         \/ scheduleList' = Invalidated(scheduleList)
         \/ scheduleList' = scheduleList /\ told = {},
         UNCHANGED <<schedules, scheduleModal, scheduleOps>>
  PROVE  SchedulesInv'
<1>1. scheduleList \in Entries(Stores) /\ reportedGone \subseteq Schedule
  BY DEF SchedulesInv, SchedulesTypeOK
<1>2. /\ scheduleList' \in Entries(Stores) /\ scheduleList'.data = scheduleList.data
      /\ scheduleList'.answer \in {scheduleList.answer, NoData}
  BY <1>1, EntryTypes, EntryData
<1>3. told # {} => scheduleCall.id \in Schedule /\ scheduleList.data # NoData
  BY DEF SchedulesInv, FormDiscipline, Taken
<1>4. SchedulesTypeOK'
  <2>1. reportedGone' \subseteq Schedule
    BY <1>1, <1>3
  <2>2. QED BY <1>2, <2>1, FormTypes DEF SchedulesInv, SchedulesTypeOK
<1>5. EditKeepsCron'
  BY DEF SchedulesInv, EditKeepsCron, Existing
<1>6. FormDiscipline'
  BY <1>2, FormTypes DEF SchedulesInv, FormDiscipline, Taken, scheduleBusy
<1>7. ListDiscipline'
  <2>1. ASSUME NEW seen \in {scheduleList'.data, scheduleList'.answer} \ {NoData},
               NEW x \in Schedule, seen[x] \notin {NoSchedule, Past}
        PROVE  schedules[x] # NoSchedule
    BY <1>2, <2>1 DEF SchedulesInv, ListDiscipline
  <2>2. CASE scheduleList' = scheduleList /\ told = {}
    BY <2>2 DEF SchedulesInv, ListDiscipline
  <2>3. CASE scheduleList' = Invalidated(scheduleList)
    <3>1. /\ Fetching(scheduleList')
          /\ Landing(scheduleList') => /\ Landing(scheduleList) /\ scheduleList.data = NoData
                                       /\ scheduleList'.answer = scheduleList.answer
      BY <1>1, <2>3, EntryStage
    <3>2. \A x \in reportedGone' : schedules[x] = Past /\ scheduleList.data # NoData
      BY <1>3 DEF SchedulesInv, ListDiscipline
    <3>3. Landing(scheduleList') => scheduleList'.answer \in Stores
      BY <3>1 DEF SchedulesInv, ListDiscipline
    <3>4. QED BY <1>2, <2>1, <3>1, <3>2, <3>3 DEF ListDiscipline, Landing, Fetching
  <2>4. QED BY <2>2, <2>3
<1>8. QED BY <1>4, <1>5, <1>6, <1>7 DEF SchedulesInv

EndsScheduleCall == ScheduleReturns \/ ScheduleMissing \/ ScheduleErrs

LEMMA EndsScheduleCallStep ==
  ASSUME SchedulesInv, EndsScheduleCall
  PROVE  SchedulesInv' /\ schedules' = schedules
<1>1. FormDiscipline
  BY DEF SchedulesInv
<1>2. CASE ScheduleReturns
  <2> DEFINE told == IF scheduleCall.kind = "delete" THEN {scheduleCall.id} ELSE {}
  <2>1. /\ scheduleBusy /\ scheduleCall.stage = "done" /\ scheduleCall' = NoSchedule
        /\ scheduleForm' \in {scheduleForm, INITIAL_FORM} /\ reportedGone' = reportedGone \cup told
        /\ scheduleList' = Invalidated(scheduleList)
        /\ UNCHANGED <<schedules, scheduleModal, scheduleOps>>
    BY <1>2 DEF ScheduleReturns
  <2>2. told # {} => scheduleCall.kind # "create" /\ schedules[scheduleCall.id] = Past
    BY <1>1, <2>1 DEF FormDiscipline
  <2>3. told \in SUBSET {scheduleCall.id}
    OBVIOUS
  <2> HIDE DEF told
  <2>4. QED BY <2>1, <2>2, <2>3, ScheduleOverStep
<1>3. CASE ScheduleMissing
  <2>1. /\ scheduleBusy /\ scheduleCall.stage = "missing" /\ scheduleCall' = NoSchedule
        /\ reportedGone' = reportedGone \cup {scheduleCall.id}
        /\ scheduleList' = Invalidated(scheduleList)
        /\ UNCHANGED <<schedules, scheduleForm, scheduleModal, scheduleOps>>
    BY <1>3 DEF ScheduleMissing
  <2>2. scheduleCall.kind # "create" /\ schedules[scheduleCall.id] = Past
    BY <1>1, <2>1 DEF FormDiscipline
  <2>3. QED BY <2>1, <2>2, ScheduleOverStep
<1>4. CASE ScheduleErrs
  <2>1. /\ scheduleBusy /\ scheduleCall' = NoSchedule /\ reportedGone' = reportedGone \cup {}
        /\ UNCHANGED <<schedules, scheduleList, scheduleForm, scheduleModal, scheduleOps>>
    BY <1>4 DEF ScheduleErrs
  <2>2. QED BY <2>1, ScheduleOverStep
<1>5. QED BY <1>2, <1>3, <1>4 DEF EndsScheduleCall

\* A step keeps the invariants; it changes schedules by a call that is served or by
\* what others do.
LEMMA SchedulesStep ==
  ASSUME SchedulesInv, SchedulesNext
  PROVE  /\ SchedulesInv'
         /\ schedules' = schedules \/ ServeSchedule \/ scheduleOps' # scheduleOps
<1>1. CASE ScheduleMoves
  BY <1>1, ScheduleMovesStep
<1>2. CASE FetchesSchedules
  BY <1>2, FetchesSchedulesStep
<1>3. CASE FillsForm
  BY <1>3, FillsFormStep
<1>4. CASE UsesButtons
  BY <1>4, UsesButtonsStep
<1>5. CASE ServeSchedule
  BY <1>5, ServeScheduleStep
<1>6. CASE EndsScheduleCall
  BY <1>6, EndsScheduleCallStep
<1>7. QED
  BY <1>1, <1>2, <1>3, <1>4, <1>5, <1>6
  DEF SchedulesNext, FetchesSchedules, FillsForm, UsesButtons, EndsScheduleCall

\* Only a saved form changes the time of a schedule, and the form is of this schedule.
LEMMA OnlyFormsChangeTimes ==
  ASSUME SchedulesInv, SchedulesNext, NEW id \in Existing,
         schedules'[id] # schedules[id], schedules'[id] # Past,
         scheduleOps' = scheduleOps, schedules'[id].cron # schedules[id].cron
  PROVE  scheduleForm.id = id
<1>1. ServeSchedule
  BY SchedulesStep
<1>2. schedules \in Stores /\ id \in Schedule /\ schedules[id] \notin {NoSchedule, Past}
  BY DEF SchedulesInv, SchedulesTypeOK, Existing
<1>3. PICK x : /\ ServerSets(x, Stored(scheduleCall, schedules[x]))
               /\ IF scheduleCall.kind = "create" THEN schedules[x] = NoSchedule
                  ELSE x = scheduleCall.id /\ x \in Existing
  BY <1>1, ServeScheduleCases
<1>4. x = id /\ schedules'[id] = Stored(scheduleCall, schedules[id])
  BY <1>2, <1>3 DEF ServerSets, Stores
<1>5. scheduleCall.kind \in {"update", "enable", "disable", "delete"} /\ id = scheduleCall.id
  BY <1>1, <1>2, <1>3, <1>4, ServeScheduleCases DEF ScheduleCalls
<1>6. schedules[id] \in Schedules
  BY <1>2 DEF Stores
<1>7. scheduleCall.kind = "update"
  BY <1>4, <1>5, <1>6, SwitchedTypes DEF Stored
<1>8. QED BY <1>1, <1>5, <1>7 DEF SchedulesInv, FormDiscipline, ServeSchedule

--------------------------------------------------------------------------------
(* The pages "Control Actions". *)

CtlInv == CtlTypeOK /\ CtlCallDiscipline /\ CtlListDiscipline /\ SaveDiscipline

LEMMA CtlStart == CtlInit => CtlInv
<1> SUFFICES ASSUME CtlInit PROVE CtlInv
    OBVIOUS
<1>1. [type : CtlType, status : {"PENDING_APPROVAL", "APPROVED"}] \subseteq CtlRecord
  BY DEF CtlRecord, CtlStatus
<1>2. ctlActions \in CtlStore
  BY <1>1 DEF CtlInit, CtlStore
<1>3. CtlTypeOK
  <2>1. ctlList \in Entries(CtlAnswers) /\ ctlError \in BOOLEAN
    BY MountedType DEF CtlInit
  <2>2. QED BY <1>2, <2>1, ActionsParameters DEF CtlInit, CtlTypeOK, Tabs
<1>4. CtlCallDiscipline
  BY DEF CtlInit, CtlCallDiscipline
<1>5. CtlListDiscipline
  BY DEF CtlInit, CtlListDiscipline, MountedEntry, Landing, Fetching
<1>6. SaveDiscipline
  BY DEF CtlInit, SaveDiscipline
<1>7. QED BY <1>3, <1>4, <1>5, <1>6 DEF CtlInv

\* Action a becomes r; a decided action stays decided, and of its type, unless a copy is
\* saved over a change of others.
ActionBecomes(a, r) ==
  /\ ctlActions' = [ctlActions EXCEPT ![a] = r] /\ a \in CtlAction /\ r \in CtlRecord
  /\ overtaken \subseteq overtaken'
  /\ a \notin overtaken' /\ ctlActions[a] # NoRow
     /\ ctlActions[a].status # "PENDING_APPROVAL" =>
       r.status # "PENDING_APPROVAL" /\ r.type = ctlActions[a].type

LEMMA StillStays ==
  ASSUME CtlTypeOK, NEW a, NEW r, ActionBecomes(a, r)
  PROVE  /\ ctlActions' \in CtlStore
         /\ \A x \in CtlAction : ctlActions[x] # NoRow => ctlActions'[x] # NoRow
         /\ \A item, x : x \in CtlAction /\ Still(item, x) => Still(item, x)'
<1>1. ctlActions \in CtlStore
  BY DEF CtlTypeOK
<1>2. ctlActions' \in CtlStore
  BY <1>1 DEF ActionBecomes, CtlStore
<1>3. ctlActions'[a] = r /\ \A x \in CtlAction : x # a => ctlActions'[x] = ctlActions[x]
  BY <1>1 DEF ActionBecomes, CtlStore
<1>4. r # NoRow
  BY NoCtlRecord DEF ActionBecomes
<1>5. \A x \in CtlAction : ctlActions[x] # NoRow => ctlActions'[x] # NoRow
  BY <1>3, <1>4
<1>6. ASSUME NEW item, NEW x \in CtlAction, Still(item, x)
      PROVE  Still(item, x)'
  <2>1. CASE x = a
    BY <1>3, <1>4, <1>6, <2>1 DEF Still, ActionBecomes
  <2>2. CASE x # a
    BY <1>3, <1>6, <2>2 DEF Still, ActionBecomes
  <2>3. QED BY <2>1, <2>2
<1>7. QED BY <1>2, <1>5, <1>6

\* What was shown, asked for and copied survives such a change.
LEMMA ActionChangeStep ==
  ASSUME CtlInv, NEW a, NEW r, ActionBecomes(a, r), ctlVersion' = ctlVersion + 1,
         UNCHANGED <<ctlList, ctlAcked>>
  PROVE  /\ ctlActions' \in CtlStore /\ ctlVersion' \in Nat /\ ctlAcked' \in 0..ctlVersion'
         /\ CtlListDiscipline'
         /\ \A c \in ctlCalls :
              /\ ctlList'.data # NoData /\ ctlActions'[c.id] # NoRow /\ c.at <= ctlVersion'
              /\ c.op = "execute" => Still([type |-> c.shown, status |-> "APPROVED"], c.id)'
         /\ \A x \in ctlSaves : Still(x.read, x.id)'
<1>1. /\ CtlTypeOK /\ ctlVersion \in Nat /\ ctlAcked \in 0..ctlVersion
      /\ \A c \in ctlCalls : c.id \in CtlAction /\ c.at \in Nat
      /\ \A x \in ctlSaves : x.id \in CtlAction
  BY DEF CtlInv, CtlTypeOK, CtlCallSet, CtlSaveSet
<1>2. /\ ctlActions' \in CtlStore
      /\ \A x \in CtlAction : ctlActions[x] # NoRow => ctlActions'[x] # NoRow
      /\ \A item, x : x \in CtlAction /\ Still(item, x) => Still(item, x)'
  BY <1>1, StillStays
<1>3. CtlListDiscipline'
  <2>1. ASSUME NEW seen \in {ctlList.data, ctlList.answer} \ {NoData}, NEW x \in CtlAction,
               seen.items[x] # NoRow
        PROVE  Still(seen.items[x], x)'
    <3>1. Still(seen.items[x], x)
      BY <2>1 DEF CtlInv, CtlListDiscipline
    <3>2. QED BY <1>2, <3>1
  <2>2. QED BY <2>1 DEF CtlInv, CtlListDiscipline, Landing, Fetching
<1>4. ASSUME NEW c \in ctlCalls
      PROVE  /\ ctlList'.data # NoData /\ ctlActions'[c.id] # NoRow /\ c.at <= ctlVersion'
             /\ c.op = "execute" => Still([type |-> c.shown, status |-> "APPROVED"], c.id)'
  <2>1. /\ ctlList.data # NoData /\ ctlActions[c.id] # NoRow /\ c.at <= ctlVersion
        /\ c.op = "execute" => Still([type |-> c.shown, status |-> "APPROVED"], c.id)
    BY DEF CtlInv, CtlCallDiscipline
  <2>2. c.at <= ctlVersion'
    BY <1>1, <2>1
  <2>3. QED BY <1>1, <1>2, <2>1, <2>2
<1>5. \A x \in ctlSaves : Still(x.read, x.id)'
  BY <1>1, <1>2 DEF CtlInv, SaveDiscipline
<1>6. QED BY <1>1, <1>2, <1>3, <1>4, <1>5

\* Somebody reads an action and keeps a copy of it; the calls may change their stage.
LEMMA CopyStep ==
  ASSUME CtlInv, UNCHANGED <<ctlActions, ctlVersion, overtaken, ctlList, ctlTab, ctlError,
                             ctlAcked>>,
         ctlOps' \in 0..MaxCtlOps, ctlCalls' \subseteq CtlCallSet,
         \A d \in ctlCalls' : \E c \in ctlCalls :
           d.id = c.id /\ d.op = c.op /\ d.shown = c.shown /\ d.at = c.at,
         NEW a \in CtlAction, ctlActions[a] # NoRow, NEW x \in CtlSaveSet,
         x.id = a, x.read = ctlActions[a], ctlSaves' \subseteq ctlSaves \cup {x},
         x.read.status # "PENDING_APPROVAL" =>
           x.new.status # "PENDING_APPROVAL" /\ x.new.type = x.read.type
  PROVE  CtlInv'
<1>1. \A item, y : Still(item, y) => Still(item, y)'
  BY DEF Still
<1>2. CtlTypeOK'
  BY DEF CtlInv, CtlTypeOK
<1>3. CtlCallDiscipline'
  <2>1. ASSUME NEW d \in ctlCalls'
        PROVE  /\ ctlList.data # NoData /\ ctlActions[d.id] # NoRow /\ d.at <= ctlVersion
               /\ d.op = "execute" => Still([type |-> d.shown, status |-> "APPROVED"], d.id)
    <3>1. PICK c \in ctlCalls : d.id = c.id /\ d.op = c.op /\ d.shown = c.shown /\ d.at = c.at
      OBVIOUS
    <3>2. /\ ctlList.data # NoData /\ ctlActions[c.id] # NoRow /\ c.at <= ctlVersion
          /\ c.op = "execute" => Still([type |-> c.shown, status |-> "APPROVED"], c.id)
      BY DEF CtlInv, CtlCallDiscipline
    <3>3. QED BY <3>1, <3>2
  <2>2. QED BY <1>1, <2>1 DEF CtlCallDiscipline
<1>4. CtlListDiscipline'
  BY <1>1 DEF CtlInv, CtlListDiscipline
<1>5. SaveDiscipline'
  <2>1. ASSUME NEW y \in ctlSaves'
        PROVE  /\ Still(y.read, y.id)
               /\ y.read.status # "PENDING_APPROVAL" =>
                    y.new.status # "PENDING_APPROVAL" /\ y.new.type = y.read.type
    <3>1. CASE y \in ctlSaves
      BY <3>1 DEF CtlInv, SaveDiscipline
    <3>2. CASE y = x
      BY <3>2 DEF Still
    <3>3. QED BY <3>1, <3>2
  <2>2. QED BY <1>1, <2>1 DEF SaveDiscipline
<1>6. QED BY <1>2, <1>3, <1>4, <1>5 DEF CtlInv

\* The copy of a call is typed, and leaves a decided action decided.
LEMMA OutcomeTypes ==
  ASSUME NEW r \in CtlRecord, NEW op \in {"approve", "reject", "execute"}
  PROVE  LET new == [r EXCEPT !.status = CtlOutcome(op)]
         IN new \in CtlRecord /\ new.status # "PENDING_APPROVAL" /\ new.type = r.type
<1>1. CtlOutcome(op) \in CtlStatus \ {"PENDING_APPROVAL"}
  BY DEF CtlOutcome, CtlStatus
<1>2. QED BY <1>1 DEF CtlRecord

LEMMA DecisionTypes == Decisions \subseteq CtlRecord
BY DEF Decisions, CtlRecord, CtlStatus

\* The consumer.
LEMMA ConsumerReadsStep ==
  ASSUME CtlInv, ConsumerReads
  PROVE  CtlInv'
<1>1. /\ CtlTypeOK /\ ctlActions \in CtlStore /\ ctlOps' = ctlOps + 1
      /\ ctlOps' \in 0..MaxCtlOps /\ ctlOps + 1 \in 1..MaxCtlOps
      /\ UNCHANGED <<overtaken, ctlList, ctlTab, ctlError, ctlCalls, ctlAcked>>
  BY ActionsParameters DEF CtlInv, CtlTypeOK, ConsumerReads, CtlOp
<1>2. PICK a \in CtlAction, d \in Decisions :
        \/ /\ ctlActions[a] = NoRow
           /\ ctlActions' = [ctlActions EXCEPT ![a] = d]
           /\ ctlVersion' = ctlVersion + 1
           /\ UNCHANGED ctlSaves
        \/ /\ ctlActions[a] # NoRow /\ FollowsAlert(ctlActions[a].status)
           /\ Copied("consumer", ctlOps + 1, a, d)
           /\ UNCHANGED <<ctlActions, ctlVersion>>
  BY DEF ConsumerReads
<1>3. d \in CtlRecord
  BY DecisionTypes
<1>4. CASE ctlActions[a] = NoRow
  <2>1. ActionBecomes(a, d) /\ ctlVersion' = ctlVersion + 1 /\ UNCHANGED ctlSaves
    BY <1>1, <1>2, <1>3, <1>4 DEF ActionBecomes
  <2>2. /\ ctlActions' \in CtlStore /\ ctlVersion' \in Nat /\ ctlAcked' \in 0..ctlVersion'
        /\ CtlListDiscipline'
        /\ \A c \in ctlCalls :
             /\ ctlList'.data # NoData /\ ctlActions'[c.id] # NoRow /\ c.at <= ctlVersion'
             /\ c.op = "execute" => Still([type |-> c.shown, status |-> "APPROVED"], c.id)'
        /\ \A x \in ctlSaves : Still(x.read, x.id)'
    BY <1>1, <2>1, ActionChangeStep
  <2>3. CtlTypeOK'
    BY <1>1, <2>1, <2>2 DEF CtlTypeOK
  <2>4. CtlCallDiscipline'
    BY <1>1, <2>2 DEF CtlCallDiscipline
  <2>5. SaveDiscipline'
    BY <2>1, <2>2 DEF CtlInv, SaveDiscipline
  <2>6. QED BY <2>2, <2>3, <2>4, <2>5 DEF CtlInv
<1>5. CASE ctlActions[a] # NoRow
  <2> DEFINE x == [who |-> "consumer", no |-> ctlOps + 1, id |-> a, read |-> ctlActions[a],
                   new |-> d]
  <2>1. ctlSaves' = ctlSaves \cup {x} /\ UNCHANGED <<ctlActions, ctlVersion>>
    BY <1>2, <1>5 DEF Copied
  <2>2. ctlActions[a] \in CtlRecord /\ ctlActions[a].status = "PENDING_APPROVAL"
    BY <1>1, <1>2, <1>5 DEF CtlStore, FollowsAlert
  <2>3. x \in CtlSaveSet /\ x.id = a /\ x.read = ctlActions[a]
    BY <1>1, <1>3, <2>2 DEF CtlSaveSet
  <2>4. ctlCalls' \subseteq CtlCallSet
    BY <1>1 DEF CtlTypeOK
  <2> HIDE DEF x
  <2>5. QED BY <1>1, <1>5, <2>1, <2>2, <2>3, <2>4, CopyStep
<1>6. QED BY <1>4, <1>5

\* The call of another operator.
LEMMA OperatorReadsStep ==
  ASSUME CtlInv, OperatorReads
  PROVE  CtlInv'
<1>1. /\ CtlTypeOK /\ ctlActions \in CtlStore /\ ctlOps' = ctlOps + 1
      /\ ctlOps' \in 0..MaxCtlOps /\ ctlOps + 1 \in 1..MaxCtlOps
      /\ UNCHANGED <<ctlActions, ctlVersion, overtaken, ctlList, ctlTab, ctlError, ctlCalls,
                     ctlAcked>>
  BY ActionsParameters DEF CtlInv, CtlTypeOK, OperatorReads, CtlOp
<1>2. PICK a \in CtlAction, op \in {"approve", "reject", "execute"} :
        /\ ctlActions[a] # NoRow
        /\ Copied("operator", ctlOps + 1, a, [ctlActions[a] EXCEPT !.status = CtlOutcome(op)])
  BY DEF OperatorReads
<1>3. ctlActions[a] \in CtlRecord
  BY <1>1, <1>2 DEF CtlStore
<1> DEFINE new == [ctlActions[a] EXCEPT !.status = CtlOutcome(op)]
           x == [who |-> "operator", no |-> ctlOps + 1, id |-> a, read |-> ctlActions[a],
                 new |-> new]
<1>4. new \in CtlRecord /\ new.status # "PENDING_APPROVAL" /\ new.type = ctlActions[a].type
  BY <1>3, OutcomeTypes
<1>5. ctlSaves' = ctlSaves \cup {x}
  BY <1>2 DEF Copied
<1> HIDE DEF new
<1>6. /\ x \in CtlSaveSet /\ x.id = a /\ x.read = ctlActions[a] /\ x.new = new
  BY <1>1, <1>3, <1>4 DEF CtlSaveSet
<1>7. ctlCalls' \subseteq CtlCallSet
  BY <1>1 DEF CtlTypeOK
<1> HIDE DEF x
<1>8. QED BY <1>1, <1>2, <1>4, <1>5, <1>6, <1>7, CopyStep

\* A copy is saved.
LEMMA CtlSavedStep ==
  ASSUME CtlInv, CtlSaved
  PROVE  CtlInv'
<1>1. PICK x \in ctlSaves :
        /\ ctlSaves' = ctlSaves \ {x}
        /\ ctlActions' = [ctlActions EXCEPT ![x.id] = x.new]
        /\ ctlVersion' = ctlVersion + 1
        /\ overtaken' = IF ctlActions[x.id].status = x.read.status THEN overtaken
                        ELSE overtaken \cup {x.id}
        /\ ctlCalls' = {IF x.who = "page" /\ c.no = x.no
                        THEN [c EXCEPT !.stage = "done", !.at = ctlVersion + 1] ELSE c :
                        c \in ctlCalls}
  BY DEF CtlSaved
<1>2. UNCHANGED <<ctlList, ctlTab, ctlError, ctlOps, ctlAcked>>
  BY DEF CtlSaved
<1>13. ctlVersion' = ctlVersion + 1
  BY <1>1
<1>3. /\ CtlTypeOK /\ ctlVersion \in Nat /\ ctlCalls \subseteq CtlCallSet
      /\ ctlSaves \subseteq CtlSaveSet /\ overtaken \subseteq CtlAction
      /\ x.id \in CtlAction /\ x.new \in CtlRecord
  BY DEF CtlInv, CtlTypeOK, CtlSaveSet
<1>4. /\ Still(x.read, x.id)
      /\ x.read.status # "PENDING_APPROVAL" =>
           x.new.status # "PENDING_APPROVAL" /\ x.new.type = x.read.type
  BY DEF CtlInv, SaveDiscipline
<1>5. overtaken \subseteq overtaken' /\ overtaken' \subseteq CtlAction
  BY <1>1, <1>3
<1>6. ActionBecomes(x.id, x.new)
  BY <1>1, <1>3, <1>4, <1>5 DEF ActionBecomes, Still
<1>7. /\ ctlActions' \in CtlStore /\ ctlVersion' \in Nat /\ ctlAcked' \in 0..ctlVersion'
      /\ CtlListDiscipline'
      /\ \A f \in ctlCalls :
           /\ ctlList'.data # NoData /\ ctlActions'[f.id] # NoRow /\ f.at <= ctlVersion'
           /\ f.op = "execute" => Still([type |-> f.shown, status |-> "APPROVED"], f.id)'
      /\ \A y \in ctlSaves : Still(y.read, y.id)'
  BY <1>1, <1>2, <1>6, ActionChangeStep
<1>8. ASSUME NEW d \in ctlCalls'
      PROVE  /\ d \in CtlCallSet
             /\ ctlList'.data # NoData /\ ctlActions'[d.id] # NoRow /\ d.at <= ctlVersion'
             /\ d.op = "execute" => Still([type |-> d.shown, status |-> "APPROVED"], d.id)'
  <2>1. PICK c \in ctlCalls :
          d = IF x.who = "page" /\ c.no = x.no
              THEN [c EXCEPT !.stage = "done", !.at = ctlVersion + 1] ELSE c
    BY <1>1
  <2>2. CASE d = c
    BY <1>3, <1>7, <2>2
  <2>3. CASE d = [c EXCEPT !.stage = "done", !.at = ctlVersion + 1]
    <3>1. ctlVersion + 1 \in Nat /\ ctlVersion + 1 <= ctlVersion'
      BY <1>3, <1>13
    <3>2. c \in CtlCallSet
      BY <1>3
    <3>5. /\ d \in CtlCallSet /\ d.op = c.op /\ d.id = c.id /\ d.shown = c.shown
          /\ d.at = ctlVersion + 1
      BY <2>3, <3>1, <3>2 DEF CtlCallSet
    <3>3. /\ ctlList'.data # NoData /\ ctlActions'[c.id] # NoRow
          /\ c.op = "execute" => Still([type |-> c.shown, status |-> "APPROVED"], c.id)'
      BY <1>7
    <3>4. QED BY <3>1, <3>3, <3>5 DEF Still
  <2>4. QED BY <2>1, <2>2, <2>3
<1>9. CtlTypeOK'
  <2>1. ctlCalls' \subseteq CtlCallSet /\ ctlSaves' \subseteq CtlSaveSet
    BY <1>1, <1>3, <1>8
  <2>2. QED BY <1>2, <1>3, <1>5, <1>7, <2>1 DEF CtlTypeOK
<1>10. CtlCallDiscipline'
  BY <1>8 DEF CtlCallDiscipline
<1>11. SaveDiscipline'
  BY <1>1, <1>7 DEF CtlInv, SaveDiscipline
<1>12. QED BY <1>7, <1>9, <1>10, <1>11 DEF CtlInv

\* A copy is lost.
LEMMA SaveFailsStep ==
  ASSUME CtlInv, SaveFails
  PROVE  CtlInv'
<1>1. /\ ctlSaves' \subseteq ctlSaves
      /\ UNCHANGED <<ctlActions, ctlVersion, overtaken, ctlList, ctlTab, ctlError, ctlCalls,
                     ctlOps, ctlAcked>>
  BY DEF SaveFails
<1>2. \A item, y : Still(item, y) => Still(item, y)'
  BY <1>1 DEF Still
<1>3. CtlTypeOK'
  BY <1>1, Zenon DEF CtlInv, CtlTypeOK
<1>4. CtlCallDiscipline'
  BY <1>1, <1>2 DEF CtlInv, CtlCallDiscipline
<1>5. CtlListDiscipline'
  BY <1>1, <1>2 DEF CtlInv, CtlListDiscipline
<1>6. SaveDiscipline'
  BY <1>1, <1>2 DEF CtlInv, SaveDiscipline
<1>7. QED BY <1>3, <1>4, <1>5, <1>6 DEF CtlInv

\* A step of the fetch of the list.
LEMMA CtlFetchStep ==
  ASSUME CtlInv, NEW e \in Entries(CtlAnswers), CtlFetch(e),
         ctlList.data # NoData => e.data # NoData,
         \A seen \in {e.data, e.answer} \ {NoData}, a \in CtlAction :
           seen.items[a] # NoRow => Still(seen.items[a], a),
         Landing(e) => e.answer # NoData /\ e.answer.at >= ctlAcked,
         ~Fetching(e) /\ ~e.error => e.data # NoData /\ e.data.at >= ctlAcked
  PROVE  CtlInv'
<1>1. /\ UNCHANGED <<ctlActions, ctlVersion, ctlSaves, overtaken, ctlTab, ctlError, ctlCalls,
                     ctlOps, ctlAcked>>
      /\ ctlList' = e
  BY DEF CtlFetch, ctlStored
<1>2. CtlTypeOK'
  BY <1>1 DEF CtlInv, CtlTypeOK
<1>3. CtlCallDiscipline'
  BY <1>1 DEF CtlInv, CtlCallDiscipline, Still
<1>4. CtlListDiscipline'
  <2>1. \A item, a : Still(item, a) => Still(item, a)'
    BY <1>1 DEF Still
  <2>2. QED BY <1>1, <2>1 DEF CtlListDiscipline, Landing, Fetching
<1>5. SaveDiscipline'
  BY <1>1 DEF CtlInv, SaveDiscipline, Still
<1>6. QED BY <1>2, <1>3, <1>4, <1>5 DEF CtlInv

FetchesCtl == CtlPoll \/ CtlAnswered \/ CtlLand \/ CtlFail

LEMMA FetchesCtlStep ==
  ASSUME CtlInv, FetchesCtl
  PROVE  CtlInv'
<1>1. /\ ctlList \in Entries(CtlAnswers) /\ ctlActions \in CtlStore
      /\ ctlVersion \in Nat /\ ctlAcked \in 0..ctlVersion
  BY DEF CtlInv, CtlTypeOK
<1>2. \A seen \in {ctlList.data, ctlList.answer} \ {NoData}, a \in CtlAction :
        seen.items[a] # NoRow => Still(seen.items[a], a)
  BY DEF CtlInv, CtlListDiscipline
<1>3. CASE CtlPoll
  <2> DEFINE e == Asked(ctlList)
  <2>1. ~Fetching(ctlList) /\ CtlFetch(e)
    BY <1>3 DEF CtlPoll
  <2>2. ~Landing(e) /\ Fetching(e)
    BY <1>1, <2>1, EntryStage
  <2>3. e \in Entries(CtlAnswers) /\ e.data = ctlList.data /\ e.answer = ctlList.answer
    BY <1>1, EntryTypes, EntryData
  <2> HIDE DEF e
  <2>4. QED BY <1>2, <2>1, <2>2, <2>3, CtlFetchStep
<1>4. CASE CtlAnswered
  <2> DEFINE v == [items |-> ctlActions, at |-> ctlVersion]
             e == Answered(ctlList, v)
  <2>1. v \in CtlAnswers /\ v.items = ctlActions /\ v.at = ctlVersion
    BY <1>1 DEF CtlAnswers
  <2>2. CtlFetch(e)
    BY <1>4 DEF CtlAnswered
  <2> HIDE DEF v
  <2>3. Fetching(e)
    BY <1>1, EntryStage
  <2>4. e \in Entries(CtlAnswers) /\ e.data = ctlList.data /\ e.answer = v
    BY <1>1, <2>1, EntryTypes, EntryData
  <2>5. \A a \in CtlAction : v.items[a] # NoRow => Still(v.items[a], a)
    BY <2>1 DEF Still
  <2>6. v # NoData /\ v.at >= ctlAcked
    BY <1>1, <2>1, NoCtlRecord
  <2> HIDE DEF e
  <2>7. QED BY <1>2, <2>2, <2>3, <2>4, <2>5, <2>6, CtlFetchStep
<1>5. CASE CtlLand
  <2> DEFINE e == Landed(ctlList)
  <2>1. Landing(ctlList) /\ CtlFetch(e)
    BY <1>5 DEF CtlLand
  <2>2. ctlList.answer # NoData /\ ctlList.answer.at >= ctlAcked
    BY <2>1 DEF CtlInv, CtlListDiscipline
  <2>3. e \in Entries(CtlAnswers) /\ e.data = ctlList.answer /\ e.answer = NoData
    BY <1>1, EntryTypes, EntryData
  <2>4. ~Landing(e)
    BY <1>1, EntryStage
  <2> HIDE DEF e
  <2>5. QED BY <1>2, <2>1, <2>2, <2>3, <2>4, CtlFetchStep
<1>6. CASE CtlFail
  <2> DEFINE e == Failed(ctlList)
  <2>1. CtlFetch(e)
    BY <1>6 DEF CtlFail
  <2>2. e \in Entries(CtlAnswers) /\ e.data = ctlList.data /\ e.answer = NoData
    BY <1>1, EntryTypes, EntryData
  <2>3. ~Landing(e) /\ e.error
    BY <1>1, EntryStage
  <2> HIDE DEF e
  <2>4. QED BY <1>2, <2>1, <2>2, <2>3, CtlFetchStep
<1>7. QED BY <1>3, <1>4, <1>5, <1>6 DEF FetchesCtl

\* Calls of the pages: some end, at most one is added.
LEMMA CtlCallsStep ==
  ASSUME CtlInv, UNCHANGED <<ctlStored, ctlList, ctlAcked>>,
         ctlTab' \in [name : Tabs, opened : 0..MaxCtlOps], ctlError' \in BOOLEAN,
         ctlOps' \in 0..MaxCtlOps,
         \A c \in ctlCalls' : c \in ctlCalls \/
           /\ c \in CtlCallSet /\ ctlList.data # NoData /\ c.at = 0
           /\ \E a \in CtlItems : /\ c.id = a /\ c.shown = Item(a).type
                                  /\ c.op = "execute" => Item(a).status = "APPROVED"
  PROVE  CtlInv'
<1>1. CtlTypeOK'
  BY DEF CtlInv, CtlTypeOK, ctlStored
<1>2. \A item, a : Still(item, a) => Still(item, a)'
  BY DEF Still, ctlStored
<1>3. ASSUME NEW c \in ctlCalls'
      PROVE  /\ ctlList.data # NoData /\ ctlActions[c.id] # NoRow /\ c.at <= ctlVersion
             /\ c.op = "execute" => Still([type |-> c.shown, status |-> "APPROVED"], c.id)
  <2>1. CASE c \in ctlCalls
    BY <2>1 DEF CtlInv, CtlCallDiscipline
  <2>2. CASE c \notin ctlCalls
    <3>1. ctlList.data # NoData /\ c.at = 0
      BY <2>2
    <3>2. PICK a \in CtlItems : /\ c.id = a /\ c.shown = Item(a).type
                                /\ c.op = "execute" => Item(a).status = "APPROVED"
      BY <2>2
    <3>3. Still(Item(a), a)
      BY <3>1 DEF CtlItems, Item, CtlInv, CtlListDiscipline
    <3>4. ctlVersion \in Nat
      BY DEF CtlInv, CtlTypeOK
    <3>5. QED BY <3>1, <3>2, <3>3, <3>4 DEF Still
  <2>3. QED BY <2>1, <2>2
<1>4. CtlCallDiscipline'
  BY <1>2, <1>3 DEF CtlCallDiscipline, ctlStored
<1>5. CtlListDiscipline'
  BY <1>2 DEF CtlInv, CtlListDiscipline
<1>6. SaveDiscipline'
  BY <1>2 DEF CtlInv, SaveDiscipline, ctlStored
<1>7. QED BY <1>1, <1>4, <1>5, <1>6 DEF CtlInv

PageMoves == OpenTab \/ PressCtl \/ CtlErrs \/ DismissError

LEMMA PageMovesStep ==
  ASSUME CtlInv, PageMoves
  PROVE  CtlInv'
<1>1. /\ ctlOps \in 0..MaxCtlOps /\ ctlTab \in [name : Tabs, opened : 0..MaxCtlOps]
      /\ ctlError \in BOOLEAN
  BY DEF CtlInv, CtlTypeOK
<1>2. CtlOp => ctlOps \in Nat /\ ctlOps' = ctlOps + 1 /\ ctlOps' \in 1..MaxCtlOps
               /\ ctlOps' \in 0..MaxCtlOps
  BY <1>1, ActionsParameters DEF CtlOp
<1>3. CASE OpenTab
  <2>1. ctlTab' \in [name : Tabs, opened : 0..MaxCtlOps]
    BY <1>1, <1>2, <1>3 DEF OpenTab, CtlOp
  <2>2. /\ ctlError' = FALSE /\ UNCHANGED <<ctlStored, ctlList, ctlCalls, ctlAcked>>
        /\ ctlOps' \in 0..MaxCtlOps
    BY <1>2, <1>3 DEF OpenTab
  <2>3. QED BY <2>1, <2>2, CtlCallsStep
<1>4. CASE PressCtl
  <2>0. PICK a \in CtlRows : \E op \in CtlButtons(a) :
         ctlCalls' = ctlCalls \cup
           {[no |-> ctlOps + 1, op |-> op, id |-> a, shown |-> Item(a).type,
             tab |-> ctlTab.opened, stage |-> "sent", at |-> 0]}
    BY <1>4 DEF PressCtl
  <2>1. PICK op \in CtlButtons(a) :
          ctlCalls' = ctlCalls \cup
            {[no |-> ctlOps + 1, op |-> op, id |-> a, shown |-> Item(a).type,
              tab |-> ctlTab.opened, stage |-> "sent", at |-> 0]}
    BY <2>0
  <2>2. /\ ctlOps' = ctlOps + 1 /\ ctlOps' \in 1..MaxCtlOps /\ ctlOps' \in 0..MaxCtlOps
        /\ UNCHANGED <<ctlStored, ctlList, ctlTab, ctlError, ctlAcked>>
    BY <1>2, <1>4 DEF PressCtl
  <2>3. a \in CtlItems /\ a \in CtlAction /\ ctlList.data # NoData
    BY DEF CtlRows, CtlItems
  <2>4. Item(a) \in CtlRecord
    BY <2>3 DEF Item, CtlItems, CtlInv, CtlTypeOK, Entries, CtlAnswers, CtlStore
  <2>5. op \in {"approve", "reject", "execute"} /\ (op = "execute" => Item(a).status = "APPROVED")
    BY <2>4 DEF CtlButtons, CtlRecord, CtlStatus
  <2> DEFINE new == [no |-> ctlOps + 1, op |-> op, id |-> a, shown |-> Item(a).type,
                     tab |-> ctlTab.opened, stage |-> "sent", at |-> 0]
  <2>6. /\ new \in CtlCallSet /\ new.at = 0 /\ new.id = a /\ new.shown = Item(a).type
        /\ new.op = op
    BY <1>1, <2>2, <2>3, <2>4, <2>5 DEF CtlCallSet, CtlRecord
  <2>7. ctlCalls' = ctlCalls \cup {new}
    BY <2>1
  <2> HIDE DEF new
  <2>8. QED BY <1>1, <2>2, <2>3, <2>5, <2>6, <2>7, CtlCallsStep
<1>5. CASE CtlErrs
  <2>1. PICK c \in ctlCalls : /\ ctlCalls' = ctlCalls \ {c}
                              /\ ctlError' = (ctlError \/ c.tab = ctlTab.opened)
    BY <1>5 DEF CtlErrs
  <2>2. ctlError' \in BOOLEAN
    BY <2>1, Zenon
  <2>3. UNCHANGED <<ctlStored, ctlList, ctlTab, ctlOps, ctlAcked>>
    BY <1>5 DEF CtlErrs
  <2>4. QED BY <1>1, <2>1, <2>2, <2>3, CtlCallsStep
<1>6. CASE DismissError
  BY <1>1, <1>6, CtlCallsStep DEF DismissError
<1>7. QED BY <1>3, <1>4, <1>5, <1>6 DEF PageMoves

\* A call of the page is decided or refused.
LEMMA ServeCtlStep ==
  ASSUME CtlInv, ServeCtl
  PROVE  CtlInv'
<1>1. PICK c \in ctlCalls :
        /\ c.stage = "sent"
        /\ IF CtlAllowed(c.op, ctlActions[c.id].status)
           THEN /\ Copied("page", c.no, c.id,
                          [ctlActions[c.id] EXCEPT !.status = CtlOutcome(c.op)])
                /\ ctlCalls' = (ctlCalls \ {c}) \cup {[c EXCEPT !.stage = "decided"]}
           ELSE /\ ctlCalls' = (ctlCalls \ {c}) \cup {[c EXCEPT !.stage = "refused"]}
                /\ UNCHANGED ctlSaves
  BY DEF ServeCtl
<1>2. UNCHANGED <<ctlActions, ctlVersion, overtaken, ctlList, ctlTab, ctlError, ctlOps, ctlAcked>>
  BY DEF ServeCtl
<1>3. /\ CtlTypeOK /\ c \in CtlCallSet /\ c.id \in CtlAction /\ ctlVersion \in Nat
      /\ c.op \in {"approve", "reject", "execute"} /\ ctlCalls \subseteq CtlCallSet
      /\ ctlOps' \in 0..MaxCtlOps /\ c.no \in 1..MaxCtlOps
  BY <1>2 DEF CtlInv, CtlTypeOK, CtlCallSet
<1>4. ctlActions[c.id] # NoRow /\ ctlActions[c.id] \in CtlRecord
  BY <1>3 DEF CtlInv, CtlTypeOK, CtlStore, CtlCallDiscipline
<1> DEFINE new == [ctlActions[c.id] EXCEPT !.status = CtlOutcome(c.op)]
           x == [who |-> "page", no |-> c.no, id |-> c.id, read |-> ctlActions[c.id],
                 new |-> new]
<1>5. /\ new \in CtlRecord /\ new.status # "PENDING_APPROVAL"
      /\ new.type = ctlActions[c.id].type
  BY <1>3, <1>4, OutcomeTypes
<1>6. ctlSaves' \subseteq ctlSaves \cup {x}
  BY <1>1 DEF Copied
<1> HIDE DEF new
<1>7. /\ x \in CtlSaveSet /\ x.id = c.id /\ x.read = ctlActions[c.id] /\ x.new = new
  BY <1>3, <1>4, <1>5 DEF CtlSaveSet
<1> HIDE DEF x
<1>8. PICK stage \in {"decided", "refused"} :
        ctlCalls' = (ctlCalls \ {c}) \cup {[c EXCEPT !.stage = stage]}
  BY <1>1
<1> DEFINE d == [c EXCEPT !.stage = stage]
<1>9. d \in CtlCallSet /\ d.op = c.op /\ d.id = c.id /\ d.shown = c.shown /\ d.at = c.at
  BY <1>3, <1>8 DEF CtlCallSet
<1>10. ctlCalls' = (ctlCalls \ {c}) \cup {d}
  BY <1>8
<1> HIDE DEF d
<1>11. /\ ctlCalls' \subseteq CtlCallSet
       /\ \A f \in ctlCalls' : \E g \in ctlCalls :
            f.id = g.id /\ f.op = g.op /\ f.shown = g.shown /\ f.at = g.at
  BY <1>3, <1>9, <1>10
<1>12. QED BY <1>2, <1>3, <1>4, <1>5, <1>6, <1>7, <1>11, CopyStep

\* onSuccess.
LEMMA CtlReturnsStep ==
  ASSUME CtlInv, CtlReturns
  PROVE  CtlInv'
<1>1. PICK c \in ctlCalls : /\ ctlCalls' = ctlCalls \ {c}
                            /\ ctlAcked' = IF c.at > ctlAcked THEN c.at ELSE ctlAcked
  BY DEF CtlReturns
<1>2. /\ ctlList' = Invalidated(ctlList)
      /\ UNCHANGED <<ctlActions, ctlVersion, ctlSaves, overtaken, ctlTab, ctlError, ctlOps>>
  BY DEF CtlReturns, ctlStored
<1>3. /\ ctlList \in Entries(CtlAnswers) /\ ctlVersion \in Nat /\ ctlAcked \in 0..ctlVersion
      /\ c.at \in Nat
  BY DEF CtlInv, CtlTypeOK, CtlCallSet
<1>4. c.at <= ctlVersion /\ ctlList.data # NoData
  BY DEF CtlInv, CtlCallDiscipline
<1>5. /\ ctlList' \in Entries(CtlAnswers) /\ ctlList'.data = ctlList.data
      /\ ctlList'.answer \in {ctlList.answer, NoData} 
  BY <1>2, <1>3, EntryTypes, EntryData
<1>6. Fetching(ctlList') /\ ~Landing(ctlList')
  BY <1>2, <1>3, <1>4, EntryStage
<1>7. ctlAcked' \in 0..ctlVersion'
  BY <1>1, <1>2, <1>3, <1>4
<1>8. CtlTypeOK'
  BY <1>1, <1>2, <1>5, <1>7 DEF CtlInv, CtlTypeOK
<1>9. \A item, a : Still(item, a) => Still(item, a)'
  BY <1>2 DEF Still
<1>10. CtlCallDiscipline'
  BY <1>1, <1>2, <1>5, <1>9 DEF CtlInv, CtlCallDiscipline
<1>11. CtlListDiscipline'
  BY <1>5, <1>6, <1>9 DEF CtlInv, CtlListDiscipline, Fetching, Landing
<1>12. SaveDiscipline'
  BY <1>2, <1>9 DEF CtlInv, SaveDiscipline
<1>13. QED BY <1>8, <1>10, <1>11, <1>12 DEF CtlInv

LEMMA CtlStep ==
  ASSUME CtlInv, CtlNext
  PROVE  CtlInv'
<1>1. CASE ConsumerReads \/ OperatorReads \/ CtlSaved \/ SaveFails
  BY <1>1, ConsumerReadsStep, OperatorReadsStep, CtlSavedStep, SaveFailsStep
<1>2. CASE FetchesCtl
  BY <1>2, FetchesCtlStep
<1>3. CASE PageMoves
  BY <1>3, PageMovesStep
<1>4. CASE ServeCtl
  BY <1>4, ServeCtlStep
<1>5. CASE CtlReturns
  BY <1>5, CtlReturnsStep
<1>6. QED BY <1>1, <1>2, <1>3, <1>4, <1>5 DEF CtlNext, FetchesCtl, PageMoves

\* An execution applies the type its row had shown.
LEMMA ExecutedIsShown ==
  ASSUME CtlInv, NEW c \in ctlCalls, c.op = "execute", c.id \notin overtaken
  PROVE  ctlActions[c.id].type = c.shown
BY DEF CtlInv, CtlCallDiscipline, Still

--------------------------------------------------------------------------------
(* The page "Models". *)

ModelsInv == ModelsTypeOK /\ ModelCallDiscipline /\ DetailDiscipline

LEMMA ModelsStart == ModelsInit => ModelsInv
<1> SUFFICES ASSUME ModelsInit PROVE ModelsInv
    OBVIOUS
<1> DEFINE e == Failed([MountedEntry EXCEPT !.error = FALSE])
<1>1. e \in Entries(Nat) /\ ~Landing(e) /\ e.data = NoData
  BY DEF MountedEntry, Failed, Entries, Landing
<1>2. modelDetails = [m \in Model |-> e]
  BY DEF ModelsInit
<1> HIDE DEF e
<1>3. modelList \in Entries(ModelListAnswers)
  BY MountedType DEF ModelsInit
<1>4. ModelsTypeOK
  <2>1. modelDetails \in [Model -> Entries(Nat)]
    BY <1>1, <1>2
  <2>2. modelCalls \in [ModelMutation -> ModelCallSet \cup {NoModel}] /\ models \in [Model -> Nat]
    BY DEF ModelsInit
  <2>3. modelOps \in 0..MaxModelOps /\ modelReported \in Nat
    BY ModelsParameters DEF ModelsInit
  <2>4. modelSelected \in Model \cup {NoModel} /\ modelAction \in ModelDialog /\ modelStale \subseteq Model
    BY DEF ModelsInit, ModelDialog
  <2>5. QED BY <1>3, <2>1, <2>2, <2>3, <2>4 DEF ModelsTypeOK
<1>5. ModelCallDiscipline
  BY DEF ModelsInit, ModelCallDiscipline
<1>6. DetailDiscipline
  BY <1>1, <1>2 DEF ModelsInit, DetailDiscipline
<1>7. QED BY <1>4, <1>5, <1>6 DEF ModelsInv

\* What is known of the selected model's entry.
Follows(e, reported) ==
  /\ Landing(e) => e.answer >= reported
  /\ e.data # NoData /\ ~Fetching(e) /\ ~e.error => e.data >= reported

LEMMA DetailParts ==
  DetailDiscipline <=>
    /\ \A m \in Model : Landing(modelDetails[m]) => modelDetails[m].answer # NoData
    /\ modelSelected # NoModel =>
         modelReported <= models[modelSelected] /\ Follows(modelDetails[modelSelected], modelReported)
BY DEF DetailDiscipline, Follows

\* A step that leaves the details of all models alone.
LEMMA ListStep ==
  ASSUME ModelsInv, NEW e \in Entries(ModelListAnswers), ListFetch(e)
  PROVE  ModelsInv'
<1>1. ModelsTypeOK'
  BY DEF ModelsInv, ModelsTypeOK, ListFetch
<1>2. ModelCallDiscipline'
  BY DEF ModelsInv, ModelCallDiscipline, ListFetch
<1>3. DetailDiscipline'
  BY DEF ModelsInv, DetailDiscipline, ListFetch, Landing, Fetching
<1>4. QED BY <1>1, <1>2, <1>3 DEF ModelsInv

FetchesList == RefreshModels \/ ModelsAnswered \/ ModelsLand \/ ModelsFail

LEMMA FetchesListStep ==
  ASSUME ModelsInv, FetchesList
  PROVE  ModelsInv'
<1>1. modelList \in Entries(ModelListAnswers) /\ models \in ModelListAnswers
  BY DEF ModelsInv, ModelsTypeOK, ModelListAnswers
<1>2. PICK e \in {Invalidated(modelList), Answered(modelList, models), Landed(modelList),
                  Failed(modelList)} : ListFetch(e)
  BY DEF FetchesList, RefreshModels, ModelsAnswered, ModelsLand, ModelsFail
<1>3. e \in Entries(ModelListAnswers)
  BY <1>1, EntryTypes
<1>4. QED BY <1>2, <1>3, ListStep

\* A step of the entry of one model, which leaves the data it has or replaces it.
LEMMA DetailStep ==
  ASSUME ModelsInv, NEW m \in Model, NEW e \in Entries(Nat), DetailFetch(m, e),
         modelStale' \subseteq Model,
         modelDetails[m].data # NoData => e.data # NoData,
         Landing(e) => e.answer # NoData,
         m = modelSelected => Follows(e, modelReported)
  PROVE  ModelsInv'
<1>1. /\ modelDetails \in [Model -> Entries(Nat)]
      /\ modelDetails' = [modelDetails EXCEPT ![m] = e]
      /\ UNCHANGED <<models, modelList, modelSelected, modelAction, modelCalls, modelOps,
                     modelReported>>
  BY DEF ModelsInv, ModelsTypeOK, DetailFetch
<1>2. modelDetails'[m] = e /\ \A x \in Model : x # m => modelDetails'[x] = modelDetails[x]
  BY <1>1
<1>3. modelDetails' \in [Model -> Entries(Nat)]
  BY <1>1
<1>4. ModelsTypeOK'
  BY <1>1, <1>3 DEF ModelsInv, ModelsTypeOK
<1>5. \A x \in Model : modelDetails[x].data # NoData => modelDetails'[x].data # NoData
  BY <1>2
<1>6. /\ modelSelected \in Model \cup {NoModel}
      /\ \A op \in ModelMutation : modelCalls[op] # NoModel => modelCalls[op].id \in Model
  BY DEF ModelsInv, ModelsTypeOK, ModelCallSet
<1>7. ModelCallDiscipline'
  BY <1>1, <1>5, <1>6 DEF ModelsInv, ModelCallDiscipline
<1>8. \A x \in Model : Landing(modelDetails'[x]) => modelDetails'[x].answer # NoData
  BY <1>2, DetailParts DEF ModelsInv
<1>9. modelSelected # NoModel => Follows(modelDetails'[modelSelected], modelReported)
  BY <1>2, <1>6, DetailParts DEF ModelsInv
<1>10. DetailDiscipline'
  <2>1. modelSelected # NoModel => modelReported <= models[modelSelected]
    BY DetailParts DEF ModelsInv
  <2>2. QED BY <1>1, <1>8, <1>9, <2>1 DEF DetailDiscipline, Follows, Landing, Fetching
<1>11. QED BY <1>4, <1>7, <1>10 DEF ModelsInv

FetchesDetails == RefreshDetails \/ DetailsAnswered \/ DetailsLand \/ DetailsFail

\* What is known of the entry of a model.
LEMMA EntryKnown ==
  ASSUME ModelsInv, NEW m \in Model
  PROVE  /\ modelDetails[m] \in Entries(Nat) /\ models[m] \in Nat /\ modelReported \in Nat
         /\ Landing(modelDetails[m]) => modelDetails[m].answer # NoData
         /\ m = modelSelected => /\ Follows(modelDetails[m], modelReported)
                                 /\ modelReported <= models[m]
<1>1. m # NoModel
  BY ModelsParameters
<1>2. QED BY <1>1, DetailParts DEF ModelsInv, ModelsTypeOK

LEMMA FetchesDetailsStep ==
  ASSUME ModelsInv, FetchesDetails
  PROVE  ModelsInv'
<1>1. modelStale \subseteq Model
  BY DEF ModelsInv, ModelsTypeOK
<1>2. CASE RefreshDetails
  <2> DEFINE d == modelDetails[modelSelected]
             e == Invalidated(d)
  <2>1. DetailFetch(modelSelected, e) /\ modelStale' = modelStale
    BY <1>2 DEF RefreshDetails
  <2>2. modelSelected \in Model /\ d.data # NoData
    BY <1>2 DEF RefreshDetails, DetailsBody, ModelsInv, ModelsTypeOK
  <2>3. d \in Entries(Nat)
    BY <2>2, EntryKnown
  <2>4. e \in Entries(Nat) /\ e.data = d.data
    BY <2>3, EntryTypes, EntryData
  <2>5. Fetching(e) /\ ~Landing(e)
    BY <2>2, <2>3, EntryStage
  <2> HIDE DEF e
  <2>6. Follows(e, modelReported)
    BY <2>5 DEF Follows
  <2>7. QED BY <1>1, <2>1, <2>2, <2>4, <2>5, <2>6, DetailStep
<1>3. CASE DetailsAnswered
  <2>1. PICK m \in Model : /\ DetailFetch(m, Answered(modelDetails[m], models[m]))
                           /\ modelStale' = modelStale
    BY <1>3 DEF DetailsAnswered
  <2> DEFINE d == modelDetails[m]
             e == Answered(d, models[m])
  <2>2. d \in Entries(Nat) /\ models[m] \in Nat /\ modelReported \in Nat
    BY EntryKnown
  <2>3. e \in Entries(Nat) /\ e.data = d.data /\ e.answer = models[m]
    <3>1. \A v \in Nat : Answered(d, v) \in Entries(Nat)
      BY <2>2, EntryTypes
    <3>2. \A v : Answered(d, v).data = d.data /\ Answered(d, v).answer = v
      BY <2>2, EntryData
    <3>3. QED BY <2>2, <3>1, <3>2
  <2>4. Fetching(e)
    BY <2>2, EntryStage
  <2>5. m = modelSelected => modelReported <= models[m]
    BY EntryKnown
  <2>6. models[m] # NoData
    BY <2>2, ModelsParameters
  <2>7. DetailFetch(m, e) /\ modelStale' = modelStale
    BY <2>1
  <2> HIDE DEF e
  <2>8. m = modelSelected => Follows(e, modelReported)
    BY <2>2, <2>3, <2>4, <2>5 DEF Follows
  <2>9. QED BY <1>1, <2>3, <2>6, <2>7, <2>8, DetailStep
<1>4. CASE DetailsLand
  <2>1. PICK m \in Model : /\ Landing(modelDetails[m]) /\ DetailFetch(m, Landed(modelDetails[m]))
                           /\ modelStale' = modelStale \ {m}
    BY <1>4 DEF DetailsLand
  <2> DEFINE d == modelDetails[m]
             e == Landed(d)
  <2>2. d \in Entries(Nat) /\ modelReported \in Nat /\ d.answer # NoData
    BY <2>1, EntryKnown
  <2>3. e \in Entries(Nat) /\ e.data = d.answer /\ ~Landing(e)
    BY <2>2, EntryTypes, EntryData, EntryStage
  <2>4. m = modelSelected => Follows(d, modelReported)
    BY EntryKnown
  <2>5. DetailFetch(m, e) /\ modelStale' \subseteq Model /\ Landing(d)
    BY <1>1, <2>1
  <2> HIDE DEF e
  <2>6. m = modelSelected => Follows(e, modelReported)
    BY <2>3, <2>4, <2>5 DEF Follows
  <2>7. QED BY <2>2, <2>3, <2>5, <2>6, DetailStep
<1>5. CASE DetailsFail
  <2>1. PICK m \in Model : DetailFetch(m, Failed(modelDetails[m])) /\ modelStale' = modelStale
    BY <1>5 DEF DetailsFail
  <2> DEFINE d == modelDetails[m]
             e == Failed(d)
  <2>2. d \in Entries(Nat)
    BY EntryKnown
  <2>3. e \in Entries(Nat) /\ e.data = d.data /\ ~Landing(e) /\ e.error
    BY <2>2, EntryTypes, EntryData, EntryStage
  <2>4. DetailFetch(m, e) /\ modelStale' \subseteq Model
    BY <1>1, <2>1
  <2> HIDE DEF e
  <2>5. Follows(e, modelReported)
    BY <2>3 DEF Follows
  <2>6. QED BY <2>3, <2>4, <2>5, DetailStep
<1>6. QED BY <1>2, <1>3, <1>4, <1>5 DEF FetchesDetails

\* A step that changes neither details nor what is selected; calls that go on are of
\* models that were shown, and what they know the models have seen.
LEMMA ModelPageStep ==
  ASSUME ModelsInv, UNCHANGED <<modelList, modelDetails, modelStale, modelSelected, modelReported>>,
         models' \in [Model -> Nat], \A m \in Model : models[m] <= models'[m],
         modelAction' \in ModelDialog,
         modelAction' # "none" =>
           modelSelected # NoModel /\ modelDetails[modelSelected].data # NoData,
         modelCalls' \in [ModelMutation -> ModelCallSet \cup {NoModel}],
         \A op \in ModelMutation : modelCalls'[op] # NoModel =>
           /\ modelCalls'[op].at <= models'[modelCalls'[op].id]
           /\ modelDetails[modelCalls'[op].id].data # NoData,
         modelOps' \in 0..MaxModelOps
  PROVE  ModelsInv'
<1>1. ModelsTypeOK'
  BY DEF ModelsInv, ModelsTypeOK
<1>2. ModelCallDiscipline'
  BY DEF ModelCallDiscipline
<1>3. modelSelected # NoModel => modelReported <= models'[modelSelected]
  <2>1. /\ modelReported \in Nat /\ modelSelected \in Model \cup {NoModel}
        /\ models \in [Model -> Nat]
    BY DEF ModelsInv, ModelsTypeOK
  <2>2. modelSelected # NoModel => modelReported <= models[modelSelected]
    BY DEF ModelsInv, DetailDiscipline
  <2>3. QED BY <2>1, <2>2
<1>4. DetailDiscipline'
  BY <1>3 DEF ModelsInv, DetailDiscipline
<1>5. QED BY <1>1, <1>2, <1>4 DEF ModelsInv

\* What is known of the calls.
LEMMA CallKnown ==
  ASSUME ModelsInv
  PROVE  /\ models \in [Model -> Nat] /\ modelAction \in ModelDialog
         /\ modelCalls \in [ModelMutation -> ModelCallSet \cup {NoModel}]
         /\ modelOps \in 0..MaxModelOps
         /\ modelAction # "none" =>
              modelSelected # NoModel /\ modelDetails[modelSelected].data # NoData
         /\ \A op \in ModelMutation : modelCalls[op] # NoModel =>
              /\ modelCalls[op] \in ModelCallSet
              /\ modelCalls[op].id \in Model /\ modelCalls[op].at \in Nat
              /\ modelCalls[op].at <= models[modelCalls[op].id]
              /\ modelDetails[modelCalls[op].id].data # NoData
BY DEF ModelsInv, ModelsTypeOK, ModelCallDiscipline, ModelCallSet

LEMMA ModelOpTypes == ASSUME ModelsInv, ModelOp PROVE modelOps' \in 0..MaxModelOps
BY ModelsParameters DEF ModelsInv, ModelsTypeOK, ModelOp

\* Other operators.
LEMMA ModelMovesStep == ASSUME ModelsInv, ModelMoves PROVE ModelsInv'
<1>1. PICK m \in Model : models' = [models EXCEPT ![m] = @ + 1]
  BY DEF ModelMoves
<1>2. /\ modelOps' \in 0..MaxModelOps
      /\ UNCHANGED <<modelList, modelDetails, modelStale, modelSelected, modelAction,
                     modelCalls, modelReported>>
  BY ModelOpTypes DEF ModelMoves
<1>3. models \in [Model -> Nat]
  BY CallKnown
<1>4. models' \in [Model -> Nat] /\ \A x \in Model : models[x] <= models'[x]
  BY <1>1, <1>3
<1>5. ASSUME NEW op \in ModelMutation, modelCalls[op] # NoModel
      PROVE  modelCalls[op].at <= models'[modelCalls[op].id]
  <2>1. /\ modelCalls[op].id \in Model /\ modelCalls[op].at \in Nat
        /\ modelCalls[op].at <= models[modelCalls[op].id]
    BY <1>5, CallKnown
  <2>2. QED BY <1>3, <1>4, <2>1
<1>6. QED BY <1>2, <1>4, <1>5, CallKnown, ModelPageStep

\* The dialogs.
MovesModelDialog == OpenModelDialog \/ CancelModelDialog

LEMMA MovesModelDialogStep == ASSUME ModelsInv, MovesModelDialog PROVE ModelsInv'
<1>1. /\ UNCHANGED <<models, modelList, modelDetails, modelStale, modelSelected, modelCalls,
                     modelOps, modelReported>>
      /\ modelAction' \in ModelButtons \/ modelAction' = "none"
  BY DEF MovesModelDialog, OpenModelDialog, CancelModelDialog
<1>2. modelAction' # "none" =>
        modelSelected # NoModel /\ modelDetails[modelSelected].data # NoData
  BY <1>1 DEF ModelButtons, DetailsBody
<1>3. modelAction' \in ModelDialog
  BY <1>1 DEF ModelButtons, ModelDialog
<1>4. \A m \in Model : models[m] <= models[m]
  BY CallKnown
<1>5. QED BY <1>1, <1>2, <1>3, <1>4, CallKnown, ModelPageStep

\* A call changes its stage, and what it knows; or it is over.
LEMMA CallMoves ==
  ASSUME ModelsInv, NEW op \in ModelMutation, NEW c \in ModelCallSet \cup {NoModel},
         modelCalls' = [modelCalls EXCEPT ![op] = c],
         models' \in [Model -> Nat], \A m \in Model : models[m] <= models'[m],
         c # NoModel => c.at <= models'[c.id] /\ modelDetails[c.id].data # NoData,
         UNCHANGED <<modelDetails, modelSelected>>
  PROVE  /\ modelCalls' \in [ModelMutation -> ModelCallSet \cup {NoModel}]
         /\ \A o \in ModelMutation : modelCalls'[o] # NoModel =>
              /\ modelCalls'[o].at <= models'[modelCalls'[o].id]
              /\ modelDetails[modelCalls'[o].id].data # NoData
<1>1. modelCalls \in [ModelMutation -> ModelCallSet \cup {NoModel}] /\ models \in [Model -> Nat]
  BY CallKnown
<1>2. modelCalls' \in [ModelMutation -> ModelCallSet \cup {NoModel}]
  BY <1>1
<1>3. modelCalls'[op] = c /\ \A o \in ModelMutation : o # op => modelCalls'[o] = modelCalls[o]
  BY <1>1
<1>4. ASSUME NEW o \in ModelMutation, modelCalls'[o] # NoModel
      PROVE  /\ modelCalls'[o].at <= models'[modelCalls'[o].id]
             /\ modelDetails[modelCalls'[o].id].data # NoData
  <2>1. CASE o = op
    BY <1>3, <1>4, <2>1
  <2>2. CASE o # op
    <3>1. modelCalls'[o] = modelCalls[o]
      BY <1>3, <2>2
    <3>2. /\ modelCalls[o].id \in Model /\ modelCalls[o].at \in Nat
          /\ modelCalls[o].at <= models[modelCalls[o].id]
          /\ modelDetails[modelCalls[o].id].data # NoData
      BY <1>4, <3>1, CallKnown
    <3>3. QED BY <1>1, <3>1, <3>2
  <2>3. QED BY <2>1, <2>2
<1>5. QED BY <1>2, <1>4

LEMMA onConfirmStep == ASSUME ModelsInv, onConfirm PROVE ModelsInv'
<1>1. /\ modelAction # "none" /\ modelAction' = "none"
      /\ UNCHANGED <<models, modelList, modelSelected, modelReported>>
  BY DEF onConfirm
<1>2. modelSelected \in Model /\ modelDetails[modelSelected].data # NoData
  BY <1>1, CallKnown DEF ModelsInv, ModelsTypeOK
<1>3. models \in [Model -> Nat] /\ \A m \in Model : models[m] <= models[m]
  BY CallKnown
<1>4. CASE /\ modelAction \in ModelMutation /\ ModelOp
           /\ modelCalls' = [modelCalls EXCEPT ![modelAction] =
                               [id |-> modelSelected, stage |-> "sent", at |-> 0]]
           /\ UNCHANGED <<modelDetails, modelStale>>
  <2> DEFINE c == [id |-> modelSelected, stage |-> "sent", at |-> 0]
  <2>1. c \in ModelCallSet /\ c.id = modelSelected /\ c.at = 0
    BY <1>2 DEF ModelCallSet
  <2>2. modelCalls' = [modelCalls EXCEPT ![modelAction] = c]
    BY <1>4
  <2> HIDE DEF c
  <2>3. c.at <= models[c.id] /\ modelDetails[c.id].data # NoData
    BY <1>2, <1>3, <2>1
  <2>4. /\ modelCalls' \in [ModelMutation -> ModelCallSet \cup {NoModel}]
        /\ \A o \in ModelMutation : modelCalls'[o] # NoModel =>
             /\ modelCalls'[o].at <= models'[modelCalls'[o].id]
             /\ modelDetails[modelCalls'[o].id].data # NoData
    BY <1>1, <1>3, <1>4, <2>1, <2>2, <2>3, CallMoves
  <2>5. modelOps' \in 0..MaxModelOps /\ modelAction' \in ModelDialog
    BY <1>1, <1>4, ModelOpTypes DEF ModelDialog
  <2>6. QED BY <1>1, <1>3, <1>4, <2>4, <2>5, ModelPageStep
<1>5. CASE /\ modelAction = "validate"
           /\ modelDetails' = [modelDetails EXCEPT ![modelSelected] = Invalidated(@)]
           /\ modelStale' = modelStale \cup {modelSelected}
           /\ UNCHANGED <<modelCalls, modelOps>>
  <2> DEFINE d == modelDetails[modelSelected]
             e == Invalidated(d)
  <2>1. d \in Entries(Nat) /\ modelDetails \in [Model -> Entries(Nat)]
    BY <1>2 DEF ModelsInv, ModelsTypeOK
  <2>2. e \in Entries(Nat) /\ e.data = d.data /\ ~Landing(e) /\ Fetching(e)
    BY <1>2, <2>1, EntryTypes, EntryData, EntryStage
  <2>3. modelDetails' = [modelDetails EXCEPT ![modelSelected] = e]
    BY <1>5
  <2> HIDE DEF e
  <2>4. /\ modelDetails' \in [Model -> Entries(Nat)] /\ modelDetails'[modelSelected] = e
        /\ \A x \in Model : x # modelSelected => modelDetails'[x] = modelDetails[x]
    BY <1>2, <2>1, <2>2, <2>3
  <2>5. ModelsTypeOK'
    BY <1>1, <1>2, <1>5, <2>4 DEF ModelsInv, ModelsTypeOK, ModelDialog
  <2>6. \A x \in Model : modelDetails[x].data # NoData => modelDetails'[x].data # NoData
    BY <2>2, <2>4
  <2>7. ModelCallDiscipline'
    BY <1>1, <1>5, <2>6, CallKnown DEF ModelCallDiscipline
  <2>8. \A x \in Model : Landing(modelDetails'[x]) => modelDetails'[x].answer # NoData
    BY <2>2, <2>4, DetailParts DEF ModelsInv
  <2>9. modelReported <= models[modelSelected]
    BY <1>2, EntryKnown
  <2>10. DetailDiscipline'
    BY <1>1, <2>2, <2>4, <2>8, <2>9 DEF DetailDiscipline, Landing, Fetching
  <2>11. QED BY <2>5, <2>7, <2>10 DEF ModelsInv
<1>6. QED BY <1>4, <1>5 DEF onConfirm

LEMMA SelectModelStep == ASSUME ModelsInv, SelectModel PROVE ModelsInv'
<1>1. PICK m \in Model \ {modelSelected} :
        /\ modelSelected' = m
        /\ modelDetails' \in {[modelDetails EXCEPT ![m] = Asked(@)]} \cup
             (IF modelDetails[m].data = NoData \/ m \in modelStale THEN {} ELSE {modelDetails})
  BY DEF SelectModel
<1>2. /\ modelAction = "none" /\ modelReported' = 0 /\ modelOps' \in 0..MaxModelOps
      /\ UNCHANGED <<models, modelList, modelStale, modelAction, modelCalls>>
  BY ModelOpTypes DEF SelectModel
<1> DEFINE d == modelDetails[m]
           e == Asked(d)
<1>3. d \in Entries(Nat) /\ modelDetails \in [Model -> Entries(Nat)] /\ models[m] \in Nat
  BY DEF ModelsInv, ModelsTypeOK
<1>4. /\ e \in Entries(Nat) /\ e.data = d.data /\ e.answer = d.answer
      /\ (Landing(e) => Landing(d))
  BY <1>3, EntryTypes, EntryData, EntryStage
<1>5. modelDetails' = [modelDetails EXCEPT ![m] = e] \/ modelDetails' = modelDetails
  BY <1>1
<1> HIDE DEF e
<1>6. modelDetails' \in [Model -> Entries(Nat)]
  BY <1>3, <1>4, <1>5
<1>7. ASSUME NEW x \in Model
      PROVE  /\ modelDetails'[x].data = modelDetails[x].data
             /\ modelDetails'[x].answer = modelDetails[x].answer
             /\ Landing(modelDetails'[x]) => Landing(modelDetails[x])
  BY <1>3, <1>4, <1>5
<1>8. ModelsTypeOK'
  <2>1. modelSelected' \in Model \cup {NoModel} /\ modelReported' \in Nat
    BY <1>1, <1>2
  <2>2. QED BY <1>2, <1>6, <2>1 DEF ModelsInv, ModelsTypeOK
<1>9. ModelCallDiscipline'
  BY <1>2, <1>7, CallKnown DEF ModelCallDiscipline
<1>10. \A x \in Model : Landing(modelDetails'[x]) => modelDetails'[x].answer # NoData
  BY <1>7, DetailParts DEF ModelsInv
<1>11. /\ modelDetails'[m].data # NoData => modelDetails'[m].data >= 0
       /\ Landing(modelDetails'[m]) => modelDetails'[m].answer >= 0
  <2>1. modelDetails'[m].data \in Nat \cup {NoData} /\ modelDetails'[m].answer \in Nat \cup {NoData}
    BY <1>6 DEF Entries
  <2>2. QED BY <1>10, <2>1
<1>12. DetailDiscipline'
  BY <1>1, <1>2, <1>3, <1>10, <1>11 DEF DetailDiscipline, Landing, Fetching
<1>13. QED BY <1>8, <1>9, <1>12 DEF ModelsInv

LEMMA ServeModelCallStep == ASSUME ModelsInv, ServeModelCall PROVE ModelsInv'
<1>1. PICK op \in ModelMutation :
        /\ modelCalls[op] # NoModel
        /\ models' \in {models, [models EXCEPT ![modelCalls[op].id] = @ + 1]}
        /\ modelCalls' = [modelCalls EXCEPT ![op] =
                            [@ EXCEPT !.stage = "done", !.at = models'[modelCalls[op].id]]]
        /\ UNCHANGED <<modelList, modelDetails, modelStale, modelSelected, modelAction, modelOps,
                       modelReported>>
  BY DEF ServeModelCall
<1>2. /\ modelCalls[op] \in ModelCallSet /\ modelCalls[op].id \in Model
      /\ modelDetails[modelCalls[op].id].data # NoData
  BY <1>1, CallKnown
<1>3. models \in [Model -> Nat]
  BY CallKnown
<1>4. models' \in [Model -> Nat] /\ \A m \in Model : models[m] <= models'[m]
  BY <1>1, <1>2, <1>3
<1> DEFINE c == [modelCalls[op] EXCEPT !.stage = "done", !.at = models'[modelCalls[op].id]]
<1>5. models'[modelCalls[op].id] \in Nat
  BY <1>2, <1>4
<1>6. /\ c \in ModelCallSet /\ c.id = modelCalls[op].id /\ c.at = models'[modelCalls[op].id]
  BY <1>2, <1>5 DEF ModelCallSet
<1>7. modelCalls' = [modelCalls EXCEPT ![op] = c]
  BY <1>1
<1> HIDE DEF c
<1>8. c.at <= models'[c.id] /\ modelDetails[c.id].data # NoData
  BY <1>2, <1>5, <1>6
<1>9. /\ modelCalls' \in [ModelMutation -> ModelCallSet \cup {NoModel}]
      /\ \A o \in ModelMutation : modelCalls'[o] # NoModel =>
           /\ modelCalls'[o].at <= models'[modelCalls'[o].id]
           /\ modelDetails[modelCalls'[o].id].data # NoData
  BY <1>1, <1>4, <1>6, <1>7, <1>8, CallMoves
<1>10. QED BY <1>1, <1>4, <1>9, CallKnown, ModelPageStep

\* A call that is over.
EndsModelCall == ModelCallSettles \/ ModelCallErrs

LEMMA EndsModelCallStep == ASSUME ModelsInv, EndsModelCall PROVE ModelsInv'
<1>1. PICK op \in ModelMutation :
        /\ modelCalls' = [modelCalls EXCEPT ![op] = NoModel]
        /\ UNCHANGED <<models, modelList, modelDetails, modelStale, modelSelected, modelAction,
                       modelOps, modelReported>>
  BY DEF EndsModelCall, ModelCallSettles, ModelCallErrs
<1>2. models \in [Model -> Nat] /\ \A m \in Model : models[m] <= models[m]
  BY CallKnown
<1>3. /\ modelCalls' \in [ModelMutation -> ModelCallSet \cup {NoModel}]
      /\ \A o \in ModelMutation : modelCalls'[o] # NoModel =>
           /\ modelCalls'[o].at <= models'[modelCalls'[o].id]
           /\ modelDetails[modelCalls'[o].id].data # NoData
  BY <1>1, <1>2, CallMoves
<1>4. QED BY <1>1, <1>2, <1>3, CallKnown, ModelPageStep

\* onSuccess: the entry that is shown is fetched again, and what was reported of it is
\* what the call knows.
LEMMA ModelReturnsStep == ASSUME ModelsInv, ModelReturns PROVE ModelsInv'
<1>1. PICK op \in ModelMutation :
        /\ modelCalls[op] # NoModel
        /\ modelCalls' = [modelCalls EXCEPT ![op].stage = "refreshing"]
        /\ modelReported' = ModelReport(modelCalls[op])
        /\ modelList' = Invalidated(modelList)
        /\ modelStale' = Model
        /\ modelDetails' = [m \in Model |-> IF m = modelSelected THEN Invalidated(modelDetails[m])
                                            ELSE modelDetails[m]]
        /\ UNCHANGED <<models, modelSelected, modelAction, modelOps>>
  BY DEF ModelReturns
<1> DEFINE call == modelCalls[op]
           c == [call EXCEPT !.stage = "refreshing"]
<1>2. /\ call \in ModelCallSet /\ call.id \in Model /\ call.at \in Nat
      /\ call.at <= models[call.id] /\ modelDetails[call.id].data # NoData
  BY <1>1, CallKnown
<1>3. c \in ModelCallSet /\ c.id = call.id /\ c.at = call.at
  BY <1>2 DEF ModelCallSet
<1>4. modelCalls' = [modelCalls EXCEPT ![op] = c]
  BY <1>1
<1> HIDE DEF c
<1>5. /\ modelDetails \in [Model -> Entries(Nat)] /\ modelSelected \in Model \cup {NoModel}
      /\ modelList \in Entries(ModelListAnswers) /\ modelReported \in Nat
      /\ modelCalls \in [ModelMutation -> ModelCallSet \cup {NoModel}]
      /\ models \in [Model -> Nat]
  BY DEF ModelsInv, ModelsTypeOK
<1>6. ASSUME NEW m \in Model
      PROVE  /\ modelDetails'[m] \in Entries(Nat)
             /\ modelDetails'[m].data = modelDetails[m].data
             /\ Landing(modelDetails'[m]) =>
                  Landing(modelDetails[m]) /\ modelDetails'[m].answer = modelDetails[m].answer
             /\ m = modelSelected =>
                  /\ Fetching(modelDetails'[m])
                  /\ Landing(modelDetails'[m]) => modelDetails[m].data = NoData
  <2> DEFINE d == modelDetails[m]
  <2>1. d \in Entries(Nat)
    BY <1>5
  <2>2. CASE m = modelSelected
    <3>1. modelDetails'[m] = Invalidated(d)
      BY <1>1, <2>2
    <3> HIDE DEF d
    <3>2. /\ Invalidated(d) \in Entries(Nat) /\ Invalidated(d).data = d.data
          /\ Fetching(Invalidated(d))
          /\ Landing(Invalidated(d)) => /\ Landing(d) /\ d.data = NoData
                                        /\ Invalidated(d).answer = d.answer
      BY <2>1, EntryTypes, EntryData, EntryStage
    <3>3. QED BY <3>1, <3>2 DEF d
  <2>3. CASE m # modelSelected
    BY <1>1, <2>1, <2>3
  <2>4. QED BY <2>2, <2>3
<1>7. modelReported' \in Nat /\ (call.id = modelSelected => modelReported' = call.at)
      /\ (call.id # modelSelected => modelReported' = modelReported)
  BY <1>1, <1>2, <1>5 DEF ModelReport
<1>8. ModelsTypeOK'
  <2>1. modelList' \in Entries(ModelListAnswers)
    BY <1>1, <1>5, EntryTypes
  <2>2. modelDetails' \in [Model -> Entries(Nat)]
    BY <1>1, <1>6
  <2>3. modelCalls' \in [ModelMutation -> ModelCallSet \cup {NoModel}]
    BY <1>3, <1>4, <1>5
  <2>4. QED BY <1>1, <1>7, <2>1, <2>2, <2>3 DEF ModelsInv, ModelsTypeOK
<1>9. ModelCallDiscipline'
  <2>1. \A o \in ModelMutation : modelCalls'[o] # NoModel =>
          \E f \in ModelCallSet : /\ f = modelCalls[o] /\ modelCalls[o] # NoModel
                                  /\ modelCalls'[o].id = f.id /\ modelCalls'[o].at = f.at
    BY <1>1, <1>2, <1>3, <1>4, <1>5
  <2>2. ASSUME NEW o \in ModelMutation, modelCalls'[o] # NoModel
        PROVE  /\ modelCalls'[o].at <= models'[modelCalls'[o].id]
               /\ modelDetails'[modelCalls'[o].id].data # NoData
    <3>1. /\ modelCalls[o] # NoModel /\ modelCalls'[o].id = modelCalls[o].id
          /\ modelCalls'[o].at = modelCalls[o].at
      BY <2>1, <2>2
    <3>2. /\ modelCalls[o].id \in Model /\ modelCalls[o].at <= models[modelCalls[o].id]
          /\ modelDetails[modelCalls[o].id].data # NoData
      BY <3>1, CallKnown
    <3>3. modelDetails'[modelCalls[o].id].data # NoData /\ models' = models
      BY <1>1, <1>6, <3>2
    <3>4. QED BY <3>1, <3>2, <3>3
  <2>3. modelAction' # "none" =>
          modelSelected' # NoModel /\ modelDetails'[modelSelected'].data # NoData
    <3>1. modelAction # "none" =>
            modelSelected \in Model /\ modelSelected # NoModel
            /\ modelDetails[modelSelected].data # NoData
      BY <1>5, CallKnown
    <3>2. QED BY <1>1, <1>6, <3>1
  <2>4. QED BY <2>2, <2>3 DEF ModelCallDiscipline
<1>10. DetailDiscipline'
  <2>1. \A m \in Model : Landing(modelDetails'[m]) => modelDetails'[m].answer # NoData
    BY <1>6, DetailParts DEF ModelsInv
  <2>2. ASSUME modelSelected # NoModel
        PROVE  /\ modelReported' <= models[modelSelected]
               /\ Follows(modelDetails'[modelSelected], modelReported')
    <3>1. modelSelected \in Model
      BY <1>5, <2>2
    <3>2. /\ modelReported <= models[modelSelected]
          /\ Follows(modelDetails[modelSelected], modelReported)
      BY <3>1, EntryKnown
    <3>3. modelReported' <= models[modelSelected]
      BY <1>2, <1>7, <3>2
    <3>4. Landing(modelDetails'[modelSelected]) =>
            /\ Landing(modelDetails[modelSelected]) /\ modelReported' = modelReported
            /\ modelDetails'[modelSelected].answer = modelDetails[modelSelected].answer
      BY <1>2, <1>6, <1>7, <3>1
    <3>5. Fetching(modelDetails'[modelSelected])
      BY <1>6, <3>1
    <3>6. QED BY <3>2, <3>3, <3>4, <3>5 DEF Follows
  <2>3. QED BY <1>1, <2>1, <2>2 DEF DetailDiscipline, Follows, Landing, Fetching
<1>11. QED BY <1>8, <1>9, <1>10 DEF ModelsInv

LEMMA ModelsStep == ASSUME ModelsInv, ModelsNext PROVE ModelsInv'
<1>1. CASE ModelMoves
  BY <1>1, ModelMovesStep
<1>2. CASE FetchesList
  BY <1>2, FetchesListStep
<1>3. CASE FetchesDetails
  BY <1>3, FetchesDetailsStep
<1>4. CASE SelectModel
  BY <1>4, SelectModelStep
<1>5. CASE MovesModelDialog
  BY <1>5, MovesModelDialogStep
<1>6. CASE onConfirm
  BY <1>6, onConfirmStep
<1>7. CASE ServeModelCall
  BY <1>7, ServeModelCallStep
<1>8. CASE ModelReturns
  BY <1>8, ModelReturnsStep
<1>9. CASE EndsModelCall
  BY <1>9, EndsModelCallStep
<1>10. QED
  BY <1>1, <1>2, <1>3, <1>4, <1>5, <1>6, <1>7, <1>8, <1>9
  DEF ModelsNext, FetchesList, FetchesDetails, MovesModelDialog, EndsModelCall

--------------------------------------------------------------------------------
(* The runtime controls of the page "Orchestration". *)

RuntimeInv == RuntimeTypeOK /\ PatchDiscipline

PatchSet == [payload : Service, stage : PatchStage]

\* A press of a button, whatever the page shows, sends two keys that agree.
LEMMA SentAgrees ==
  ASSUME NEW shown, shown.enabled \in BOOLEAN, NEW b \in {"Enable", "Disable", "Manual"}
  PROVE  LET p == Sent(RuntimePayload(shown, b))
         IN p \in PatchSet /\ p.stage = "sent" /\ Agrees(p.payload)
<1> DEFINE q == RuntimePayload(shown, b)
<1>1. q \in Service /\ (q.mode = "auto" => q.enabled = TRUE)
  <2>1. CASE b = "Enable"
    BY <2>1 DEF RuntimePayload, Service, ServiceMode
  <2>2. CASE b = "Disable"
    BY <2>2 DEF RuntimePayload, Service, ServiceMode
  <2>3. CASE b = "Manual"
    BY <2>3 DEF RuntimePayload, Service, ServiceMode
  <2>4. QED BY <2>1, <2>2, <2>3
<1> HIDE DEF q
<1> DEFINE on == q.enabled /\ q.mode # "disabled"
<1>2. Effective(q) = [enabled |-> on, mode |-> q.mode]
  BY <1>1 DEF Effective, Service
<1>3. on \in BOOLEAN /\ (on <=> q.enabled /\ q.mode # "disabled")
  BY Zenon
<1> HIDE DEF on
<1>4. \A c \in BOOLEAN : /\ [enabled |-> c, mode |-> q.mode] \in Service
                         /\ [enabled |-> c, mode |-> q.mode].enabled = c
                         /\ [enabled |-> c, mode |-> q.mode].mode = q.mode
  BY <1>1 DEF Service
<1>5. Effective(q) \in Service
  BY <1>2, <1>3, <1>4, Zenon
<1>6. Effective(q).mode = q.mode /\ Effective(q).enabled = on
  BY <1>2, <1>3, <1>4, Zenon
<1>7. Agrees(Effective(q))
  BY <1>1, <1>3, <1>6, Zenon DEF Agrees
<1>8. /\ Sent(q) \in PatchSet /\ Sent(q).stage = "sent" /\ Sent(q).payload = Effective(q)
  BY <1>5 DEF Sent, PatchSet, PatchStage
<1>9. QED BY <1>7, <1>8 DEF q

\* A write of a PATCH.
LEMMA WriteTypes ==
  ASSUME service \in Service, NEW p \in PatchSet, Write(p)
  PROVE  /\ service' \in Service
         /\ p.stage = "sent" => service'.enabled = p.payload.enabled
         /\ p.stage # "sent" => /\ service'.mode = p.payload.mode
                                /\ service'.enabled = service.enabled
         /\ Written(p) \in PatchSet /\ Written(p).payload = p.payload
         /\ Written(p).stage = IF p.stage = "sent" THEN "half" ELSE "done"
<1>1. /\ p.payload.enabled \in BOOLEAN /\ p.payload.mode \in ServiceMode
      /\ p.payload \in Service
  BY DEF PatchSet, Service
<1>2. /\ Written(p) \in PatchSet /\ Written(p).payload = p.payload
      /\ Written(p).stage = IF p.stage = "sent" THEN "half" ELSE "done"
  BY DEF Written, PatchSet, PatchStage
<1>3. CASE p.stage = "sent"
  <2>1. service' = [service EXCEPT !.enabled = p.payload.enabled]
    BY <1>3, Zenon DEF Write
  <2>2. \A b \in BOOLEAN : /\ [service EXCEPT !.enabled = b] \in Service
                          /\ [service EXCEPT !.enabled = b].enabled = b
    BY DEF Service
  <2> DEFINE b == p.payload.enabled
  <2>3. b \in BOOLEAN /\ service' = [service EXCEPT !.enabled = b]
    BY <1>1, <2>1
  <2> HIDE DEF b
  <2>4. service' \in Service /\ service'.enabled = b
    BY <2>2, <2>3
  <2>5. QED BY <1>2, <1>3, <2>4 DEF b
<1>4. CASE p.stage # "sent"
  <2>1. service' = [service EXCEPT !.mode = p.payload.mode]
    BY <1>4, Zenon DEF Write
  <2>2. \A m \in ServiceMode : /\ [service EXCEPT !.mode = m] \in Service
                              /\ [service EXCEPT !.mode = m].mode = m
                              /\ [service EXCEPT !.mode = m].enabled = service.enabled
    BY DEF Service
  <2>3. /\ service' \in Service /\ service'.mode = p.payload.mode
        /\ service'.enabled = service.enabled
    BY <1>1, <2>1, <2>2, Zenon
  <2>4. QED BY <1>2, <1>4, <2>3
<1>5. QED BY <1>3, <1>4

LEMMA RuntimeStart == RuntimeInit => RuntimeInv
<1> SUFFICES ASSUME RuntimeInit PROVE RuntimeInv
    OBVIOUS
<1> DEFINE on == [enabled |-> TRUE, mode |-> "auto"]
           off == [enabled |-> FALSE, mode |-> "disabled"]
<1>1. service \in Service /\ Agrees(service)
  <2>1. /\ on \in Service /\ on.enabled = TRUE /\ on.mode = "auto"
        /\ off \in Service /\ off.enabled = FALSE /\ off.mode = "disabled"
    BY DEF Service, ServiceMode
  <2>2. service = on \/ service = off
    BY DEF RuntimeInit
  <2> HIDE DEF on, off
  <2>3. QED BY <2>1, <2>2 DEF Agrees
<1>2. serviceList \in Entries(Service) /\ {crowded, halfWritten} \subseteq BOOLEAN
  BY MountedType DEF RuntimeInit
<1>3. RuntimeTypeOK
  BY <1>1, <1>2, RuntimeParameters DEF RuntimeInit, RuntimeTypeOK
<1>4. PatchDiscipline
  BY <1>1 DEF RuntimeInit, PatchDiscipline
<1>5. QED BY <1>3, <1>4 DEF RuntimeInv

\* The list and the reading of it.
ReadsService == RuntimePoll \/ ReadEnabled \/ ReadMode \/ RuntimeLand \/ RuntimeFail

LEMMA ReadsServiceStep == ASSUME RuntimeInv, ReadsService PROVE RuntimeInv'
<1>1. /\ service \in Service /\ serviceList \in Entries(Service)
      /\ reading \in {NoPatch} \cup [enabled : BOOLEAN]
  BY DEF RuntimeInv, RuntimeTypeOK
<1>2. UNCHANGED <<service, patch, stranger, runtimeOps, crowded, halfWritten>>
  BY DEF ReadsService, RuntimePoll, ReadEnabled, ReadMode, RuntimeLand, RuntimeFail, RuntimeFetch
<1>3. reading' \in {NoPatch} \cup [enabled : BOOLEAN]
  <2>1. [enabled |-> service.enabled] \in [enabled : BOOLEAN]
    BY <1>1 DEF Service
  <2>2. reading' \in {NoPatch, reading, [enabled |-> service.enabled]}
    BY DEF ReadsService, RuntimePoll, ReadEnabled, ReadMode, RuntimeLand, RuntimeFail
  <2>3. QED BY <1>1, <2>1, <2>2
<1>4. serviceList' \in Entries(Service)
  <2>1. ASSUME reading # NoPatch
        PROVE  [enabled |-> reading.enabled, mode |-> service.mode] \in Service
    BY <1>1, <2>1 DEF Service
  <2>2. CASE ReadMode
    BY <1>1, <2>1, <2>2, EntryTypes DEF ReadMode, RuntimeFetch
  <2>3. CASE ~ReadMode
    BY <1>1, <2>3, EntryTypes
    DEF ReadsService, RuntimePoll, ReadEnabled, RuntimeLand, RuntimeFail, RuntimeFetch
  <2>4. QED BY <2>2, <2>3
<1>5. RuntimeTypeOK'
  BY <1>2, <1>3, <1>4, Zenon DEF RuntimeInv, RuntimeTypeOK
<1>6. PatchDiscipline'
  BY <1>2, Zenon DEF RuntimeInv, PatchDiscipline
<1>7. QED BY <1>5, <1>6 DEF RuntimeInv

\* A PATCH that may be under way beside a service whose keys are kept; the PATCH of the
\* page and the other one, of which there is one at a time.
Fits(p, kept) == Agrees(p.payload) /\ (p.stage = "half" => kept.enabled = p.payload.enabled)

OneAtATime(own, other, kept, torn) ==
  /\ own = NoPatch \/ other = NoPatch
  /\ other # NoPatch => other.stage # "done"
  /\ (own # NoPatch => Fits(own, kept)) /\ (other # NoPatch => Fits(other, kept))
  /\ (own # NoPatch => own.stage # "half") /\ (other # NoPatch => other.stage # "half")
       => Agrees(kept) \/ torn

LEMMA BothPatches ==
  ASSUME NEW own, NEW other, NEW kept, NEW torn
  PROVE  OneAtATime(own, other, kept, torn) <=>
           /\ own = NoPatch \/ other = NoPatch
           /\ other # NoPatch => other.stage # "done"
           /\ \A p \in {own, other} \ {NoPatch} : Fits(p, kept)
           /\ (\A p \in {own, other} \ {NoPatch} : p.stage # "half") => Agrees(kept) \/ torn
<1>1. \A p : p \in {own, other} \ {NoPatch} <=>
              (p = own /\ own # NoPatch) \/ (p = other /\ other # NoPatch)
  OBVIOUS
<1>2. (\A p \in {own, other} \ {NoPatch} : Fits(p, kept)) <=>
        (own # NoPatch => Fits(own, kept)) /\ (other # NoPatch => Fits(other, kept))
  BY <1>1, Zenon
<1>3. (\A p \in {own, other} \ {NoPatch} : p.stage # "half") <=>
        (own # NoPatch => own.stage # "half") /\ (other # NoPatch => other.stage # "half")
  BY <1>1, Zenon
<1>4. QED BY <1>2, <1>3, Zenon DEF OneAtATime

LEMMA PatchParts ==
  /\ PatchDiscipline <=> (~crowded => OneAtATime(patch, stranger, service, halfWritten))
  /\ PatchDiscipline' <=> (~crowded' => OneAtATime(patch', stranger', service', halfWritten'))
<1>1. PatchDiscipline <=> (~crowded => OneAtATime(patch, stranger, service, halfWritten))
  BY BothPatches, Zenon DEF PatchDiscipline, Fits, Agrees
<1>2. PatchDiscipline' <=> (~crowded' => OneAtATime(patch', stranger', service', halfWritten'))
  BY BothPatches, Zenon DEF PatchDiscipline, Fits, Agrees
<1>3. QED BY <1>1, <1>2

\* A PATCH is sent, by this page or by another.
Presses == PressRuntime \/ StrangerPresses

LEMMA PressesStep == ASSUME RuntimeInv, Presses PROVE RuntimeInv'
<1>1. /\ service \in Service /\ serviceList \in Entries(Service) /\ crowded \in BOOLEAN
      /\ patch \in {NoPatch} \cup PatchSet /\ stranger \in {NoPatch} \cup PatchSet
  BY DEF RuntimeInv, RuntimeTypeOK, PatchSet
<1>2. /\ runtimeOps' \in 0..MaxRuntimeOps
      /\ UNCHANGED <<service, serviceList, reading, halfWritten>>
  BY RuntimeParameters
  DEF Presses, PressRuntime, StrangerPresses, RuntimeOp, RuntimeInv, RuntimeTypeOK
<1>3. crowded' \in BOOLEAN
  BY Zenon DEF Presses, PressRuntime, StrangerPresses
<1>4. ASSUME patch' \in {NoPatch} \cup PatchSet, stranger' \in {NoPatch} \cup PatchSet
      PROVE  RuntimeTypeOK'
  BY <1>2, <1>3, <1>4, Zenon DEF RuntimeInv, RuntimeTypeOK, PatchSet
<1>5. CASE PressRuntime
  <2>1. /\ patch = NoPatch /\ serviceList.data # NoData /\ stranger' = stranger
        /\ crowded' = (crowded \/ stranger # NoPatch)
        /\ \E b \in RuntimeButtons(serviceList.data) :
             patch' = Sent(RuntimePayload(serviceList.data, b))
    BY <1>5, Zenon DEF PressRuntime
  <2>2. serviceList.data.enabled \in BOOLEAN
    BY <1>1, <2>1 DEF Entries, Service
  <2>3. RuntimeButtons(serviceList.data) \subseteq {"Enable", "Disable", "Manual"}
    BY DEF RuntimeButtons
  <2>4. patch' \in PatchSet /\ patch'.stage = "sent" /\ Agrees(patch'.payload)
    BY <2>1, <2>2, <2>3, SentAgrees
  <2>5. RuntimeTypeOK'
    BY <1>1, <1>4, <2>1, <2>4
  <2>6. ~crowded' => ~crowded /\ stranger = NoPatch
    BY <2>1, Zenon
  <2>7. ~crowded' => Agrees(service) \/ halfWritten
    BY <2>1, <2>6, PatchParts, Zenon DEF RuntimeInv, OneAtATime
  <2>8. PatchDiscipline'
    <3>1. patch'.stage # "half" /\ service' = service /\ halfWritten' = halfWritten
      BY <1>2, <2>4
    <3>2. ~crowded' => OneAtATime(patch', stranger', service', halfWritten')
      BY <2>1, <2>4, <2>6, <2>7, <3>1, Zenon DEF OneAtATime, Fits
    <3>3. QED BY <3>2, PatchParts
  <2>9. QED BY <2>5, <2>8 DEF RuntimeInv
<1>6. CASE StrangerPresses
  <2>1. /\ stranger = NoPatch /\ patch' = patch
        /\ crowded' = (crowded \/ patch # NoPatch)
        /\ \E e \in BOOLEAN : \E b \in {"Enable", "Disable", "Manual"} :
             stranger' = Sent(RuntimePayload([enabled |-> e, mode |-> service.mode], b))
    BY <1>6, Zenon DEF StrangerPresses
  <2>2. \A e \in BOOLEAN : [enabled |-> e, mode |-> service.mode].enabled \in BOOLEAN
    OBVIOUS
  <2>3. stranger' \in PatchSet /\ stranger'.stage = "sent" /\ Agrees(stranger'.payload)
    BY <2>1, <2>2, SentAgrees
  <2>4. RuntimeTypeOK'
    BY <1>1, <1>4, <2>1, <2>3
  <2>5. ~crowded' => ~crowded /\ patch = NoPatch
    BY <2>1, Zenon
  <2>6. ~crowded' => Agrees(service) \/ halfWritten
    BY <2>1, <2>5, PatchParts, Zenon DEF RuntimeInv, OneAtATime
  <2>7. PatchDiscipline'
    <3>1. stranger'.stage # "half" /\ stranger'.stage # "done" /\ service' = service /\ halfWritten' = halfWritten
      BY <1>2, <2>3
    <3>2. ~crowded' => OneAtATime(patch', stranger', service', halfWritten')
      BY <2>1, <2>3, <2>5, <2>6, <3>1, Zenon DEF OneAtATime, Fits
    <3>3. QED BY <3>2, PatchParts
  <2>8. QED BY <2>4, <2>7 DEF RuntimeInv
<1>7. QED BY <1>5, <1>6 DEF Presses

\* dashboard-backend writes a key.
Serves == ServePatch \/ ServeStranger

LEMMA ServesStep == ASSUME RuntimeInv, Serves PROVE RuntimeInv'
<1>1. /\ service \in Service /\ crowded \in BOOLEAN
      /\ patch \in {NoPatch} \cup PatchSet /\ stranger \in {NoPatch} \cup PatchSet
  BY DEF RuntimeInv, RuntimeTypeOK, PatchSet
<1>2. UNCHANGED <<serviceList, reading, runtimeOps, crowded>>
  BY DEF Serves, ServePatch, ServeStranger
<1>3. ASSUME service' \in Service, patch' \in {NoPatch} \cup PatchSet,
             stranger' \in {NoPatch} \cup PatchSet
      PROVE  RuntimeTypeOK'
  <2>1. halfWritten' \in BOOLEAN
    BY Zenon DEF Serves, ServePatch, ServeStranger, Write
  <2>2. crowded' \in BOOLEAN
    BY <1>1, <1>2
  <2>3. QED BY <1>2, <1>3, <2>1, <2>2, Zenon DEF RuntimeInv, RuntimeTypeOK, PatchSet
\* The write of a PATCH beside which there is no other.
<1>4. ASSUME NEW p \in PatchSet, Fits(p, service), p.stage # "done", Write(p),
             p.stage # "half" => Agrees(service) \/ halfWritten
      PROVE  /\ Agrees(Written(p).payload)
             /\ Written(p).stage = "half" => service'.enabled = Written(p).payload.enabled
             /\ Written(p).stage = "done" => Agrees(service')
  <2>1. /\ p.stage = "sent" => service'.enabled = p.payload.enabled
        /\ p.stage # "sent" => /\ service'.mode = p.payload.mode
                               /\ service'.enabled = service.enabled
        /\ Written(p).payload = p.payload
        /\ Written(p).stage = IF p.stage = "sent" THEN "half" ELSE "done"
    BY <1>1, <1>4, WriteTypes
  <2>2. p.stage \in {"sent", "half"}
    BY <1>4 DEF PatchSet, PatchStage
  <2>3. CASE p.stage = "sent"
    <3>1. Written(p).stage = "half" /\ Written(p).stage # "done"
      BY <2>1, <2>3
    <3>2. QED BY <1>4, <2>1, <2>3, <3>1, Zenon DEF Fits
  <2>4. CASE p.stage = "half"
    <3>1. Written(p).stage = "done" /\ Written(p).stage # "half" /\ p.stage # "sent"
      BY <2>1, <2>4
    <3>2. QED BY <1>4, <2>1, <2>4, <3>1, Zenon DEF Fits, Agrees
  <2>5. QED BY <2>2, <2>3, <2>4
<1>5. CASE ServePatch
  <2>1. /\ patch # NoPatch /\ patch.stage # "done" /\ Write(patch) /\ patch' = Written(patch)
        /\ stranger' = stranger
    BY <1>5 DEF ServePatch
  <2>2. service' \in Service /\ patch' \in PatchSet
    BY <1>1, <2>1, WriteTypes
  <2>3. RuntimeTypeOK'
    BY <1>1, <1>3, <2>1, <2>2
  <2>4. PatchDiscipline'
    <3>1. CASE crowded
      BY <1>2, <3>1, PatchParts, Zenon
    <3>2. CASE ~crowded
      <4>1. /\ stranger = NoPatch /\ Fits(patch, service)
            /\ patch.stage # "half" => Agrees(service) \/ halfWritten
        BY <2>1, <3>2, PatchParts, Zenon DEF RuntimeInv, OneAtATime
      <4>2. patch \in PatchSet
        BY <1>1, <2>1
      <4>3. /\ Agrees(patch'.payload)
            /\ patch'.stage = "half" => service'.enabled = patch'.payload.enabled
            /\ patch'.stage = "done" => Agrees(service')
        BY <1>4, <2>1, <4>1, <4>2
      <4>4. patch'.stage \in {"half", "done"}
        BY <1>1, <2>1, <4>2, WriteTypes
      <4>5. patch'.stage # "half" => patch'.stage = "done"
        BY <4>4
      <4>6. patch' # NoPatch /\ stranger' = NoPatch
        BY <2>1, <2>2, <4>1, NoPatchIsNone DEF PatchSet
      <4>7. OneAtATime(patch', stranger', service', halfWritten')
        BY <4>3, <4>5, <4>6, Zenon DEF OneAtATime, Fits
      <4>8. QED BY <4>7, PatchParts
    <3>3. QED BY <3>1, <3>2
  <2>5. QED BY <2>3, <2>4 DEF RuntimeInv
<1>6. CASE ServeStranger
  <2>1. /\ stranger # NoPatch /\ Write(stranger) /\ patch' = patch
        /\ stranger' = IF Written(stranger).stage = "done" THEN NoPatch ELSE Written(stranger)
    BY <1>6 DEF ServeStranger
  <2>2. /\ service' \in Service /\ Written(stranger) \in PatchSet
        /\ Written(stranger).stage \in {"half", "done"}
    BY <1>1, <2>1, WriteTypes
  <2>3. RuntimeTypeOK'
    BY <1>1, <1>3, <2>1, <2>2
  <2>4. PatchDiscipline'
    <3>1. CASE crowded
      BY <1>2, <3>1, PatchParts, Zenon
    <3>2. CASE ~crowded
      <4>1. /\ patch = NoPatch /\ Fits(stranger, service) /\ stranger.stage # "done"
            /\ stranger.stage # "half" => Agrees(service) \/ halfWritten
        BY <2>1, <3>2, PatchParts, Zenon DEF RuntimeInv, OneAtATime
      <4>2. stranger \in PatchSet
        BY <1>1, <2>1
      <4>3. /\ Agrees(Written(stranger).payload)
            /\ Written(stranger).stage = "half" =>
                 service'.enabled = Written(stranger).payload.enabled
            /\ Written(stranger).stage = "done" => Agrees(service')
        BY <1>4, <2>1, <4>1, <4>2
      <4>4. CASE Written(stranger).stage = "done"
        <5>1. stranger' = NoPatch
          BY <2>1, <4>4
        <5>2. OneAtATime(patch', stranger', service', halfWritten')
          BY <2>1, <4>1, <4>3, <4>4, <5>1, Zenon DEF OneAtATime, Fits
        <5>3. QED BY <5>2, PatchParts
      <4>5. CASE Written(stranger).stage = "half"
        <5>1. /\ Agrees(stranger'.payload) /\ stranger'.stage = "half"
              /\ stranger'.stage # "done" /\ service'.enabled = stranger'.payload.enabled
          BY <2>1, <4>3, <4>5
        <5>2. patch' = NoPatch /\ stranger' # NoPatch
          BY <2>1, <2>2, <4>1, <4>5, NoPatchIsNone DEF PatchSet
        <5>3. OneAtATime(patch', stranger', service', halfWritten')
          BY <5>1, <5>2, Zenon DEF OneAtATime, Fits
        <5>4. QED BY <5>3, PatchParts
      <4>6. QED BY <2>2, <4>4, <4>5
    <3>3. QED BY <3>1, <3>2
  <2>5. QED BY <2>3, <2>4 DEF RuntimeInv
<1>7. QED BY <1>5, <1>6 DEF Serves

\* The page learns of its PATCH, or gives it up.
EndsPatch == PatchReturns \/ PatchLost

LEMMA EndsPatchStep == ASSUME RuntimeInv, EndsPatch PROVE RuntimeInv'
<1>1. /\ service \in Service /\ serviceList \in Entries(Service) /\ crowded \in BOOLEAN
      /\ reading \in {NoPatch} \cup [enabled : BOOLEAN] /\ runtimeOps \in 0..MaxRuntimeOps
      /\ patch \in {NoPatch} \cup PatchSet /\ stranger \in {NoPatch} \cup PatchSet
  BY DEF RuntimeInv, RuntimeTypeOK, PatchSet
<1>2. /\ UNCHANGED <<service, crowded, halfWritten>> /\ patch' = NoPatch /\ patch # NoPatch
      /\ \/ patch.stage = "done" /\ stranger' = stranger
         \/ patch.stage # "done" /\ stranger = NoPatch /\ stranger' = patch
  BY DEF EndsPatch, PatchReturns, PatchLost
<1>3. serviceList' \in Entries(Service) /\ reading' \in {NoPatch, reading}
      /\ runtimeOps' \in 0..MaxRuntimeOps
  BY <1>1, EntryTypes, RuntimeParameters DEF EndsPatch, PatchReturns, PatchLost, RuntimeOp
<1>4. stranger' \in {NoPatch} \cup PatchSet
  BY <1>1, <1>2
<1>5. reading' \in {NoPatch} \cup [enabled : BOOLEAN]
  BY <1>1, <1>3
<1>6. RuntimeTypeOK'
  <2>1. {crowded', halfWritten'} \subseteq BOOLEAN
    BY <1>2, Zenon DEF RuntimeInv, RuntimeTypeOK
  <2>2. QED BY <1>1, <1>2, <1>3, <1>4, <1>5, <2>1, Zenon DEF RuntimeTypeOK, PatchSet
<1>7. PatchDiscipline'
  <2>1. CASE patch.stage = "done" /\ stranger' = stranger
    <3>1. patch.stage # "half"
      BY <2>1
    <3>2. ~crowded => stranger = NoPatch /\ (Agrees(service) \/ halfWritten)
      BY <1>2, <3>1, PatchParts, Zenon DEF RuntimeInv, OneAtATime
    <3>3. ~crowded => OneAtATime(patch', stranger', service', halfWritten')
      BY <1>2, <2>1, <3>2, Zenon DEF OneAtATime
    <3>4. QED BY <1>2, <3>3, PatchParts, Zenon
  <2>2. CASE patch.stage # "done" /\ stranger = NoPatch /\ stranger' = patch
    <3>1. ~crowded => OneAtATime(patch', stranger', service', halfWritten')
      BY <1>2, <2>2, PatchParts, Zenon DEF RuntimeInv, OneAtATime
    <3>2. QED BY <1>2, <3>1, PatchParts, Zenon
  <2>3. QED BY <1>2, <2>1, <2>2
<1>8. QED BY <1>6, <1>7 DEF RuntimeInv

\* A PATCH fails.
LEMMA FailsPatchStep == ASSUME RuntimeInv, PatchFails PROVE RuntimeInv'
<1>1. /\ runtimeOps' \in 0..MaxRuntimeOps /\ UNCHANGED <<service, serviceList, reading, crowded>>
      /\ halfWritten' \in BOOLEAN
      /\ {patch', stranger'} \subseteq {NoPatch, patch, stranger}
  <2>1. halfWritten' \in BOOLEAN
    BY Zenon DEF PatchFails
  <2>2. QED BY <2>1, RuntimeParameters DEF PatchFails, RuntimeOp, RuntimeInv, RuntimeTypeOK
<1>2. RuntimeTypeOK'
  BY <1>1, Zenon DEF RuntimeInv, RuntimeTypeOK
<1>3. /\ patch' = patch \/ patch' = NoPatch
      /\ stranger' = stranger \/ stranger' = NoPatch
      /\ halfWritten => halfWritten'
      /\ patch # NoPatch /\ patch' = NoPatch /\ patch.stage = "half" => halfWritten'
      /\ stranger # NoPatch /\ stranger' = NoPatch /\ stranger.stage = "half" => halfWritten'
  BY Zenon DEF PatchFails
<1>4. ~crowded' => OneAtATime(patch', stranger', service', halfWritten')
  <2>1. ~crowded => OneAtATime(patch, stranger, service, halfWritten)
    BY PatchParts DEF RuntimeInv
  <2>2. QED BY <1>1, <1>3, <2>1, Zenon DEF OneAtATime
<1>5. QED BY <1>2, <1>4, PatchParts DEF RuntimeInv

LEMMA RuntimeStep == ASSUME RuntimeInv, RuntimeNext PROVE RuntimeInv'
<1>1. CASE ReadsService
  BY <1>1, ReadsServiceStep
<1>2. CASE Presses
  BY <1>2, PressesStep
<1>3. CASE Serves
  BY <1>3, ServesStep
<1>4. CASE EndsPatch
  BY <1>4, EndsPatchStep
<1>5. CASE PatchFails
  BY <1>5, FailsPatchStep
<1>6. QED
  BY <1>1, <1>2, <1>3, <1>4, <1>5 DEF RuntimeNext, ReadsService, Presses, Serves, EndsPatch

LEMMA KeysAgree == RuntimeInv => ServiceKeysAgree
BY PatchParts, Zenon DEF RuntimeInv, ServiceKeysAgree, OneAtATime, Agrees

--------------------------------------------------------------------------------
(* All pages. *)

ConsolesInv == UsersInv /\ SchedulesInv /\ CtlInv /\ ModelsInv /\ RuntimeInv

LEMMA ConsolesStart == ConsolesInit => ConsolesInv
BY UsersStart, SchedulesStart, CtlStart, ModelsStart, RuntimeStart, Zenon
DEF ConsolesInit, ConsolesInv

\* Only the page that is mounted moves.
LEMMA OnePageMoves ==
  ASSUME [ConsolesNext]_consolesVars
  PROVE  /\ UsersNext \/ UNCHANGED usersVars
         /\ SchedulesNext \/ UNCHANGED schedulesVars
         /\ CtlNext \/ UNCHANGED ctlVars
         /\ ModelsNext \/ UNCHANGED modelsVars
         /\ RuntimeNext \/ UNCHANGED runtimeVars
<1>1. CASE ConsolesNext
  BY <1>1, Zenon DEF ConsolesNext, At
<1>2. CASE UNCHANGED consolesVars
  <2>1. UNCHANGED <<usersVars, schedulesVars, ctlVars, modelsVars, runtimeVars>>
    BY <1>2 DEF consolesVars
  <2>2. QED BY <2>1
<1>3. QED BY <1>1, <1>2

LEMMA UsersKept == ASSUME UsersInv, UNCHANGED usersVars PROVE UsersInv'
<1>1. UNCHANGED <<accounts, userList, editing, resetFor, newPassword, createForm,
                  userCalls, userOps, lastUpdate>>
  BY DEF usersVars
<1>2. UsersTypeOK' /\ SelfDiscipline'
  BY <1>1, Zenon DEF UsersInv, UsersTypeOK, SelfDiscipline
<1>3. CallDiscipline'
  BY <1>1, Zenon DEF UsersInv, CallDiscipline
<1>4. QED BY <1>2, <1>3 DEF UsersInv

LEMMA SchedulesKept == ASSUME SchedulesInv, UNCHANGED schedulesVars PROVE SchedulesInv'
<1>1. UNCHANGED <<schedules, scheduleList, scheduleForm, scheduleModal, scheduleCall,
                  scheduleOps, reportedGone>>
  BY DEF schedulesVars
<1>2. SchedulesTypeOK' /\ EditKeepsCron'
  BY <1>1, Zenon DEF SchedulesInv, SchedulesTypeOK, EditKeepsCron, Existing
<1>3. FormDiscipline' /\ ListDiscipline'
  BY <1>1, Zenon DEF SchedulesInv, FormDiscipline, ListDiscipline, Taken, scheduleBusy
<1>4. QED BY <1>2, <1>3 DEF SchedulesInv

LEMMA CtlKept == ASSUME CtlInv, UNCHANGED ctlVars PROVE CtlInv'
<1>1. UNCHANGED <<ctlActions, ctlVersion, ctlSaves, overtaken, ctlList, ctlTab, ctlError,
                  ctlCalls, ctlOps, ctlAcked>>
  BY DEF ctlVars
<1>2. CtlTypeOK'
  BY <1>1, Zenon DEF CtlInv, CtlTypeOK
<1>3. CtlCallDiscipline' /\ CtlListDiscipline'
  BY <1>1, Zenon DEF CtlInv, CtlCallDiscipline, CtlListDiscipline, Still
<1>4. SaveDiscipline'
  BY <1>1, Zenon DEF CtlInv, SaveDiscipline, Still
<1>5. QED BY <1>2, <1>3, <1>4 DEF CtlInv

LEMMA ModelsKept == ASSUME ModelsInv, UNCHANGED modelsVars PROVE ModelsInv'
<1>1. UNCHANGED <<models, modelList, modelDetails, modelStale, modelSelected, modelAction,
                  modelCalls, modelOps, modelReported>>
  BY DEF modelsVars
<1>2. ModelsTypeOK'
  BY <1>1, Zenon DEF ModelsInv, ModelsTypeOK
<1>3. ModelCallDiscipline' /\ DetailDiscipline'
  BY <1>1, Zenon DEF ModelsInv, ModelCallDiscipline, DetailDiscipline
<1>4. QED BY <1>2, <1>3 DEF ModelsInv

LEMMA RuntimeKept == ASSUME RuntimeInv, UNCHANGED runtimeVars PROVE RuntimeInv'
<1>1. UNCHANGED <<service, serviceList, reading, patch, stranger, runtimeOps, crowded,
                  halfWritten>>
  BY DEF runtimeVars
<1>2. RuntimeTypeOK'
  BY <1>1, Zenon DEF RuntimeInv, RuntimeTypeOK
<1>3. PatchDiscipline'
  BY <1>1, PatchParts, Zenon DEF RuntimeInv
<1>4. QED BY <1>2, <1>3 DEF RuntimeInv

LEMMA ConsolesStep == ASSUME ConsolesInv, [ConsolesNext]_consolesVars PROVE ConsolesInv'
<1>1. UsersInv'
  BY OnePageMoves, UsersStep, UsersKept DEF ConsolesInv
<1>2. SchedulesInv'
  BY OnePageMoves, SchedulesStep, SchedulesKept DEF ConsolesInv
<1>3. CtlInv'
  BY OnePageMoves, CtlStep, CtlKept DEF ConsolesInv
<1>4. ModelsInv'
  BY OnePageMoves, ModelsStep, ModelsKept DEF ConsolesInv
<1>5. RuntimeInv'
  BY OnePageMoves, RuntimeStep, RuntimeKept DEF ConsolesInv
<1>6. QED BY <1>1, <1>2, <1>3, <1>4, <1>5 DEF ConsolesInv

LEMMA ConsolesInvHolds == ConsolesSpec => []ConsolesInv
<1>1. ConsolesInv /\ [ConsolesNext]_consolesVars => ConsolesInv'
  BY ConsolesStep
<1>2. QED BY <1>1, ConsolesStart, PTL DEF ConsolesSpec

\* For every set of users, schedules, actions and models and every bound, all pages
\* keep the types of their state, and of the operator's own account they change the
\* password only.
THEOREM ConsolesTypesHold == ConsolesSpec => []ConsolesTypeOK
<1>1. ConsolesInv => ConsolesTypeOK
  BY Zenon DEF ConsolesInv, ConsolesTypeOK, UsersInv, SchedulesInv, CtlInv, ModelsInv, RuntimeInv
<1>2. QED BY <1>1, ConsolesInvHolds, PTL

--------------------------------------------------------------------------------
(* What was reported. *)

LEMMA GoneIsGone == SchedulesInv => GoneStaysGone
<1> SUFFICES ASSUME SchedulesInv, ~Fetching(scheduleList), ScheduleTable, NEW id \in reportedGone
             PROVE  id \notin ScheduleRows
    BY DEF GoneStaysGone
<1>1. ~scheduleList.error
  BY DEF ScheduleTable
<1>2. scheduleList.data # NoData /\ scheduleList.data[id] = Past
  BY <1>1, Zenon DEF SchedulesInv, ListDiscipline
<1>3. QED BY <1>2, Zenon DEF ScheduleRows

LEMMA ActionsFollow == CtlInv => ActionsAreFresh
BY Zenon DEF CtlInv, CtlListDiscipline, ActionsAreFresh

LEMMA DetailsFollow == ModelsInv => DetailsFollowReports
<1> SUFFICES ASSUME ModelsInv, DetailsBody = "details",
                    ~Fetching(modelDetails[modelSelected]), ~modelDetails[modelSelected].error
             PROVE  modelDetails[modelSelected].data >= modelReported
    BY DEF DetailsFollowReports
<1>1. modelSelected # NoModel /\ modelDetails[modelSelected].data # NoData
  BY DEF DetailsBody
<1>2. QED BY <1>1, Zenon DEF ModelsInv, DetailDiscipline

\* For every number of operators' calls, of polls and of failures: no page shows what it
\* has reported as done undone by an answer from before, and the keys of a runtime
\* service agree when their writers are done.
THEOREM ReportsHold == ConsolesSpec => []ReportsAgree
<1>1. ConsolesInv => ReportsAgree
  BY GoneIsGone, ActionsFollow, DetailsFollow, KeysAgree, Zenon DEF ConsolesInv, ReportsAgree
<1>2. QED BY <1>1, ConsolesInvHolds, PTL

--------------------------------------------------------------------------------
(* What is changed. *)

\* For every number of operators and however stale their pages are: roles, passwords,
\* toggles, the times of schedules and what is applied to the network change only as
\* their operators saw or chose it.
THEOREM NothingUnseenHolds == ConsolesSpec => NothingUnseenIsChanged
<1>1. ConsolesInv => PasswordOfItsAccount /\ EditKeepsCron
  BY Zenon DEF ConsolesInv, UsersInv, CallDiscipline, PasswordOfItsAccount, SchedulesInv
<1>2. ConsolesInv /\ [ConsolesNext]_consolesVars =>
        [\A c \in userCalls :
           ServedCall(c) /\ c.kind # "create" /\ accounts'[c.id].role # accounts[c.id].role
             => c.chosen]_usersVars
  BY OnePageMoves, ServedAsChosen DEF ConsolesInv
<1>3. ConsolesInv /\ [ConsolesNext]_consolesVars =>
        [\A c \in userCalls :
           ServedCall(c) /\ c.kind = "toggle" => accounts'[c.id].status = c.status]_usersVars
  BY OnePageMoves, ServedAsChosen DEF ConsolesInv
<1>4. ConsolesInv /\ [ConsolesNext]_consolesVars =>
        [\A id \in Existing :
           /\ schedules'[id] # schedules[id] /\ schedules'[id] # Past
           /\ scheduleOps' = scheduleOps
           /\ schedules'[id].cron # schedules[id].cron
           => scheduleForm.id = id]_schedulesVars
  BY OnePageMoves, OnlyFormsChangeTimes DEF ConsolesInv
<1>5. ConsolesInv /\ [ConsolesNext]_consolesVars =>
        [\A c \in ctlCalls :
           /\ c.stage = "sent" /\ c.op = "execute" /\ c.id \notin overtaken
           /\ [c EXCEPT !.stage = "decided"] \in ctlCalls'
           => ctlActions[c.id].type = c.shown]_ctlVars
  BY ExecutedIsShown DEF ConsolesInv
<1>6. QED
  BY <1>1, <1>2, <1>3, <1>4, <1>5, ConsolesInvHolds, PTL
  DEF ConsolesSpec, NothingUnseenIsChanged, NoLostRoleChange, ToggleDoesAsItSaid,
      ButtonsKeepTheRest, ExecutedAsShown

================================================================================
