---------------------------- MODULE DashboardProofs ----------------------------
(***************************************************************************)
(* Machine-checked proofs about the parts of the dashboard that are not    *)
(* consoles: DashboardSession, for every number of sessions, calls and     *)
(* upsets, and the views of MCViews, for every set of requests, runs,      *)
(* categories, entities and operators and every bound.                     *)
(***************************************************************************)
EXTENDS MCViews, DashboardSession, FiniteSetTheorems, SequenceTheorems,
        WellFoundedInduction, TLAPS

--------------------------------------------------------------------------------
(* The inductive invariants of DashboardSession. *)

\* The calls of the login page and of signing out.
SignTypeOK ==
  /\ signIn \in [stage : {"idle", "sent", "served"}, token : Token \cup {NoToken}]
  /\ signOut \in [stage : {"idle", "sent", "served"}, token : Token \cup {NoToken}]
  /\ signIn.token # NoToken <=> signIn.stage = "served"
  /\ refresh.stage = "idle" => refresh.token = NoToken

\* A token was issued by a session that was opened.
Issued(t) == t # NoToken => sessions[t.sid].gen > 0

\* A tab that is alone holds current tokens, of sessions that were opened: only while
\* the answer to a refresh is on its way is the cookie that was sent behind its session.
\* A session that a login has just opened is that of no other token.
RefreshDiscipline ==
  ~disturbed =>
    /\ strays = {}
    /\ Issued(cookie) /\ Issued(refresh.token) /\ Issued(signIn.token)
    /\ ~Collides(refresh.token) /\ ~Collides(signIn.token)
    /\ Collides(cookie) =>
         refresh.stage = "served" /\ refresh.token # NoToken /\ refresh.token.sid = cookie.sid
    /\ signIn.token # NoToken =>
         \A t \in {cookie, refresh.token} \ {NoToken} : t.sid # signIn.token.sid

--------------------------------------------------------------------------------
(* The session of a tab: types. *)

Held == Token \cup {NoToken}

CallRecord == [stage : {"idle", "sent", "denied", "waiting", "resent"}, token : Held]

TripRecord == [stage : {"idle", "sent", "served"}, token : Held]

\* The types of the server and the browser, of the tab, and of what is true or false.
SharedTypes ==
  /\ sessions \in [Session -> [alive : BOOLEAN, gen : Nat, expired : Nat]]
  /\ cookie \in Held /\ strays \subseteq Held

TabTypes ==
  /\ token \in Held /\ location \in {"login", "inside"}
  /\ refresh \in TripRecord /\ calls \in [ApiCall -> CallRecord]
  /\ \A c \in ApiCall : calls[c].stage = "waiting" => refresh.stage # "idle"
  /\ SignTypeOK

Flags == isLoading \in BOOLEAN /\ disturbed \in BOOLEAN /\ collided \in BOOLEAN

LEMMA TypeParts ==
  SessionTypeOK /\ SignTypeOK <=> SharedTypes /\ TabTypes /\ Flags /\ upsets \in 0..MaxUpsets
BY DEF SessionTypeOK, SharedTypes, TabTypes, Flags, CallRecord, TripRecord, Held, Waiters

\* Calls and trips that have not begun, or have just been sent.
LEMMA Records ==
  /\ IdleCall \in CallRecord /\ IdleCall \in TripRecord
  /\ IdleCall.stage = "idle" /\ IdleCall.token = NoToken
  /\ \A t \in Held : /\ RefreshSent(t) \in TripRecord
                     /\ RefreshSent(t).stage = "sent" /\ RefreshSent(t).token = t
BY DEF IdleCall, RefreshSent, CallRecord, TripRecord, Held

LEMMA TypeInit == SessionInit => SessionTypeOK /\ SignTypeOK
<1> SUFFICES ASSUME SessionInit
             PROVE  SharedTypes /\ TabTypes /\ Flags /\ upsets \in 0..MaxUpsets
    BY TypeParts
<1>1. cookie \in Held
  BY DEF SessionInit, Held, Token
<1>2. SharedTypes
  BY <1>1 DEF SessionInit, SharedTypes, NewSession, NoSession
<1>3. TabTypes
  BY <1>1, Records DEF SessionInit, TabTypes, SignTypeOK, TripRecord, Held
<1>4. Flags
  BY DEF SessionInit, Flags
<1>5. upsets \in 0..MaxUpsets
  BY SessionParameters DEF SessionInit, SessionParameters
<1>6. QED BY <1>2, <1>3, <1>4, <1>5

\* A tab that starts.
LEMMA StartedTypes ==
  ASSUME NEW carried \in Held, NEW at \in {"login", "inside"}, Started(carried, at)
  PROVE  TabTypes'
BY Records DEF Started, TabTypes, SignTypeOK, TripRecord, Held

\* A tab that gives up its token.
LEMMA GivenUpTypes ==
  ASSUME SharedTypes, TabTypes, GivenUp
  PROVE  TabTypes'
<1>1. CASE Waiters # {} /\ location = "inside"
  <2>1. Started(cookie, "login")
    BY <1>1 DEF GivenUp
  <2>2. QED BY <2>1, StartedTypes DEF SharedTypes
<1>2. CASE ~(Waiters # {} /\ location = "inside")
  <2>1. UNCHANGED <<location, signIn, signOut>> /\ token' = NoToken /\ refresh' = IdleCall
    BY <1>2 DEF GivenUp, signVars
  <2>2. calls' \in [ApiCall -> CallRecord] /\ \A c \in ApiCall : calls'[c].stage # "waiting"
    BY <1>2, Records DEF GivenUp, TabTypes, Waiters
  <2>3. QED BY <2>1, <2>2, Records DEF TabTypes, SignTypeOK, Held
<1>3. QED BY <1>1, <1>2

\* A session whose token is used.
LEMMA ServedTypes ==
  ASSUME SharedTypes, NEW t \in Held, RefreshServed(t)
  PROVE  /\ sessions' \in [Session -> [alive : BOOLEAN, gen : Nat, expired : Nat]]
         /\ Renewed(t) \in Held
<1>1. CASE t = NoToken
  BY <1>1 DEF RefreshServed, Renewed, Alive, Held, SharedTypes
<1>2. CASE t \in Token
  <2>1. t.sid \in Session /\ t.gen \in Nat
    BY <1>2 DEF Token
  <2>2. sessions' \in [Session -> [alive : BOOLEAN, gen : Nat, expired : Nat]]
    <3>1. CASE UNCHANGED sessions
      BY <3>1 DEF SharedTypes
    <3>2. CASE sessions' = [sessions EXCEPT ![t.sid].gen = @ + 1]
      BY <2>1, <3>2 DEF SharedTypes
    <3>3. CASE sessions' = [sessions EXCEPT ![t.sid].alive = FALSE]
      BY <2>1, <3>3 DEF SharedTypes
    <3>4. QED BY <3>1, <3>2, <3>3 DEF RefreshServed, Rotated
  <2>3. Renewed(t) \in Held
    BY <2>1 DEF Renewed, Held, Token
  <2>4. QED BY <2>2, <2>3
<1>3. QED BY <1>1, <1>2 DEF Held

\* What steps do to the flags and to the count of upsets.
LEMMA FlagStep == Flags /\ [SessionNext]_sessionVars => Flags'
BY Zenon
DEF Flags, SessionNext, Reload, Started, SendCall, ServeCall, Denied, CallFails, ServeRefresh,
    RefreshServed, RefreshLands, RefreshRefused, RefreshLost, GivenUp, OtherTabRefresh, ServeStray,
    Redirect, SubmitLogin, ServeLogin, LoginLands, SignOut, ServeSignOut, SignOutLands,
    SignOutFails, ServerUpset, historyVars, sessionVars

LEMMA UpsetStep ==
  upsets \in 0..MaxUpsets /\ [SessionNext]_sessionVars => upsets' \in 0..MaxUpsets
<1> SUFFICES ASSUME upsets \in 0..MaxUpsets, [SessionNext]_sessionVars
             PROVE  upsets' \in 0..MaxUpsets
    OBVIOUS
<1>1. Upset \/ UNCHANGED upsets
  BY DEF SessionNext, Reload, SendCall, ServeCall, Denied, CallFails, ServeRefresh,
         RefreshLands, RefreshRefused, RefreshLost, OtherTabRefresh, ServeStray,
         Redirect, SubmitLogin, ServeLogin, LoginLands, SignOut, ServeSignOut, SignOutLands,
         SignOutFails, ServerUpset, historyVars, sessionVars
<1>2. QED BY <1>1, SessionParameters DEF Upset, SessionParameters

LEMMA SharedStep == SharedTypes /\ TabTypes /\ [SessionNext]_sessionVars => SharedTypes'
<1> SUFFICES ASSUME SharedTypes, TabTypes, [SessionNext]_sessionVars
             PROVE  SharedTypes'
    OBVIOUS
<1>1. CASE UNCHANGED <<sessions, cookie, strays>>
  BY <1>1 DEF SharedTypes
<1>2. CASE ServeRefresh
  <2>1. refresh.token \in Held
    BY DEF TabTypes, TripRecord
  <2>2. QED BY <1>2, <2>1, ServedTypes DEF ServeRefresh, SharedTypes
<1>3. CASE ServeStray
  <2>1. PICK t \in strays : /\ RefreshServed(t) /\ strays' = strays \ {t}
                            /\ cookie' \in {cookie} \cup ({Renewed(t)} \ {NoToken})
    BY <1>3 DEF ServeStray
  <2>2. t \in Held
    BY DEF SharedTypes
  <2>3. QED BY <2>1, <2>2, ServedTypes DEF SharedTypes
<1>4. CASE Reload \/ RefreshLost \/ OtherTabRefresh
  BY <1>4 DEF Reload, RefreshLost, OtherTabRefresh, Abandoned, SharedTypes, TabTypes, TripRecord
<1>5. CASE RefreshLands \/ LoginLands \/ SignOutLands
  BY <1>5 DEF RefreshLands, LoginLands, SignOutLands, SharedTypes, TabTypes, SignTypeOK, TripRecord,
              Held
<1>6. CASE ServeLogin
  <2>1. NewSession \in [alive : BOOLEAN, gen : Nat, expired : Nat]
    BY DEF NewSession
  <2>2. QED BY <1>6, <2>1 DEF ServeLogin, SharedTypes
<1>7. CASE ServeSignOut
  BY <1>7 DEF ServeSignOut, SharedTypes
<1>8. CASE ServerUpset
  <2>1. PICK s \in Session :
          \/ sessions' = [sessions EXCEPT ![s].expired = sessions[s].gen]
          \/ sessions' = [sessions EXCEPT ![s].alive = FALSE]
    BY <1>8 DEF ServerUpset
  <2>2. sessions' \in [Session -> [alive : BOOLEAN, gen : Nat, expired : Nat]]
    BY <2>1 DEF SharedTypes
  <2>3. QED BY <1>8, <2>2 DEF ServerUpset, SharedTypes
<1>9. ASSUME NEW c \in ApiCall, SendCall(c) \/ ServeCall(c) \/ Denied(c) \/ CallFails(c)
      PROVE  SharedTypes'
  BY <1>1, <1>9 DEF SendCall, ServeCall, Denied, CallFails
<1>10. CASE RefreshRefused \/ Redirect \/ SubmitLogin \/ SignOut \/ SignOutFails
            \/ UNCHANGED sessionVars
  BY <1>1, <1>10 DEF RefreshRefused, Redirect, SubmitLogin, SignOut, SignOutFails, sessionVars
<1>11. QED
  BY <1>2, <1>3, <1>4, <1>5, <1>6, <1>7, <1>8, <1>9, <1>10 DEF SessionNext

LEMMA TabStep == SharedTypes /\ TabTypes /\ [SessionNext]_sessionVars => TabTypes'
<1> SUFFICES ASSUME SharedTypes, TabTypes, [SessionNext]_sessionVars
             PROVE  TabTypes'
    OBVIOUS
<1>1. CASE UNCHANGED <<token, location, refresh, calls, signIn, signOut>>
  BY <1>1 DEF TabTypes, SignTypeOK
<1>2. CASE Reload
  BY <1>2, StartedTypes DEF Reload, SharedTypes, TabTypes
<1>3. CASE RefreshRefused \/ RefreshLost
  BY <1>3, GivenUpTypes DEF RefreshRefused, RefreshLost
<1>4. ASSUME NEW c \in ApiCall, SendCall(c) \/ ServeCall(c) \/ CallFails(c)
      PROVE  TabTypes'
  <2>1. UNCHANGED <<token, location, refresh, signIn, signOut>>
    BY <1>4 DEF SendCall, ServeCall, CallFails, signVars
  <2>2. \E rec \in CallRecord : rec.stage # "waiting" /\ calls' = [calls EXCEPT ![c] = rec]
    BY <1>4, Records DEF SendCall, ServeCall, CallFails, TabTypes, CallRecord
  <2>3. QED BY <2>1, <2>2 DEF TabTypes, SignTypeOK
<1>5. ASSUME NEW c \in ApiCall, Denied(c)
      PROVE  TabTypes'
  <2>1. calls' \in [ApiCall -> CallRecord]
    BY <1>5 DEF Denied, TabTypes, CallRecord
  <2>2. refresh' \in TripRecord /\ refresh'.stage # "idle"
    BY <1>5, Records DEF Denied, TabTypes, SharedTypes
  <2>3. UNCHANGED <<token, location, signIn, signOut>>
    BY <1>5 DEF Denied, signVars
  <2>4. QED BY <2>1, <2>2, <2>3 DEF TabTypes, SignTypeOK
<1>6. CASE ServeRefresh
  <2>1. refresh.token \in Held
    BY DEF TabTypes, TripRecord
  <2>2. Renewed(refresh.token) \in Held
    BY <1>6, <2>1, ServedTypes DEF ServeRefresh
  <2>3. refresh' \in TripRecord /\ refresh'.stage # "idle"
    BY <1>6, <2>2 DEF ServeRefresh, TripRecord
  <2>4. UNCHANGED <<token, location, calls, signIn, signOut>>
    BY <1>6 DEF ServeRefresh, signVars
  <2>5. QED BY <2>3, <2>4 DEF TabTypes, SignTypeOK
<1>7. CASE RefreshLands
  <2>1. refresh.token \in Held
    BY DEF TabTypes, TripRecord
  <2>2. [stage |-> "resent", token |-> refresh.token] \in CallRecord
    BY <2>1 DEF CallRecord
  <2>3. calls' \in [ApiCall -> CallRecord] /\ \A c \in ApiCall : calls'[c].stage # "waiting"
    BY <1>7, <2>2 DEF RefreshLands, TabTypes, Waiters
  <2>4. QED BY <1>7, <2>1, <2>3, Records DEF RefreshLands, TabTypes, SignTypeOK, signVars
<1>8. CASE Redirect
  BY <1>8 DEF Redirect, Navigate, TabTypes, SignTypeOK, signVars
<1>9. CASE SubmitLogin \/ LoginLands
  BY <1>9, Records DEF SubmitLogin, LoginLands, TabTypes, SignTypeOK, TripRecord, Held
<1>10. CASE ServeLogin
  <2>1. CASE signIn' = IdleCall
    BY <1>10, <2>1, Records DEF ServeLogin, TabTypes, SignTypeOK, TripRecord, Held
  <2>2. ASSUME NEW s \in Session, signIn' = [stage |-> "served", token |-> [sid |-> s, gen |-> 1]]
        PROVE  TabTypes'
    <3>1. [sid |-> s, gen |-> 1] \in Token
      BY DEF Token
    <3>2. /\ signIn' \in [stage : {"idle", "sent", "served"}, token : Token \cup {NoToken}]
          /\ signIn'.token # NoToken /\ signIn'.stage = "served"
      BY <2>2, <3>1, NoTokenIsNone
    <3>3. QED BY <1>10, <3>2 DEF ServeLogin, TabTypes, SignTypeOK
  <2>3. QED BY <1>10, <2>1, <2>2 DEF ServeLogin
<1>11. CASE SignOut \/ ServeSignOut \/ SignOutLands \/ SignOutFails
  BY <1>11, Records
  DEF SignOut, ServeSignOut, SignOutLands, SignOutFails, TabTypes, SignTypeOK, TripRecord, Held,
      SharedTypes
<1>12. CASE OtherTabRefresh \/ ServeStray \/ ServerUpset \/ UNCHANGED sessionVars
  BY <1>1, <1>12 DEF OtherTabRefresh, ServeStray, ServerUpset, sessionVars, signVars
<1>13. QED
  BY <1>2, <1>3, <1>4, <1>5, <1>6, <1>7, <1>8, <1>9, <1>10, <1>11, <1>12 DEF SessionNext

LEMMA TypeStep ==
  SessionTypeOK /\ SignTypeOK /\ [SessionNext]_sessionVars => (SessionTypeOK /\ SignTypeOK)'
<1> SUFFICES ASSUME SharedTypes, TabTypes, Flags, upsets \in 0..MaxUpsets,
                    [SessionNext]_sessionVars
             PROVE  (SessionTypeOK /\ SignTypeOK)'
    BY TypeParts
<1>1. (SharedTypes /\ TabTypes /\ Flags /\ upsets \in 0..MaxUpsets)'
  BY SharedStep, TabStep, FlagStep, UpsetStep
<1>2. QED
  BY <1>1 DEF SessionTypeOK, SharedTypes, TabTypes, Flags, CallRecord, TripRecord, Held, Waiters

LEMMA TypesHold == SessionSpec => [](SessionTypeOK /\ SignTypeOK)
BY TypeInit, TypeStep, PTL DEF SessionSpec

\* Every variable keeps its type; in particular a call waits only while a refresh is
\* under way (api/axios.ts).
THEOREM SessionTypesHold == SessionSpec => []SessionTypeOK
BY TypesHold, PTL

--------------------------------------------------------------------------------
(* The session of a tab: refresh tokens. *)

LEMMA RefreshInit == SessionInit => RefreshDiscipline /\ OwnRefreshesNeverCollide
<1> SUFFICES ASSUME SessionInit
             PROVE  RefreshDiscipline /\ OwnRefreshesNeverCollide
    OBVIOUS
<1>1. refresh.token = cookie /\ signIn.token = NoToken /\ strays = {} /\ ~collided
  BY Records DEF SessionInit, Held, Token
<1>2. cookie # NoToken => cookie.sid \in Session /\ cookie.gen = 1 /\ sessions[cookie.sid] = NewSession
  BY DEF SessionInit
<1>3. Issued(cookie) /\ ~Collides(cookie)
  BY <1>2 DEF Issued, Collides, Alive, NewSession
<1>4. ~Collides(signIn.token) /\ Issued(signIn.token)
  BY <1>1 DEF Issued, Collides, Alive
<1>5. QED
  BY <1>1, <1>3, <1>4 DEF RefreshDiscipline, OwnRefreshesNeverCollide

\* A tab that stays alone has been alone: it has lost no refresh.
LEMMA AloneStep ==
  ASSUME [SessionNext]_sessionVars, ~disturbed'
  PROVE  /\ ~disturbed /\ ~RefreshLost /\ ~OtherTabRefresh
         /\ Reload => refresh.stage = "idle"
<1>1. ~RefreshLost /\ ~OtherTabRefresh
  BY DEF RefreshLost, OtherTabRefresh
<1>2. Reload => ~disturbed /\ refresh.stage = "idle"
  BY DEF Reload
<1>3. ~Reload => disturbed' = disturbed
  BY <1>1
  DEF SessionNext, SendCall, ServeCall, Denied, CallFails, ServeRefresh, RefreshLands,
      RefreshRefused, ServeStray, Redirect, SubmitLogin, ServeLogin, LoginLands, SignOut,
      ServeSignOut, SignOutLands, SignOutFails, ServerUpset, historyVars, sessionVars
<1>4. QED BY <1>1, <1>2, <1>3

\* What RefreshDiscipline says of a tab that is alone.
Alone ==
  /\ strays = {}
  /\ Issued(cookie) /\ Issued(refresh.token) /\ Issued(signIn.token)
  /\ ~Collides(refresh.token) /\ ~Collides(signIn.token)
  /\ Collides(cookie) =>
       refresh.stage = "served" /\ refresh.token # NoToken /\ refresh.token.sid = cookie.sid
  /\ signIn.token # NoToken =>
       \A t \in {cookie, refresh.token} \ {NoToken} : t.sid # signIn.token.sid

\* Sessions that end leave the tokens as good as they were.
LEMMA EndedStep ==
  ASSUME SharedTypes, TabTypes, Alone,
         UNCHANGED <<cookie, refresh, signIn, strays>>,
         \A s \in Session : /\ sessions'[s].gen = sessions[s].gen
                            /\ sessions'[s].alive => sessions[s].alive
  PROVE  Alone'
<1>1. \A t \in {cookie, refresh.token, signIn.token} : t # NoToken => t.sid \in Session
  BY DEF SharedTypes, TabTypes, SignTypeOK, TripRecord, Held, Token
<1>2. QED BY <1>1 DEF Alone, Issued, Collides, Alive

\* A tab that refreshes when it can sends a token that is current.
LEMMA SentStep ==
  ASSUME SharedTypes, TabTypes, Alone, refresh.stage # "served" \/ refresh.token = NoToken,
         UNCHANGED <<sessions, cookie, strays>>,
         refresh' = RefreshSent(cookie) \/ refresh' = IdleCall,
         signIn' = signIn \/ signIn' = IdleCall
  PROVE  Alone'
<1>1. ~Collides(cookie)
  BY DEF Alone
<1>2. refresh'.token \in {cookie, NoToken} /\ signIn'.token \in {signIn.token, NoToken}
  BY Records DEF SharedTypes
<1>3. QED
  BY <1>1, <1>2 DEF Alone, Issued, Collides, Alive

LEMMA AloneKept ==
  SharedTypes /\ TabTypes /\ [SessionNext]_sessionVars /\ Alone /\ ~disturbed' => Alone'
<1> SUFFICES ASSUME SharedTypes, TabTypes, [SessionNext]_sessionVars, Alone, ~disturbed'
             PROVE  Alone'
    OBVIOUS
<1>1. CASE UNCHANGED <<sessions, cookie, refresh, signIn, strays>>
  BY <1>1 DEF Alone, Issued, Collides, Alive
<1>2. CASE Reload
  <2>1. refresh.stage = "idle"
    BY <1>2, AloneStep
  <2>2. QED
    BY <1>2, <2>1, SentStep DEF Reload, Started, Abandoned
<1>3. ASSUME NEW c \in ApiCall, Denied(c)
      PROVE  Alone'
  <2>1. CASE refresh.stage = "idle"
    BY <1>3, <2>1, SentStep DEF Denied, signVars
  <2>2. CASE refresh.stage # "idle"
    BY <1>1, <1>3, <2>2 DEF Denied, signVars
  <2>3. QED BY <2>1, <2>2
<1>4. CASE ServeRefresh
  <2> DEFINE t == refresh.token
  <2>1. t \in Held /\ cookie \in Held /\ signIn.token \in Held
    BY DEF SharedTypes, TabTypes, SignTypeOK, TripRecord, Held
  <2>2. /\ RefreshServed(t) /\ refresh' = [stage |-> "served", token |-> Renewed(t)]
        /\ UNCHANGED <<cookie, signIn, strays>>
    BY <1>4 DEF ServeRefresh, signVars
  <2>3. CASE Alive(t)
    <3>1. t.sid \in Session /\ t.gen \in Nat /\ t.gen = sessions[t.sid].gen
      BY <2>1, <2>3 DEF Alive, Held, Token, Alone, Collides
    <3>2. sessions' = [sessions EXCEPT ![t.sid].gen = @ + 1]
      BY <2>2, <2>3, <3>1 DEF RefreshServed, Rotated
    <3>3. /\ sessions'[t.sid].gen = t.gen + 1
          /\ \A s \in Session \ {t.sid} : sessions'[s] = sessions[s]
      BY <3>1, <3>2 DEF SharedTypes
    <3>4. refresh' = [stage |-> "served", token |-> [sid |-> t.sid, gen |-> t.gen + 1]]
      BY <2>2, <2>3 DEF Renewed, Alone
    <3>5. refresh'.stage = "served" /\ refresh'.token # NoToken
          /\ refresh'.token.sid = t.sid /\ refresh'.token.gen = t.gen + 1
      BY <3>1, <3>4, NoTokenIsNone DEF Token
    <3> HIDE DEF t
    <3>6. Issued(refresh.token)' /\ ~Collides(refresh.token)'
      BY <3>1, <3>3, <3>5 DEF Issued, Collides, Alive
    <3>7. signIn.token # NoToken => signIn.token.sid \in Session \ {t.sid}
      BY <2>1, <2>3 DEF Alone, Alive, Held, Token, t
    <3>8. Issued(signIn.token)' /\ ~Collides(signIn.token)'
      BY <2>2, <3>3, <3>7 DEF Alone, Issued, Collides, Alive
    <3>9. Issued(cookie)' /\ (Collides(cookie)' => cookie.sid = t.sid)
      <4>1. CASE cookie = NoToken
        BY <2>2, <4>1 DEF Issued, Collides, Alive
      <4>2. CASE cookie # NoToken /\ cookie.sid = t.sid
        BY <2>2, <3>1, <3>3, <4>2 DEF Issued
      <4>3. CASE cookie # NoToken /\ cookie.sid # t.sid
        <5>1. sessions'[cookie.sid] = sessions[cookie.sid]
          BY <2>1, <3>3, <4>3 DEF Held, Token
        <5>2. ~Collides(cookie) \/ refresh.token.sid = cookie.sid
          BY DEF Alone
        <5>3. QED BY <2>2, <4>3, <5>1, <5>2 DEF Alone, Issued, Collides, Alive, t
      <4>4. QED BY <4>1, <4>2, <4>3
    <3>10. QED
      BY <2>2, <2>3, <3>5, <3>6, <3>7, <3>8, <3>9 DEF Alone, Alive
  <2>4. CASE ~Alive(t)
    <3>1. sessions' = sessions /\ refresh'.token = NoToken
      BY <2>2, <2>4 DEF RefreshServed, Renewed
    <3>2. ~Collides(cookie)
      BY <1>4 DEF ServeRefresh, Alone
    <3>3. QED BY <2>2, <3>1, <3>2 DEF Alone, Issued, Collides, Alive
  <2>5. QED BY <2>3, <2>4
<1>5. CASE RefreshLands
  <2>1. /\ cookie' = refresh.token /\ refresh'.token = NoToken
        /\ UNCHANGED <<sessions, signIn, strays>>
    BY <1>5, Records DEF RefreshLands, signVars
  <2>2. QED BY <2>1 DEF Alone, Issued, Collides, Alive
<1>6. CASE RefreshRefused
  BY <1>6, SentStep DEF RefreshRefused, GivenUp, Started, signVars
<1>7. CASE ServeLogin
  <2>1. CASE signIn' = IdleCall /\ UNCHANGED sessions
    <3>1. signIn'.token = NoToken /\ UNCHANGED <<cookie, refresh, strays>>
      BY <1>7, <2>1, Records DEF ServeLogin
    <3>2. QED BY <2>1, <3>1 DEF Alone, Issued, Collides, Alive
  <2>2. ASSUME NEW s \in Session, sessions[s] = NoSession,
               sessions' = [sessions EXCEPT ![s] = NewSession],
               signIn' = [stage |-> "served", token |-> [sid |-> s, gen |-> 1]]
        PROVE  Alone'
    <3>1. /\ signIn'.token.sid = s /\ signIn'.token.gen = 1
          /\ UNCHANGED <<cookie, refresh, strays>>
      BY <1>7, <2>2 DEF ServeLogin
    <3>2. /\ sessions'[s].gen = 1 /\ sessions[s].gen = 0
          /\ \A r \in Session \ {s} : sessions'[r] = sessions[r]
      BY <2>2 DEF SharedTypes, NewSession, NoSession
    <3>3. \A t \in {cookie, refresh.token} : t # NoToken => t.sid \in Session \ {s}
      BY <3>2 DEF Alone, Issued, SharedTypes, TabTypes, TripRecord, Held, Token
    <3>4. Issued(signIn.token)' /\ ~Collides(signIn.token)'
      BY <3>1, <3>2 DEF Issued, Collides
    <3>5. QED BY <3>1, <3>2, <3>3, <3>4 DEF Alone, Issued, Collides, Alive
  <2>3. QED BY <1>7, <2>1, <2>2 DEF ServeLogin
<1>8. CASE SubmitLogin
  <2>1. signIn'.token = NoToken /\ UNCHANGED <<sessions, cookie, refresh, strays>>
    BY <1>8 DEF SubmitLogin
  <2>2. QED BY <2>1 DEF Alone, Issued, Collides, Alive
<1>9. CASE LoginLands
  <2>1. /\ cookie' = signIn.token /\ signIn'.token = NoToken
        /\ UNCHANGED <<sessions, refresh, strays>>
    BY <1>9, Records DEF LoginLands
  <2>2. QED BY <2>1 DEF Alone, Issued, Collides, Alive
<1>10. CASE SignOutLands
  <2>1. cookie' = NoToken /\ UNCHANGED <<sessions, refresh, strays, signIn>>
    BY <1>10 DEF SignOutLands
  <2>2. QED BY <2>1 DEF Alone, Issued, Collides, Alive
<1>11. CASE ServeSignOut \/ ServerUpset
  <2>1. \A s \in Session : /\ sessions'[s].gen = sessions[s].gen
                           /\ sessions'[s].alive => sessions[s].alive
    BY <1>11 DEF ServeSignOut, ServerUpset, SharedTypes
  <2>2. QED BY <1>11, <2>1, EndedStep DEF ServeSignOut, ServerUpset, signVars
<1>12. CASE ServeStray
  BY <1>12 DEF ServeStray, Alone
<1>13. ASSUME NEW c \in ApiCall, SendCall(c) \/ ServeCall(c) \/ CallFails(c)
       PROVE  Alone'
  BY <1>1, <1>13 DEF SendCall, ServeCall, CallFails, signVars
<1>14. CASE Redirect \/ SignOut \/ SignOutFails \/ UNCHANGED sessionVars
  BY <1>1, <1>14 DEF Redirect, SignOut, SignOutFails, signVars, sessionVars
<1>15. QED
  BY <1>2, <1>3, <1>4, <1>5, <1>6, <1>7, <1>8, <1>9, <1>10, <1>11, <1>12, <1>13, <1>14, AloneStep
  DEF SessionNext

LEMMA RefreshStep ==
  SessionTypeOK /\ SignTypeOK /\ [SessionNext]_sessionVars
      /\ RefreshDiscipline /\ OwnRefreshesNeverCollide
    => RefreshDiscipline' /\ OwnRefreshesNeverCollide'
<1> SUFFICES ASSUME SharedTypes, TabTypes, [SessionNext]_sessionVars,
                    RefreshDiscipline, OwnRefreshesNeverCollide, ~disturbed'
             PROVE  Alone' /\ ~collided'
    BY TypeParts DEF RefreshDiscipline, OwnRefreshesNeverCollide, Alone
<1>1. ~disturbed /\ Alone /\ ~collided
  BY AloneStep DEF RefreshDiscipline, OwnRefreshesNeverCollide, Alone
<1>2. Alone'
  BY <1>1, AloneKept
<1>3. ~collided'
  BY <1>1
  DEF Alone, SessionNext, Reload, SendCall, ServeCall, Denied, CallFails, ServeRefresh,
      RefreshServed, RefreshLands, RefreshRefused, RefreshLost, OtherTabRefresh, ServeStray,
      Redirect, SubmitLogin, ServeLogin, LoginLands, SignOut, ServeSignOut, SignOutLands,
      SignOutFails, ServerUpset, historyVars, sessionVars
<1>4. QED BY <1>2, <1>3

\* A tab that is alone and loses no answer never presents a refresh token that was used,
\* whatever logins, logouts, reloads and denied calls come between: the server does not
\* revoke its session for a theft that was none (api/axios.ts, auth-service/service.py).
THEOREM RefreshesNeverCollide == SessionSpec => []OwnRefreshesNeverCollide
BY TypesHold, RefreshInit, RefreshStep, PTL DEF SessionSpec

--------------------------------------------------------------------------------
(* The cache entries. *)

LEMMA MountedType == \A S : MountedEntry \in Entries(S)
BY DEF MountedEntry, Entries

LEMMA EntryTypes ==
  ASSUME NEW S, NEW e \in Entries(S)
  PROVE  /\ Asked(e) \in Entries(S) /\ Invalidated(e) \in Entries(S)
         /\ Landed(e) \in Entries(S) /\ Failed(e) \in Entries(S)
         /\ \A v \in S : Answered(e, v) \in Entries(S)
<1>1. /\ e.data \in S \cup {NoData} /\ e.answer \in S \cup {NoData}
      /\ e.fetch \in {"idle", "asked", "answered"} /\ e.error \in BOOLEAN
  BY DEF Entries
<1>2. e = [data |-> e.data, fetch |-> e.fetch, answer |-> e.answer, error |-> e.error]
  BY DEF Entries
<1>3. Asked(e) \in Entries(S)
  <2>1. (e.error /\ e.data # NoData) \in BOOLEAN
    OBVIOUS
  <2>2. Asked(e) = e \/ Asked(e) = [data |-> e.data, fetch |-> "asked", answer |-> e.answer,
                                    error |-> e.error /\ e.data # NoData]
    BY <1>2 DEF Asked, Entries
  <2>3. \A b \in BOOLEAN :
          [data |-> e.data, fetch |-> "asked", answer |-> e.answer, error |-> b] \in Entries(S)
    BY <1>1 DEF Entries
  <2>4. QED BY <2>1, <2>2, <2>3, Zenon
<1>4. Invalidated(e) \in Entries(S)
  BY <1>1, <1>3 DEF Invalidated, Entries
<1>5. Landed(e) \in Entries(S)
  BY <1>1 DEF Landed, Entries
<1>6. Failed(e) \in Entries(S)
  BY <1>1 DEF Failed, Entries
<1>7. \A v \in S : Answered(e, v) \in Entries(S)
  BY <1>1 DEF Answered, Entries
<1>8. QED BY <1>3, <1>4, <1>5, <1>6, <1>7

\* What an entry has and what is on its way after a poll, an invalidation, an answer,
\* its landing and a failure.
LEMMA EntryData ==
  ASSUME NEW S, NEW e \in Entries(S)
  PROVE  /\ Asked(e).data = e.data /\ Asked(e).answer = e.answer
         /\ Invalidated(e).data = e.data /\ Invalidated(e).answer \in {e.answer, NoData}
         /\ Landed(e).data = e.answer /\ Landed(e).answer = NoData
         /\ Failed(e).data = e.data /\ Failed(e).answer = NoData
         /\ \A v : Answered(e, v).data = e.data /\ Answered(e, v).answer = v
BY DEF Asked, Invalidated, Landed, Failed, Answered, Entries

\* A fetch is under way after each of them but the last two, and nothing is landing
\* after an invalidation of an entry that has data.
LEMMA EntryStage ==
  ASSUME NEW S, NEW e \in Entries(S)
  PROVE  /\ Fetching(Asked(e)) /\ (Landing(Asked(e)) => Landing(e))
         /\ Fetching(Invalidated(e)) /\ (Landing(Invalidated(e)) => Landing(e) /\ e.data = NoData
                                                           /\ Invalidated(e).answer = e.answer)
         /\ \A v : Fetching(Answered(e, v)) /\ Landing(Answered(e, v))
         /\ ~Fetching(Landed(e)) /\ ~Landing(Landed(e)) /\ ~Landed(e).error
         /\ ~Landing(Failed(e)) /\ Failed(e).error
         /\ Landing(e) => Fetching(e)
         /\ Waiting(e) => Fetching(e)
BY DEF Asked, Invalidated, Landed, Failed, Answered, Entries, Fetching, Landing, Waiting

--------------------------------------------------------------------------------
(* The page "Retraining Requests". *)

\* No answer that will be shown is older than the operation that was reported as done.
RequestsDiscipline ==
  /\ requestAcked <= requestChanges
  /\ Busy => requestCall.at <= requestChanges
  /\ Landing(requestList) => requestList.answer.at >= requestAcked
  /\ ~Fetching(requestList) /\ ~requestList.error => requestList.data.at >= requestAcked

RequestsInv == RequestsTypeOK /\ RequestsDiscipline

LEMMA RequestsStart == RequestsInit => RequestsInv
<1> SUFFICES ASSUME RequestsInit PROVE RequestsInv
    OBVIOUS
<1>1. requestList \in Entries(RequestsAnswers) /\ requestList.fetch = "asked"
  BY MountedType DEF RequestsInit, MountedEntry
<1>2. requests \in [Request -> RequestStatus]
  BY DEF RequestsInit, RequestStatus
<1>3. RequestsTypeOK
  BY <1>1, <1>2 DEF RequestsInit, RequestsTypeOK
<1>4. RequestsDiscipline
  BY <1>1 DEF RequestsInit, RequestsDiscipline, Fetching, Landing, Busy
<1>5. QED BY <1>3, <1>4 DEF RequestsInv

\* The list is fetched.
FetchesRequests == RequestsPoll \/ RequestsAnswered \/ RequestsLand \/ RequestsFail

LEMMA FetchesRequestsStep == ASSUME RequestsInv, FetchesRequests PROVE RequestsInv'
<1>1. /\ requestList \in Entries(RequestsAnswers) /\ requests \in [Request -> RequestStatus]
      /\ requestChanges \in Nat /\ requestAcked \in Nat
  BY DEF RequestsInv, RequestsTypeOK
<1>2. UNCHANGED <<requests, requestChanges, requestModal, requestCall, requestAcked>>
  BY DEF FetchesRequests, RequestsPoll, RequestsAnswered, RequestsLand, RequestsFail, RequestsFetch
<1> DEFINE e == requestList'
           Keeps == /\ e \in Entries(RequestsAnswers)
                    /\ Landing(e) => e.answer.at >= requestAcked
                    /\ ~Fetching(e) /\ ~e.error => e.data.at >= requestAcked
<1>3. ASSUME RequestsPoll PROVE Keeps
  <2>1. e = Asked(requestList) /\ ~Fetching(requestList)
    BY <1>3 DEF RequestsPoll, RequestsFetch
  <2>2. e \in Entries(RequestsAnswers)
    BY <1>1, <2>1, EntryTypes
  <2>3. Fetching(e) /\ ~Landing(e)
    BY <1>1, <2>1, EntryStage DEF Landing, Fetching
  <2>4. QED BY <2>2, <2>3
<1>4. ASSUME RequestsAnswered PROVE Keeps
  <2>1. e = Answered(requestList, RequestsAnswer)
    BY <1>4 DEF RequestsAnswered, RequestsFetch
  <2>2. RequestsAnswer \in RequestsAnswers /\ RequestsAnswer.at = requestChanges
    BY <1>1 DEF RequestsAnswer, RequestsAnswers
  <2>3. e \in Entries(RequestsAnswers)
    BY <1>1, <2>1, <2>2, EntryTypes
  <2>4. Fetching(e)
    BY <1>1, <2>1, EntryStage
  <2>5. e.answer = RequestsAnswer
    BY <1>1, <2>1, EntryData
  <2>6. e.answer.at >= requestAcked
    BY <1>1, <2>2, <2>5 DEF RequestsInv, RequestsDiscipline
  <2>7. QED BY <2>3, <2>4, <2>6
<1>5. ASSUME RequestsLand PROVE Keeps
  <2>1. e = Landed(requestList) /\ Landing(requestList)
    BY <1>5 DEF RequestsLand, RequestsFetch
  <2>2. e \in Entries(RequestsAnswers)
    BY <1>1, <2>1, EntryTypes
  <2>3. ~Landing(e)
    BY <1>1, <2>1, EntryStage
  <2>4. e.data = requestList.answer
    BY <1>1, <2>1, EntryData
  <2>5. e.data.at >= requestAcked
    BY <2>1, <2>4 DEF RequestsInv, RequestsDiscipline
  <2>6. QED BY <2>2, <2>3, <2>5
<1>6. ASSUME RequestsFail PROVE Keeps
  <2>1. e = Failed(requestList)
    BY <1>6 DEF RequestsFail, RequestsFetch
  <2>2. e \in Entries(RequestsAnswers)
    BY <1>1, <2>1, EntryTypes
  <2>3. ~Landing(e) /\ e.error
    BY <1>1, <2>1, EntryStage
  <2>4. QED BY <2>2, <2>3
<1>7. Keeps
  BY <1>3, <1>4, <1>5, <1>6 DEF FetchesRequests
<1>8. RequestsTypeOK'
  BY <1>2, <1>7, Zenon DEF RequestsInv, RequestsTypeOK
<1>9. RequestsDiscipline'
  BY <1>2, <1>7, Zenon DEF RequestsInv, RequestsDiscipline, Busy
<1>10. QED BY <1>8, <1>9 DEF RequestsInv

\* The requests move, by the hands of others or by a call that is served.
RequestsMove == RequestMoves \/ ServeDecision \/ ServeSimulate

LEMMA RequestsMoveStep == ASSUME RequestsInv, RequestsMove PROVE RequestsInv'
<1>1. /\ requests \in [Request -> RequestStatus] /\ requestChanges \in Nat /\ requestAcked \in Nat
      /\ requestCall \in RequestCalls \cup {NoCall}
  BY DEF RequestsInv, RequestsTypeOK
<1>2. UNCHANGED <<requestList, requestModal, requestAcked>>
  BY DEF RequestsMove, RequestMoves, ServeDecision, ServeSimulate, RequestServed
<1>3. requestChanges' \in Nat /\ requestChanges' >= requestChanges
  BY <1>1 DEF RequestsMove, RequestMoves, ServeDecision, ServeSimulate
<1>4. requests' \in [Request -> RequestStatus]
  <2>1. CASE RequestMoves
    <3>1. \A m \in ElsewhereMoves : m[2] \in RequestStatus
      BY DEF ElsewhereMoves, RequestStatus
    <3>2. QED BY <1>1, <2>1, <3>1 DEF RequestMoves
  <2>2. CASE ServeDecision
    <3>1. /\ requestCall.op \in {"approve", "reject", "execute"}
          /\ requests' = requests
             \/ \E m \in Effects(requestCall.op) :
                  requests' = [requests EXCEPT ![requestCall.id] = m[2]]
      BY <1>1, <2>2 DEF ServeDecision, RequestCalls, Busy
    <3>2. \A m \in Effects(requestCall.op) : m[2] \in RequestStatus
      BY <3>1 DEF Effects, RequestStatus
    <3>3. QED BY <1>1, <3>1, <3>2
  <2>3. CASE ServeSimulate
    BY <1>1, <2>3 DEF ServeSimulate, RequestStatus
  <2>4. QED BY <2>1, <2>2, <2>3 DEF RequestsMove
<1>5. /\ requestCall' \in RequestCalls \cup {NoCall}
      /\ Busy' => requestCall'.at <= requestChanges'
  <2>1. CASE requestCall' = requestCall
    <3>1. Busy => requestCall.at \in Nat /\ requestCall.at <= requestChanges
      BY <1>1 DEF RequestsInv, RequestsDiscipline, Busy, RequestCalls
    <3>2. QED BY <1>1, <1>3, <2>1, <3>1 DEF Busy
  <2>2. CASE \E stage \in {"done", "refused"} : Busy /\ RequestServed(stage)
    <3>1. PICK stage \in {"done", "refused"} : Busy /\ RequestServed(stage)
      BY <2>2
    <3>2. requestCall \in RequestCalls
      BY <1>1, <3>1 DEF Busy
    <3>3. requestCall' = [op |-> requestCall.op, id |-> requestCall.id,
                          stage |-> stage, at |-> requestChanges']
      BY <3>1, <3>2 DEF RequestServed, RequestCalls
    <3>4. requestCall' \in RequestCalls /\ requestCall'.at = requestChanges'
      BY <1>3, <3>2, <3>3 DEF RequestCalls
    <3>5. QED BY <1>3, <3>4
  <2>3. requestCall' = requestCall \/ \E stage \in {"done", "refused"} : Busy /\ RequestServed(stage)
    BY DEF RequestsMove, RequestMoves, ServeDecision, ServeSimulate
  <2>4. QED BY <2>1, <2>2, <2>3
<1>6. RequestsTypeOK'
  BY <1>2, <1>3, <1>4, <1>5, Zenon DEF RequestsInv, RequestsTypeOK
<1>7. requestAcked <= requestChanges'
  BY <1>1, <1>3 DEF RequestsInv, RequestsDiscipline
<1>8. RequestsDiscipline'
  BY <1>2, <1>5, <1>7, Zenon DEF RequestsInv, RequestsDiscipline
<1>9. QED BY <1>6, <1>8 DEF RequestsInv

\* The operator, and the return of his calls.
UsesRequests ==
  OpenRequestModal \/ CancelRequestModal \/ ConfirmRequest \/ SimulateTrigger
    \/ RequestReturns \/ RequestErrs

LEMMA UsesRequestsStep == ASSUME RequestsInv, UsesRequests PROVE RequestsInv'
<1>1. /\ requestList \in Entries(RequestsAnswers) /\ requests \in [Request -> RequestStatus]
      /\ requestChanges \in Nat /\ requestAcked \in Nat
      /\ requestModal \in RequestModals \cup {NoCall}
      /\ requestCall \in RequestCalls \cup {NoCall}
  BY DEF RequestsInv, RequestsTypeOK
<1>2. UNCHANGED <<requests, requestChanges>>
  BY DEF UsesRequests, OpenRequestModal, CancelRequestModal, ConfirmRequest, SimulateTrigger,
         RequestReturns, RequestErrs
<1>3. requestModal' \in RequestModals \cup {NoCall}
  <2>1. CASE OpenRequestModal
    <3>1. PICK r \in Listed : \E op \in Offered(Rows[r]) : requestModal' = [op |-> op, id |-> r]
      BY <2>1 DEF OpenRequestModal, Found, Grouped, ShownRow
    <3>2. r \in Request /\ Offered(Rows[r]) \subseteq {"approve", "reject", "execute"}
      BY DEF Listed, Offered
    <3>3. QED BY <3>1, <3>2 DEF RequestModals
  <2>2. CASE ~OpenRequestModal
    BY <1>1, <2>2
    DEF UsesRequests, CancelRequestModal, ConfirmRequest, SimulateTrigger, RequestReturns, RequestErrs
  <2>3. QED BY <2>1, <2>2
<1>4. requestCall' \in RequestCalls \cup {NoCall} /\ (Busy' => requestCall'.at <= requestChanges)
  <2>1. CASE ConfirmRequest \/ SimulateTrigger
    <3>1. \E op \in {"approve", "reject", "execute", "simulate"}, id \in Request \cup {NoCall} :
            requestCall' = RequestSent(op, id)
      BY <1>1, <2>1 DEF ConfirmRequest, SimulateTrigger, RequestModals
    <3>2. requestCall' \in RequestCalls /\ requestCall'.at = 0
      BY <3>1 DEF RequestSent, RequestCalls
    <3>3. QED BY <1>1, <3>2
  <2>2. CASE ~(ConfirmRequest \/ SimulateTrigger)
    <3>1. requestCall' \in {requestCall, NoCall}
      BY <2>2 DEF UsesRequests, OpenRequestModal, CancelRequestModal, RequestReturns, RequestErrs
    <3>2. QED BY <1>1, <3>1 DEF RequestsInv, RequestsDiscipline, Busy
  <2>3. QED BY <2>1, <2>2
<1>5. CASE RequestReturns
  <2>1. /\ requestList' = Invalidated(requestList)
        /\ requestAcked' = IF requestList.data = NoData THEN requestAcked ELSE requestCall.at
        /\ requestCall \in RequestCalls
    BY <1>1, <1>5 DEF RequestReturns, Busy
  <2>2. requestList' \in Entries(RequestsAnswers)
    BY <1>1, <2>1, EntryTypes
  <2>3. /\ Fetching(requestList')
        /\ Landing(requestList') => /\ Landing(requestList) /\ requestList.data = NoData
                                    /\ requestList'.answer = requestList.answer
    BY <1>1, <2>1, EntryStage
  <2>4. requestAcked' \in Nat /\ requestAcked' <= requestChanges
    BY <1>1, <1>5, <2>1 DEF RequestReturns, RequestsInv, RequestsDiscipline, RequestCalls
  <2>5. RequestsTypeOK'
    BY <1>1, <1>2, <1>3, <1>4, <2>2, <2>4 DEF RequestsTypeOK
  <2>6. Landing(requestList') => requestList'.answer.at >= requestAcked'
    BY <2>1, <2>3 DEF RequestsInv, RequestsDiscipline
  <2>7. RequestsDiscipline'
    BY <1>2, <1>4, <2>3, <2>4, <2>6, Zenon DEF RequestsDiscipline
  <2>8. QED BY <2>5, <2>7 DEF RequestsInv
<1>6. CASE ~RequestReturns
  <2>1. UNCHANGED <<requestList, requestAcked>>
    BY <1>6
    DEF UsesRequests, OpenRequestModal, CancelRequestModal, ConfirmRequest, SimulateTrigger, RequestErrs
  <2>2. RequestsTypeOK'
    BY <1>2, <1>3, <1>4, <2>1, Zenon DEF RequestsInv, RequestsTypeOK
  <2>3. RequestsDiscipline'
    BY <1>2, <1>4, <2>1, Zenon DEF RequestsInv, RequestsDiscipline
  <2>4. QED BY <2>2, <2>3 DEF RequestsInv
<1>7. QED BY <1>5, <1>6

LEMMA RequestsStep == ASSUME RequestsInv, RequestsNext PROVE RequestsInv'
<1>1. CASE FetchesRequests
  BY <1>1, FetchesRequestsStep
<1>2. CASE RequestsMove
  BY <1>2, RequestsMoveStep
<1>3. CASE UsesRequests
  BY <1>3, UsesRequestsStep
<1>4. QED
  BY <1>1, <1>2, <1>3
  DEF RequestsNext, RequestsCallSteps, FetchesRequests, RequestsMove, UsesRequests

LEMMA AckedShows == RequestsInv => AckedIsShown
BY DEF RequestsInv, RequestsDiscipline, AckedIsShown, RequestsBody

--------------------------------------------------------------------------------
(* The pages "Orchestration" and "Operations". *)

\* Launches in flight are among the operations; the confirmation on Operations is open
\* only while none is.
LaunchDiscipline ==
  /\ launches.sent + launches.done <= runOps
  /\ launchForm /\ runsPage = "operations" => ~Launching

RunsInv == RunsTypeOK /\ LaunchDiscipline

LEMMA RunsStart == RunsInit => RunsInv
<1> SUFFICES ASSUME RunsInit PROVE RunsInv
    OBVIOUS
<1>1. NoLogs \in Entries(RunStatus)
  BY DEF NoLogs, Entries
<1>2. runLogs \in [Run -> Entries(RunStatus)] /\ runs \in [Run -> RunStatus]
  BY <1>1 DEF RunsInit, RunStatus
<1>3. runList \in Entries([Run -> RunStatus])
  BY MountedType DEF RunsInit
<1>4. launches \in [sent : 0..MaxRunOps, done : 0..MaxRunOps]
      /\ launches.sent = 0 /\ launches.done = 0
  BY RunsParameters DEF RunsInit
<1>5. /\ launches.sent + launches.done <= runOps /\ launches.sent + launches.done <= 1
      /\ ~Launching /\ runOps \in 0..MaxRunOps
  BY <1>4, RunsParameters DEF RunsInit, Launching
<1>6. runsPage \in {"orchestration", "operations"} /\ launchForm \in BOOLEAN
      /\ logsRunId \in Run \cup {NoRun}
  BY Zenon DEF RunsInit
<1>7. QED BY <1>2, <1>3, <1>4, <1>5, <1>6, Zenon DEF RunsInv, RunsTypeOK, LaunchDiscipline

\* The runs, the list and the logs.
RunsMove == RunProceeds \/ RunStartsElsewhere
FetchesRuns == RunsPoll \/ RunsAnswered \/ RunsLand \/ RunsFail
FetchesLogs == OpenLogs \/ CloseLogs \/ LogsPoll
                 \/ \E r \in Run : LogsAnswered(r) \/ LogsLand(r) \/ LogsFail(r)

LEMMA RunMovesTypes ==
  ASSUME runs \in [Run -> RunStatus], NEW r,
         RunCreated(r) \/ \E m \in RunMoves : runs' = [runs EXCEPT ![r] = m[2]]
  PROVE  runs' \in [Run -> RunStatus]
<1>1. "QUEUED" \in RunStatus /\ \A m \in RunMoves : m[2] \in RunStatus
  BY DEF RunStatus, RunMoves
<1>2. QED BY <1>1 DEF RunCreated

\* Operations are counted up to their bound.
LEMMA RunOpTypes ==
  ASSUME runOps \in 0..MaxRunOps, RunOp \/ UNCHANGED runOps
  PROVE  runOps' \in 0..MaxRunOps /\ runOps' >= runOps
BY RunsParameters DEF RunOp

LEMMA ReadsRunsStep ==
  ASSUME RunsInv, RunsMove \/ FetchesRuns \/ FetchesLogs
  PROVE  RunsInv'
<1>1. /\ runs \in [Run -> RunStatus] /\ runList \in Entries([Run -> RunStatus])
      /\ runLogs \in [Run -> Entries(RunStatus)] /\ logsRunId \in Run \cup {NoRun}
      /\ launches \in [sent : 0..MaxRunOps, done : 0..MaxRunOps] /\ runOps \in 0..MaxRunOps
      /\ runsPage \in {"orchestration", "operations"} /\ launchForm \in BOOLEAN
  BY DEF RunsInv, RunsTypeOK
<1>2. UNCHANGED <<runsPage, launchForm, launches>>
  BY DEF RunsMove, RunProceeds, RunStartsElsewhere, FetchesRuns, RunsPoll, RunsAnswered, RunsLand,
         RunsFail, RunsFetch, FetchesLogs, OpenLogs, CloseLogs, LogsPoll, LogsAnswered, LogsLand,
         LogsFail, LogsFetch
<1>3. runOps' \in 0..MaxRunOps /\ runOps' >= runOps
  <2>1. RunOp \/ UNCHANGED runOps
    BY DEF RunsMove, RunProceeds, RunStartsElsewhere, FetchesRuns, RunsPoll, RunsAnswered, RunsLand,
           RunsFail, FetchesLogs, OpenLogs, CloseLogs, LogsPoll, LogsAnswered, LogsLand, LogsFail
  <2>2. QED BY <1>1, <2>1, RunOpTypes
<1>4. runs' \in [Run -> RunStatus]
  <2>1. CASE RunsMove
    BY <1>1, <2>1, RunMovesTypes DEF RunsMove, RunProceeds, RunStartsElsewhere
  <2>2. CASE FetchesRuns \/ FetchesLogs
    BY <1>1, <2>2
    DEF FetchesRuns, RunsPoll, RunsAnswered, RunsLand, RunsFail, RunsFetch, FetchesLogs, OpenLogs,
        CloseLogs, LogsPoll, LogsAnswered, LogsLand, LogsFail, LogsFetch
  <2>3. QED BY <2>1, <2>2
<1>5. runList' \in Entries([Run -> RunStatus])
  <2>1. CASE FetchesRuns
    <3>1. runList' \in {Asked(runList), Answered(runList, runs), Landed(runList), Failed(runList)}
      BY <2>1 DEF FetchesRuns, RunsPoll, RunsAnswered, RunsLand, RunsFail, RunsFetch
    <3>2. QED BY <1>1, <3>1, EntryTypes
  <2>2. CASE RunsMove \/ FetchesLogs
    BY <1>1, <2>2
    DEF RunsMove, RunProceeds, RunStartsElsewhere, FetchesLogs, OpenLogs, CloseLogs, LogsPoll,
        LogsAnswered, LogsLand, LogsFail, LogsFetch
  <2>3. QED BY <2>1, <2>2
<1>6. runLogs' \in [Run -> Entries(RunStatus)] /\ logsRunId' \in Run \cup {NoRun}
  <2>1. CASE OpenLogs
    <3>1. PICK r \in RunRows :
            /\ logsRunId' = r
            /\ \E e \in {Asked(Logs(r)), Logs(r)} : runLogs' = [runLogs EXCEPT ![r] = e]
      BY <2>1 DEF OpenLogs
    <3>2. r \in Run /\ Logs(r) \in Entries(RunStatus)
      BY <1>1 DEF RunRows, Logs
    <3>3. Asked(Logs(r)) \in Entries(RunStatus)
      BY <3>2, EntryTypes
    <3>4. QED BY <1>1, <3>1, <3>2, <3>3
  <2>2. CASE LogsPoll \/ \E r \in Run : LogsAnswered(r) \/ LogsLand(r) \/ LogsFail(r)
    <3>1. PICK r \in Run :
            /\ logsRunId' = logsRunId
            /\ \E e \in {Asked(Logs(r)), Answered(Logs(r), runs[r]), Landed(Logs(r)), Failed(Logs(r))} :
                 runLogs' = [runLogs EXCEPT ![r] = e]
      BY <1>1, <2>2 DEF LogsPoll, LogsAnswered, LogsLand, LogsFail, LogsFetch
    <3>2. Logs(r) \in Entries(RunStatus) /\ runs[r] \in RunStatus
      BY <1>1 DEF Logs
    <3>3. {Asked(Logs(r)), Answered(Logs(r), runs[r]), Landed(Logs(r)), Failed(Logs(r))}
            \subseteq Entries(RunStatus)
      BY <3>2, EntryTypes
    <3>4. QED BY <1>1, <3>1, <3>3
  <2>3. CASE CloseLogs \/ RunsMove \/ FetchesRuns
    BY <1>1, <2>3
    DEF CloseLogs, RunsMove, RunProceeds, RunStartsElsewhere, FetchesRuns, RunsPoll, RunsAnswered,
        RunsLand, RunsFail, RunsFetch
  <2>4. QED BY <2>1, <2>2, <2>3 DEF FetchesLogs
<1>7. RunsTypeOK'
  BY <1>2, <1>3, <1>4, <1>5, <1>6, Zenon DEF RunsInv, RunsTypeOK
<1>8. launches.sent + launches.done <= runOps'
  BY <1>1, <1>3 DEF RunsInv, LaunchDiscipline
<1>9. LaunchDiscipline'
  BY <1>2, <1>8, Zenon DEF RunsInv, LaunchDiscipline, Launching
<1>10. QED BY <1>7, <1>9 DEF RunsInv

\* The launches.
Launches == OpenLaunch \/ CancelLaunch \/ SubmitLaunch \/ ServeLaunch \/ LaunchReturns \/ LaunchErrs

LEMMA LaunchesStep == ASSUME RunsInv, Launches PROVE RunsInv'
<1>1. /\ runs \in [Run -> RunStatus] /\ runList \in Entries([Run -> RunStatus])
      /\ launches \in [sent : 0..MaxRunOps, done : 0..MaxRunOps] /\ runOps \in 0..MaxRunOps
      /\ runsPage \in {"orchestration", "operations"} /\ launchForm \in BOOLEAN
      /\ launches.sent \in Nat /\ launches.done \in Nat
      /\ launches = [sent |-> launches.sent, done |-> launches.done]
  BY RunsParameters DEF RunsInv, RunsTypeOK
<1>2. /\ launches.sent + launches.done <= runOps
      /\ runsPage = "operations" => launches.sent + launches.done <= 1
      /\ launchForm /\ runsPage = "operations" => launches.sent + launches.done = 0
  BY <1>1 DEF RunsInv, RunsTypeOK, LaunchDiscipline, Launching
<1>3. UNCHANGED <<runsPage, runLogs, logsRunId>>
  BY DEF Launches, OpenLaunch, CancelLaunch, SubmitLaunch, ServeLaunch, LaunchReturns, LaunchErrs
<1>4. runOps' \in 0..MaxRunOps /\ runOps' >= runOps
  <2>1. RunOp \/ UNCHANGED runOps
    BY DEF Launches, OpenLaunch, CancelLaunch, SubmitLaunch, ServeLaunch, LaunchReturns, LaunchErrs
  <2>2. QED BY <1>1, <2>1, RunOpTypes
<1>5. runs' \in [Run -> RunStatus] /\ runList' \in Entries([Run -> RunStatus])
  <2>1. CASE ServeLaunch
    BY <1>1, <2>1, RunMovesTypes DEF ServeLaunch
  <2>2. CASE LaunchReturns
    BY <1>1, <2>2, EntryTypes DEF LaunchReturns
  <2>3. CASE OpenLaunch \/ CancelLaunch \/ SubmitLaunch \/ LaunchErrs
    BY <1>1, <2>3 DEF OpenLaunch, CancelLaunch, SubmitLaunch, LaunchErrs
  <2>4. QED BY <2>1, <2>2, <2>3 DEF Launches
<1>6. launchForm' \in BOOLEAN
  BY <1>1, Zenon
  DEF Launches, OpenLaunch, CancelLaunch, SubmitLaunch, ServeLaunch, LaunchReturns, LaunchErrs
<1> DEFINE Leaves(s, d) ==
      /\ s \in Nat /\ d \in Nat /\ launches' = [sent |-> s, done |-> d] /\ s + d <= runOps'
      /\ runsPage = "operations" => s + d <= 1
      /\ launchForm' /\ runsPage = "operations" => s + d = 0
<1>7. \E s : \E d : Leaves(s, d)
  <2>1. CASE OpenLaunch \/ CancelLaunch
    <3>1. launches' = launches
      BY <2>1 DEF OpenLaunch, CancelLaunch
    <3>2. launchForm' => launches.sent + launches.done = 0
      <4>1. launchForm' => ~Launching
        BY <2>1, Zenon DEF OpenLaunch, CancelLaunch
      <4>2. QED BY <1>1, <4>1 DEF Launching
    <3>3. Leaves(launches.sent, launches.done)
      BY <1>1, <1>2, <1>4, <3>1, <3>2
    <3>4. QED BY <3>3
  <2>2. CASE SubmitLaunch
    <3>1. /\ launches' = [sent |-> launches.sent + 1, done |-> launches.done]
          /\ runOps' = runOps + 1 /\ launchForm
      BY <1>1, <2>2 DEF SubmitLaunch, RunOp
    <3>2. launchForm' => runsPage = "orchestration"
      BY <2>2, Zenon DEF SubmitLaunch
    <3>3. Leaves(launches.sent + 1, launches.done)
      BY <1>1, <1>2, <3>1, <3>2
    <3>4. QED BY <3>3
  <2>3. CASE ServeLaunch
    <3>1. /\ launches' = [sent |-> launches.sent - 1, done |-> launches.done + 1]
          /\ launches.sent > 0 /\ launchForm' = launchForm
      BY <1>1, <2>3 DEF ServeLaunch
    <3>2. Leaves(launches.sent - 1, launches.done + 1)
      BY <1>1, <1>2, <1>4, <3>1
    <3>3. QED BY <3>2
  <2>4. CASE LaunchReturns \/ LaunchErrs
    <3>1. /\ \/ launches' = [sent |-> launches.sent - 1, done |-> launches.done] /\ launches.sent > 0
             \/ launches' = [sent |-> launches.sent, done |-> launches.done - 1] /\ launches.done > 0
      BY <1>1, <2>4 DEF LaunchReturns, LaunchErrs
    <3>2. launchForm' => launchForm
      BY <2>4, Zenon DEF LaunchReturns, LaunchErrs
    <3>3. Leaves(launches.sent - 1, launches.done) \/ Leaves(launches.sent, launches.done - 1)
      BY <1>1, <1>2, <1>4, <3>1, <3>2
    <3>4. QED BY <3>3
  <2>5. QED BY <2>1, <2>2, <2>3, <2>4 DEF Launches
<1>8. /\ launches' \in [sent : 0..MaxRunOps, done : 0..MaxRunOps]
      /\ launches'.sent + launches'.done <= runOps'
      /\ runsPage = "operations" => launches'.sent + launches'.done <= 1
      /\ launchForm' /\ runsPage = "operations" => ~(launches'.sent + launches'.done > 0)
  BY <1>1, <1>4, <1>7, RunsParameters
<1>9. RunsTypeOK'
  BY <1>3, <1>4, <1>5, <1>6, <1>8, Zenon DEF RunsInv, RunsTypeOK
<1>10. LaunchDiscipline'
  BY <1>3, <1>8, Zenon DEF LaunchDiscipline, Launching
<1>11. QED BY <1>9, <1>10 DEF RunsInv

LEMMA RunsStep == ASSUME RunsInv, RunsNext PROVE RunsInv'
<1>1. CASE RunsMove \/ FetchesRuns \/ FetchesLogs
  BY <1>1, ReadsRunsStep
<1>2. CASE Launches
  BY <1>2, LaunchesStep
<1>3. QED BY <1>1, <1>2 DEF RunsNext, RunsMove, FetchesRuns, FetchesLogs, Launches

--------------------------------------------------------------------------------
(* The pages of the feed, by the times of their events. *)

LEMMA NatMin == ASSUME NEW T \in SUBSET Nat, T # {} PROVE \E x \in T : \A y \in T : x <= y
<1> DEFINE R == OpToRel(<, Nat)
<1>1. \E x \in T : \A y \in T : ~ (<<y, x>> \in R)
  BY NatLessThanWellFounded, WFMin
<1>2. \A x \in Nat : \A y \in Nat : y < x => <<y, x>> \in R
  BY DEF OpToRel
<1> HIDE DEF R
<1>3. PICK x \in T : \A y \in T : ~ (<<y, x>> \in R)
  BY <1>1
<1>4. \A y \in T : ~(y < x)
  BY <1>2, <1>3
<1>5. QED BY <1>4

LEMMA MinIs ==
  ASSUME NEW S \in SUBSET Nat, S # {}
  PROVE  Min(S) \in S /\ \A x \in S : Min(S) <= x
<1>1. \E x \in S : \A y \in S : x <= y
  BY NatMin
<1>2. QED BY <1>1, Zenon DEF Min

Times(E) == {e.time : e \in E}

\* E: the times of an answer about events at the times S, before the cursor k (0: none),
\* after which the next page ends at n.  They are all of S from n up to its own newest,
\* or to k.
Complete(E, n, S, k) ==
  /\ \A t \in E : t >= n /\ (k > 0 => t < k)
  /\ k > 0 => n < k
  /\ \A t \in S : t >= n /\ (IF k > 0 THEN t < k ELSE \E y \in E : t <= y) => t \in E

\* V: the times that are shown, of S; they begin at the cursor k and miss none above it.
NoGap(V, S, k) ==
  /\ \A t \in V : t >= k
  /\ \A t \in S : \A y \in V : t <= y /\ t >= k => t \in V

LEMMA TimesAre ==
  FeedParameters => MaxTime \in Nat /\ \A e \in LogEvent : e.time \in 1..MaxTime /\ e.time \in Nat
BY DEF FeedParameters, LogEvent

\* The events R before the cursor k, of all times S.
ReadsAll(R, S, k) ==
  /\ \A e \in R : k > 0 => e.time < k
  /\ \A t \in S : (k > 0 => t < k) => \E e \in R : e.time = t

\* A page misses a time only below its last event.
LEMMA PageIsComplete ==
  ASSUME NEW R \in SUBSET LogEvent, NEW k \in Nat, NEW S \in SUBSET Nat, ReadsAll(R, S, k),
         NEW a \in Pages(R)
  PROVE  /\ a \in LogAnswers /\ a.events \subseteq R
         /\ a.next = 0 \/ \E e \in R : e.time = a.next
         /\ Complete(Times(a.events), a.next, S, k)
<1>1. PICK page \in SUBSET R :
        /\ IsPage(page, R)
        /\ a = [events |-> page, next |-> IF page = R THEN 0 ELSE Min({e.time : e \in page})]
  BY DEF Pages
<1>2. \A e \in R : e.time \in Nat /\ e.time \in 1..MaxTime
  BY TimesAre, FeedParameters
<1>3. /\ a.events = page
      /\ \A e \in R : k > 0 => e.time < k
      /\ \A t \in S : (k > 0 => t < k) => \E e \in R : e.time = t
  BY <1>1 DEF ReadsAll
<1>4. CASE page = R
  <2>1. a = [events |-> R, next |-> 0] /\ a.next = 0
    BY <1>1, <1>4
  <2>2. a \in LogAnswers
    BY <2>1, FeedParameters DEF LogAnswers
  <2>3. \A t \in Times(R) : t >= 0 /\ (k > 0 => t < k)
    BY <1>2, <1>3 DEF Times
  <2>4. \A t \in S : (k > 0 => t < k) => t \in Times(R)
    BY <1>3 DEF Times
  <2>5. Complete(Times(R), 0, S, k)
    BY <2>3, <2>4 DEF Complete
  <2>6. QED BY <1>3, <1>4, <2>1, <2>2, <2>5
<1>5. CASE page # R
  <2>1. page # {}
    BY <1>1, <1>5, FS_EmptySet, FeedParameters DEF IsPage
  <2>2. Times(page) \in SUBSET Nat /\ Times(page) # {}
    BY <1>2, <2>1 DEF Times
  <2>3. a.next = Min(Times(page)) /\ a = [events |-> page, next |-> a.next]
    BY <1>1, <1>5 DEF Times
  <2>4. a.next \in Times(page) /\ \A t \in Times(page) : a.next <= t
    BY <2>2, <2>3, MinIs
  <2>5. PICK last \in page : last.time = a.next
    BY <2>4 DEF Times
  <2>6. a.next \in 0..MaxTime /\ a.next \in Nat
    BY <1>2, <2>5, FeedParameters
  <2>7. a \in LogAnswers
    BY <2>3, <2>6 DEF LogAnswers
  <2>8. \A t \in Times(page) : t >= a.next /\ (k > 0 => t < k)
    BY <1>2, <1>3, <2>2, <2>4, <2>6 DEF Times
  <2>9. k > 0 => a.next < k
    BY <2>4, <2>8
  <2>10. ASSUME NEW t \in S, t >= a.next, k > 0 => t < k PROVE t \in Times(page)
    <3>1. PICK e \in R : e.time = t
      BY <1>3, <2>10
    <3>2. CASE e \in page
      BY <3>1, <3>2 DEF Times
    <3>3. CASE e \notin page
      <4>1. e.time <= last.time
        BY <1>1, <3>3 DEF IsPage
      <4>2. t = a.next
        BY <2>5, <2>6, <2>10, <3>1, <4>1
      <4>3. QED BY <2>4, <4>2
    <3>4. QED BY <3>2, <3>3
  <2>11. Complete(Times(page), a.next, S, k)
    BY <2>8, <2>9, <2>10 DEF Complete
  <2>12. QED BY <1>3, <2>5, <2>7, <2>11
<1>6. QED BY <1>4, <1>5

\* What a page shows has no hole, and a load joins on to what is shown.
LEMMA PageHasNoGap == ASSUME NEW E, NEW n, NEW S, Complete(E, n, S, 0) PROVE NoGap(E, S, n)
BY DEF Complete, NoGap

LEMMA LoadJoins ==
  ASSUME NEW E \in SUBSET Nat, NEW n \in Nat, NEW S \in SUBSET Nat, NEW V \in SUBSET Nat,
         NEW k \in Nat, k > 0, NoGap(V, S, k), Complete(E, n, S, k)
  PROVE  NoGap(V \cup E, S, n)
<1>1. n < k /\ \A t \in E : t >= n /\ t < k
  BY DEF Complete
<1>2. \A t \in V : t >= k
  BY DEF NoGap
<1>3. \A t \in V \cup E : t >= n
  BY <1>1, <1>2
<1>4. ASSUME NEW t \in S, NEW y \in V \cup E, t <= y, t >= n PROVE t \in V \cup E
  <2>1. CASE t < k
    BY <1>4, <2>1 DEF Complete
  <2>2. CASE t >= k
    <3>1. y \in V
      BY <1>1, <1>4, <2>2
    <3>2. QED BY <1>4, <2>2, <3>1 DEF NoGap
  <2>3. QED BY <2>1, <2>2
<1>5. QED BY <1>3, <1>4 DEF NoGap

\* Of the times T that are to be shown, all that are not of S are m or later, and
\* nothing later than m was answered or shown.
LEMMA CompleteOutlives ==
  ASSUME NEW m \in Nat, NEW E \in SUBSET Nat, NEW n \in Nat, NEW k \in Nat, k <= m,
         NEW S, NEW T \in SUBSET Nat, \A t \in T : t \in S \/ t >= m,
         \A t \in E : t <= m, Complete(E, n, S, k)
  PROVE  Complete(E, n, T, k)
<1>1. ASSUME NEW t \in T, t >= n, IF k > 0 THEN t < k ELSE \E y \in E : t <= y PROVE t \in E
  <2>1. CASE t \in S
    BY <1>1, <2>1 DEF Complete
  <2>2. CASE t >= m
    <3>1. CASE k > 0
      BY <1>1, <2>2, <3>1
    <3>2. CASE ~(k > 0)
      <4>1. PICK y \in E : t <= y
        BY <1>1, <3>2
      <4>2. t = y
        BY <2>2, <4>1
      <4>3. QED BY <4>2
    <3>3. QED BY <3>1, <3>2
  <2>3. QED BY <2>1, <2>2
<1>2. QED BY <1>1 DEF Complete

LEMMA GapOutlives ==
  ASSUME NEW m \in Nat, NEW V \in SUBSET Nat, NEW k, NEW S, NEW T \in SUBSET Nat,
         \A t \in T : t \in S \/ t >= m, \A t \in V : t <= m, NoGap(V, S, k)
  PROVE  NoGap(V, T, k)
<1>1. ASSUME NEW t \in T, NEW y \in V, t <= y, t >= k PROVE t \in V
  <2>1. CASE t \in S
    BY <1>1, <2>1 DEF NoGap
  <2>2. CASE t >= m
    <3>1. t = y
      BY <1>1, <2>2
    <3>2. QED BY <3>1
  <2>3. QED BY <2>1, <2>2
<1>2. QED BY <1>1 DEF NoGap

--------------------------------------------------------------------------------
(* The feed of events. *)

\* The times of the events that a filter is to show.
Seen(f) == Times(Matching(f) \ unread)

Within(a, m) == a # NoData => a.next <= m /\ \A e \in a.events : e.time <= m

GoodPage(a, f, S, k) ==
  a # NoData => /\ \A e \in a.events : Selects(f, e)
                /\ Complete(Times(a.events), a.next, S, k)

\* Nothing is of later than the newest event, so that a new one disturbs no page.
TimesDiscipline ==
  /\ \A e \in feedEvents \cup olderEvents : e.time <= feedTime
  /\ olderCursor <= feedTime
  /\ \A f \in Filters : Within(feedPages[f].data, feedTime) /\ Within(feedPages[f].answer, feedTime)
  /\ olderLoad # NoLoad => olderLoad.cursor <= feedTime /\ Within(olderLoad.answer, feedTime)

\* The entries of the cache are pages of their filters.
PagesDiscipline ==
  \A f \in Filters :
    GoodPage(feedPages[f].data, f, Seen(f), 0) /\ GoodPage(feedPages[f].answer, f, Seen(f), 0)

\* Unless a change of the filters overtook a load: what was and will be loaded is of
\* the filters.
LoadDiscipline ==
  /\ olderCursor = -1 => olderEvents = {}
  /\ ~overtaken =>
       /\ \A e \in olderEvents : Selects(feedFilter, e)
       /\ olderLoad # NoLoad =>
            /\ olderLoad.filter = feedFilter
            /\ GoodPage(olderLoad.answer, feedFilter, Seen(feedFilter), olderLoad.cursor)

\* Unless the page moved, too: all that is shown joins on at the cursor.
OlderDiscipline ==
  ~overtaken /\ ~slid =>
    /\ olderLoad # NoLoad => olderLoad.cursor = nextCursor
    /\ NoGap(Times(ShownEvents), Seen(feedFilter), nextCursor)

FeedInv ==
  FeedTypeOK /\ TimesDiscipline /\ PagesDiscipline /\ LoadDiscipline /\ OlderDiscipline

Loads == [filter : Filters, cursor : 1..MaxTime, answer : LogAnswers \cup {NoData}]

LEMMA FeedStart == FeedInit => FeedInv
<1> SUFFICES ASSUME FeedInit PROVE FeedInv
    OBVIOUS
<1>1. {} \in Filters /\ feedFilter = {} /\ olderLoad = NoLoad /\ olderEvents = {} /\ olderCursor = -1
      /\ feedEvents \subseteq LogEvent /\ feedTime \in 0..MaxTime /\ unread = {}
      /\ \A e \in feedEvents : e.time <= feedTime
  BY DEF FeedInit, Filters
<1>2. /\ feedPages \in [Filters -> Entries(LogAnswers)]
      /\ \A f \in Filters : feedPages[f].data = NoData /\ feedPages[f].answer = NoData
  <2>1. MountedEntry \in Entries(LogAnswers) /\ NoEntry \in Entries(LogAnswers)
    BY MountedType DEF NoEntry, Entries
  <2>2. MountedEntry.data = NoData /\ MountedEntry.answer = NoData
        /\ NoEntry.data = NoData /\ NoEntry.answer = NoData
    BY DEF MountedEntry, NoEntry
  <2>3. QED BY <2>1, <2>2 DEF FeedInit
<1>3. buried \in [LogKinds -> 0..MaxTime]
  BY FeedParameters DEF FeedInit
<1>4. FeedTypeOK
  BY <1>1, <1>2, <1>3, FeedParameters DEF FeedTypeOK
<1>5. TimesDiscipline
  BY <1>1, <1>2, FeedParameters DEF TimesDiscipline, Within
<1>6. PagesDiscipline
  BY <1>2 DEF PagesDiscipline, GoodPage
<1>7. nextCursor = 0 /\ Times(ShownEvents) = {}
  BY <1>1, <1>2 DEF nextCursor, ShownEvents, PageEvents, Feed, Times
<1>8. LoadDiscipline /\ OlderDiscipline
  BY <1>1, <1>7 DEF LoadDiscipline, OlderDiscipline, NoGap
<1>9. QED BY <1>4, <1>5, <1>6, <1>8 DEF FeedInv

\* What is shown, and where it goes on.
LEMMA ShownType ==
  ASSUME FeedTypeOK
  PROVE  /\ nextCursor \in 0..MaxTime /\ nextCursor \in Nat /\ feedTime \in Nat
         /\ Feed \in Entries(LogAnswers)
         /\ Feed.data # NoData => Feed.data \in LogAnswers
         /\ ShownEvents \subseteq LogEvent /\ Times(ShownEvents) \in SUBSET Nat
         /\ \A f : Seen(f) \in SUBSET Nat
<1>1. Feed \in Entries(LogAnswers) /\ olderCursor \in -1..MaxTime
  BY DEF FeedTypeOK, Feed
<1>2. Feed.data # NoData => Feed.data \in LogAnswers
  BY <1>1 DEF Entries
<1>3. Feed.data # NoData => Feed.data.next \in 0..MaxTime /\ Feed.data.events \subseteq LogEvent
  BY <1>2 DEF LogAnswers
<1>4. olderCursor # -1 => olderCursor \in 0..MaxTime
  BY <1>1, FeedParameters
<1>5. 0 \in 0..MaxTime /\ \A n \in 0..MaxTime : n \in Nat
  BY FeedParameters
<1>6. nextCursor \in 0..MaxTime
  BY <1>3, <1>4, <1>5, Zenon DEF nextCursor
<1>7. ShownEvents \subseteq LogEvent
  BY <1>3 DEF ShownEvents, PageEvents, FeedTypeOK
<1>8. \A E \in SUBSET LogEvent : Times(E) \in SUBSET Nat
  BY TimesAre, FeedParameters DEF Times
<1>9. \A f : Seen(f) \in SUBSET Nat
  <2>1. \A f : Matching(f) \ unread \in SUBSET LogEvent
    BY DEF Matching, FeedTypeOK
  <2>2. QED BY <1>8, <2>1 DEF Seen
<1>10. feedTime \in Nat
  BY <1>5 DEF FeedTypeOK
<1>11. QED BY <1>1, <1>2, <1>5, <1>6, <1>7, <1>8, <1>9, <1>10

LEMMA ShownWithin ==
  ASSUME FeedTypeOK, TimesDiscipline
  PROVE  nextCursor <= feedTime /\ \A t \in Times(ShownEvents) : t <= feedTime
<1>1. feedFilter \in Filters /\ feedTime \in Nat
  BY ShownType DEF FeedTypeOK
<1>2. Within(Feed.data, feedTime)
  BY <1>1 DEF TimesDiscipline, Feed
<1>3. nextCursor <= feedTime
  BY <1>1, <1>2 DEF nextCursor, Within, TimesDiscipline
<1>4. \A e \in ShownEvents : e.time <= feedTime
  BY <1>2 DEF ShownEvents, PageEvents, Within, TimesDiscipline
<1>5. QED BY <1>3, <1>4 DEF Times

LEMMA ShownIsSelected ==
  ASSUME PagesDiscipline, LoadDiscipline, FeedTypeOK, ~overtaken
  PROVE  \A e \in ShownEvents : Selects(feedFilter, e)
<1>1. feedFilter \in Filters
  BY DEF FeedTypeOK
<1>2. \A e \in PageEvents : Selects(feedFilter, e)
  BY <1>1 DEF PagesDiscipline, GoodPage, PageEvents, Feed
<1>3. QED BY <1>2 DEF LoadDiscipline, ShownEvents

\* An answer that is good stays so when events come, leave or are not read.
LEMMA GoodOutlives ==
  ASSUME NEW m \in Nat, NEW k \in Nat, k <= m, NEW f, NEW S, NEW T \in SUBSET Nat,
         \A t \in T : t \in S \/ t >= m,
         NEW a \in LogAnswers \cup {NoData}, Within(a, m), GoodPage(a, f, S, k)
  PROVE  GoodPage(a, f, T, k)
<1> SUFFICES ASSUME a # NoData PROVE Complete(Times(a.events), a.next, T, k)
    BY DEF GoodPage
<1>1. a.next \in 0..MaxTime /\ a.events \subseteq LogEvent
  BY DEF LogAnswers
<1>2. a.next \in Nat /\ Times(a.events) \in SUBSET Nat
  BY <1>1, TimesAre, FeedParameters DEF Times
<1>3. \A t \in Times(a.events) : t <= m
  BY DEF Times, Within
<1>4. Complete(Times(a.events), a.next, S, k)
  BY DEF GoodPage
<1>5. QED BY <1>2, <1>3, <1>4, CompleteOutlives

\* The steps that leave what is shown: of the rows, and of fetches and loads up to
\* their answers.
LEMMA RestsShown ==
  ASSUME FeedInv, FeedTypeOK', feedTime' >= feedTime, \A e \in feedEvents' : e.time <= feedTime',
         \A f \in Filters : \A t \in Seen(f)' : t \in Seen(f) \/ t >= feedTime,
         UNCHANGED <<feedFilter, olderEvents, olderCursor, overtaken, slid>>,
         \A f \in Filters :
           /\ feedPages'[f].data = feedPages[f].data
           /\ \/ feedPages'[f].answer \in {feedPages[f].answer, NoData}
              \/ /\ Within(feedPages'[f].answer, feedTime)
                 /\ GoodPage(feedPages'[f].answer, f, Seen(f)', 0),
         \/ olderLoad' \in {olderLoad, NoLoad}
         \/ /\ olderLoad' # NoLoad
            /\ olderLoad'.cursor <= feedTime /\ Within(olderLoad'.answer, feedTime)
            /\ ~overtaken =>
                 /\ olderLoad'.filter = feedFilter
                 /\ GoodPage(olderLoad'.answer, feedFilter, Seen(feedFilter)', olderLoad'.cursor)
                 /\ ~slid => olderLoad'.cursor = nextCursor
  PROVE  FeedInv'
<1>1. /\ FeedTypeOK /\ TimesDiscipline /\ PagesDiscipline /\ LoadDiscipline /\ OlderDiscipline
      /\ feedFilter \in Filters /\ feedTime \in Nat /\ feedTime' \in Nat
      /\ feedPages \in [Filters -> Entries(LogAnswers)]
      /\ olderEvents \subseteq LogEvent /\ olderCursor \in -1..MaxTime
  BY FeedParameters DEF FeedInv, FeedTypeOK
<1>2. \A f \in Filters : Seen(f)' \in SUBSET Nat
  <2>1. \A f : (Matching(f) \ unread)' \in SUBSET LogEvent
    BY DEF Matching, FeedTypeOK
  <2>2. \A E \in SUBSET LogEvent : Times(E) \in SUBSET Nat
    BY TimesAre, FeedParameters DEF Times
  <2>3. QED BY <2>1, <2>2 DEF Seen
<1>3. \A f \in Filters :
        /\ feedPages[f].data \in LogAnswers \cup {NoData}
        /\ feedPages[f].answer \in LogAnswers \cup {NoData}
  BY <1>1 DEF Entries
<1>4. \A a : Within(a, feedTime) /\ a \in LogAnswers \cup {NoData} => Within(a, feedTime')
  <2> SUFFICES ASSUME NEW a \in LogAnswers, Within(a, feedTime), a # NoData
               PROVE  a.next <= feedTime' /\ \A e \in a.events : e.time <= feedTime'
      BY DEF Within
  <2>1. a.next \in Nat /\ \A e \in a.events : e.time \in Nat
    BY TimesAre, FeedParameters DEF LogAnswers
  <2>2. QED BY <1>1, <2>1 DEF Within
<1>5. \A f \in Filters : /\ feedPages'[f].answer \in LogAnswers \cup {NoData}
                         /\ Within(feedPages'[f].answer, feedTime)
  <2>1. feedPages' \in [Filters -> Entries(LogAnswers)]
    BY DEF FeedTypeOK
  <2>2. QED BY <1>1, <2>1 DEF Entries, TimesDiscipline, Within
<1>6. olderLoad' \in Loads \cup {NoLoad}
      /\ (olderLoad' # NoLoad => /\ olderLoad'.cursor <= feedTime
                                 /\ Within(olderLoad'.answer, feedTime))
  <2>1. olderLoad' \in Loads \cup {NoLoad}
    BY DEF FeedTypeOK, Loads
  <2>2. QED BY <1>1, <2>1 DEF TimesDiscipline
<1>7. olderLoad' # NoLoad => olderLoad'.cursor \in Nat /\ olderLoad'.answer \in LogAnswers \cup {NoData}
  BY <1>6, FeedParameters DEF Loads
<1>8. TimesDiscipline'
  <2>1. \A e \in olderEvents : e.time <= feedTime'
    BY <1>1, TimesAre, FeedParameters DEF TimesDiscipline
  <2>2. olderCursor' <= feedTime'
    BY <1>1, FeedParameters DEF TimesDiscipline
  <2>3. \A f \in Filters : Within(feedPages'[f].data, feedTime') /\ Within(feedPages'[f].answer, feedTime')
    BY <1>1, <1>3, <1>4, <1>5 DEF TimesDiscipline
  <2>4. olderLoad' # NoLoad => olderLoad'.cursor <= feedTime' /\ Within(olderLoad'.answer, feedTime')
    BY <1>1, <1>4, <1>6, <1>7
  <2>5. QED BY <2>1, <2>2, <2>3, <2>4 DEF TimesDiscipline
<1>9. ASSUME NEW f \in Filters
      PROVE  GoodPage(feedPages'[f].data, f, Seen(f)', 0) /\ GoodPage(feedPages'[f].answer, f, Seen(f)', 0)
  <2>1. 0 \in Nat /\ 0 <= feedTime
    BY <1>1
  <2>2. GoodPage(NoData, f, Seen(f)', 0)
    BY DEF GoodPage
  <2>3. Within(feedPages[f].data, feedTime) /\ Within(feedPages[f].answer, feedTime)
    BY <1>1 DEF TimesDiscipline
  <2>4. GoodPage(feedPages[f].data, f, Seen(f), 0) /\ GoodPage(feedPages[f].answer, f, Seen(f), 0)
    BY <1>1 DEF PagesDiscipline
  <2>5. GoodPage(feedPages[f].data, f, Seen(f)', 0) /\ GoodPage(feedPages[f].answer, f, Seen(f)', 0)
    BY <1>1, <1>2, <1>3, <2>1, <2>3, <2>4, GoodOutlives
  <2>6. QED BY <2>2, <2>5
<1>10. PagesDiscipline'
  BY <1>9 DEF PagesDiscipline
<1>11. \A t \in Seen(feedFilter)' : t \in Seen(feedFilter) \/ t >= feedTime
  BY <1>1
<1>12. Seen(feedFilter)' \in SUBSET Nat
  BY <1>1, <1>2
<1>13. ASSUME ~overtaken, olderLoad' # NoLoad
       PROVE  /\ olderLoad'.filter = feedFilter
              /\ GoodPage(olderLoad'.answer, feedFilter, Seen(feedFilter)', olderLoad'.cursor)
  <2>1. CASE olderLoad' = olderLoad
    <3>1. /\ olderLoad.filter = feedFilter
          /\ GoodPage(olderLoad.answer, feedFilter, Seen(feedFilter), olderLoad.cursor)
      BY <1>1, <1>13, <2>1 DEF LoadDiscipline
    <3>2. /\ olderLoad.cursor \in Nat /\ olderLoad.cursor <= feedTime
          /\ olderLoad.answer \in LogAnswers \cup {NoData} /\ Within(olderLoad.answer, feedTime)
      BY <1>6, <1>7, <1>13, <2>1
    <3>3. GoodPage(olderLoad.answer, feedFilter, Seen(feedFilter)', olderLoad.cursor)
      BY <1>1, <1>11, <1>12, <3>1, <3>2, GoodOutlives
    <3>4. QED BY <2>1, <3>1, <3>3
  <2>2. CASE olderLoad' # olderLoad
    BY <1>13, <2>2
  <2>3. QED BY <2>1, <2>2
<1>14. LoadDiscipline'
  BY <1>1, <1>13 DEF LoadDiscipline
<1>15. ShownEvents' = ShownEvents /\ nextCursor' = nextCursor
  <2>1. feedPages'[feedFilter].data = feedPages[feedFilter].data
    BY <1>1
  <2>2. QED BY <2>1 DEF ShownEvents, PageEvents, nextCursor, Feed
<1>16. ~overtaken /\ ~slid => NoGap(Times(ShownEvents), Seen(feedFilter)', nextCursor)
  BY <1>1, <1>11, <1>12, ShownType, ShownWithin, GapOutlives DEF OlderDiscipline
<1>17. Times(ShownEvents)' = Times(ShownEvents)
  BY <1>15 DEF Times
<1>18. ~overtaken /\ ~slid /\ olderLoad' # NoLoad => olderLoad'.cursor = nextCursor
  BY <1>1 DEF OlderDiscipline
<1>19. OlderDiscipline'
  BY <1>15, <1>16, <1>17, <1>18 DEF OlderDiscipline
<1>20. QED BY <1>8, <1>10, <1>14, <1>19 DEF FeedInv

\* An event more is of now or late; an event less, and events not read, are less to show.
LEMMA SeenShrinks ==
  ASSUME feedEvents' \subseteq feedEvents, unread \subseteq unread', NEW f
  PROVE  \A t \in Seen(f)' : t \in Seen(f)
BY DEF Seen, Matching, Times

LEMMA EventsMoveStep == ASSUME FeedInv, EventHappens \/ EventLeaves \/ RowsCome PROVE FeedInv'
<1>1. /\ FeedTypeOK /\ feedTime \in 0..MaxTime /\ feedTime \in Nat /\ feedEvents \subseteq LogEvent
      /\ unread \subseteq LogEvent /\ buried \in [LogKinds -> 0..MaxTime]
      /\ \A e \in feedEvents : e.time <= feedTime
  BY FeedParameters DEF FeedInv, FeedTypeOK, TimesDiscipline
<1>2. UNCHANGED <<feedFilter, feedPages, olderEvents, olderCursor, olderLoad, overtaken, slid>>
  BY DEF EventHappens, EventLeaves, RowsCome
<1>3. /\ feedEvents' \subseteq LogEvent /\ feedTime' \in 0..MaxTime /\ feedTime' >= feedTime
      /\ buried' \in [LogKinds -> 0..MaxTime] /\ unread' \subseteq LogEvent
      /\ \A e \in feedEvents' : e.time <= feedTime'
      /\ \A f \in Filters : \A t \in Seen(f)' : t \in Seen(f) \/ t >= feedTime
  <2>1. CASE EventHappens
    <3>1. PICK e \in LogEvent :
            /\ feedEvents' = feedEvents \cup {e}
            /\ feedTime' = IF e.time > feedTime THEN e.time ELSE feedTime
            /\ unread' = IF e.time < feedTime THEN unread \cup {e} ELSE unread
      BY <2>1 DEF EventHappens
    <3>2. e.time \in 1..MaxTime /\ e.time \in Nat /\ \A x \in feedEvents : x.time \in Nat
      BY <1>1, TimesAre, FeedParameters
    <3>3. feedTime' \in 0..MaxTime /\ feedTime' >= feedTime /\ e.time <= feedTime'
      BY <1>1, <3>1, <3>2, FeedParameters
    <3>4. \A x \in feedEvents' : x.time <= feedTime'
      BY <1>1, <3>1, <3>2, <3>3
    <3>5. ASSUME NEW f \in Filters, NEW t \in Seen(f)' PROVE t \in Seen(f) \/ t >= feedTime
      <4>1. PICK x \in feedEvents' \ unread' : Selects(f, x) /\ t = x.time
        BY <3>5 DEF Seen, Matching, Times
      <4>2. unread \subseteq unread'
        BY <3>1
      <4>3. CASE x \in feedEvents
        BY <4>1, <4>2, <4>3 DEF Seen, Matching, Times
      <4>4. CASE x = e
        BY <1>1, <3>1, <3>2, <4>1, <4>4
      <4>5. QED BY <3>1, <4>1, <4>3, <4>4
    <3>6. buried' = buried
      BY <2>1 DEF EventHappens
    <3>7. QED BY <1>1, <3>1, <3>3, <3>4, <3>5, <3>6
  <2>2. CASE EventLeaves
    <3>1. feedEvents' \subseteq feedEvents /\ UNCHANGED <<feedTime, buried, unread>>
      BY <2>2 DEF EventLeaves
    <3>2. \A f \in Filters : \A t \in Seen(f)' : t \in Seen(f)
      BY <3>1, SeenShrinks
    <3>3. QED BY <1>1, <3>1, <3>2
  <2>3. CASE RowsCome
    <3>1. UNCHANGED <<feedEvents, feedTime, unread>>
      BY <2>3 DEF RowsCome
    <3>2. \A f \in Filters : \A t \in Seen(f)' : t \in Seen(f)
      BY <3>1, SeenShrinks
    <3>3. PICK k \in LogKinds, t \in 1..feedTime : buried' = [buried EXCEPT ![k] = t]
      BY <2>3 DEF RowsCome
    <3>4. t \in 0..MaxTime
      BY <1>1, FeedParameters
    <3>5. buried' \in [LogKinds -> 0..MaxTime]
      BY <1>1, <3>3, <3>4
    <3>6. QED BY <1>1, <3>1, <3>2, <3>5
  <2>4. QED BY <2>1, <2>2, <2>3
<1>4. FeedTypeOK'
  BY <1>1, <1>2, <1>3 DEF FeedTypeOK
<1>5. QED BY <1>2, <1>3, <1>4, RestsShown

\* What is read: all that is to be shown then, before the cursor, and nothing of later.
LEMMA ReadIs ==
  ASSUME FeedInv, NEW f, NEW k \in Nat, k <= feedTime, NEW upto, NEW made \in SUBSET MadeUp(k),
         UNCHANGED feedEvents, unread' = unread \cup Unread(upto), NEW a \in Pages(Read(f, k, upto, made))
  PROVE  a \in LogAnswers /\ Within(a, feedTime) /\ GoodPage(a, f, Seen(f)', k)
<1> SUFFICES ASSUME NEW R, R = Read(f, k, upto, made), NEW S, S = Seen(f)'
             PROVE  a \in LogAnswers /\ Within(a, feedTime) /\ GoodPage(a, f, S, k)
    OBVIOUS
<1>1. /\ FeedTypeOK /\ feedEvents \subseteq LogEvent /\ feedTime \in Nat
      /\ \A e \in feedEvents : e.time <= feedTime /\ e.time \in Nat
      /\ \A e \in made : e \in LogEvent /\ e.time < k /\ e.time \in Nat
  BY TimesAre, FeedParameters DEF FeedInv, FeedTypeOK, TimesDiscipline, MadeUp
<1>2. R \in SUBSET LogEvent /\ \A e \in R : Selects(f, e) /\ (k > 0 => e.time < k) /\ e.time <= feedTime
  BY <1>1 DEF Read
<1>3. S \in SUBSET Nat
  BY <1>1 DEF Seen, Matching, Times
<1>4. \A t \in S : (k > 0 => t < k) => \E e \in R : e.time = t
  <2> SUFFICES ASSUME NEW t \in S, k > 0 => t < k PROVE \E e \in R : e.time = t
      OBVIOUS
  <2>1. PICK e \in feedEvents' \ unread' : Selects(f, e) /\ t = e.time
    BY DEF Seen, Matching, Times
  <2>2. e \in feedEvents \ Unread(upto)
    BY <2>1
  <2>3. e \in R
    BY <2>1, <2>2 DEF Read
  <2>4. QED BY <2>1, <2>3
<1>5. /\ a \in LogAnswers /\ a.events \subseteq R /\ (a.next = 0 \/ \E e \in R : e.time = a.next)
      /\ Complete(Times(a.events), a.next, S, k)
  <2>1. a \in Pages(R)
    OBVIOUS
  <2>2. R \in SUBSET LogEvent /\ ReadsAll(R, S, k)
    BY <1>2, <1>4 DEF ReadsAll
  <2>3. QED BY <1>3, <2>1, <2>2, PageIsComplete
<1>6. Within(a, feedTime)
  BY <1>1, <1>2, <1>5 DEF Within
<1>7. QED BY <1>2, <1>5, <1>6 DEF GoodPage

\* Fetches, up to their answers.
LEMMA EntryMoves ==
  ASSUME FeedInv, UNCHANGED <<feedEvents, feedTime, buried, feedFilter, olderEvents, olderCursor,
                              olderLoad, overtaken, slid>>,
         unread \subseteq unread', unread' \subseteq LogEvent,
         NEW f \in Filters, NEW e \in Entries(LogAnswers),
         feedPages' = [feedPages EXCEPT ![f] = e], e.data = feedPages[f].data,
         \/ e.answer \in {feedPages[f].answer, NoData}
         \/ Within(e.answer, feedTime) /\ GoodPage(e.answer, f, Seen(f)', 0)
  PROVE  FeedInv'
<1>1. /\ FeedTypeOK /\ feedPages \in [Filters -> Entries(LogAnswers)] /\ feedTime \in Nat
      /\ \A x \in feedEvents : x.time <= feedTime
  BY ShownType DEF FeedInv, FeedTypeOK, TimesDiscipline
<1>2. \A g \in Filters : feedPages'[g] = IF g = f THEN e ELSE feedPages[g]
  BY <1>1
<1>3. feedPages' \in [Filters -> Entries(LogAnswers)]
  BY <1>1
<1>4. FeedTypeOK'
  BY <1>1, <1>3 DEF FeedTypeOK
<1>5. \A g \in Filters : \A t \in Seen(g)' : t \in Seen(g)
  BY SeenShrinks
<1>6. \A g \in Filters :
        /\ feedPages'[g].data = feedPages[g].data
        /\ \/ feedPages'[g].answer \in {feedPages[g].answer, NoData}
           \/ /\ Within(feedPages'[g].answer, feedTime)
              /\ GoodPage(feedPages'[g].answer, g, Seen(g)', 0)
  BY <1>2
<1>7. feedTime' >= feedTime /\ \A x \in feedEvents' : x.time <= feedTime'
  BY <1>1
<1>8. QED BY <1>4, <1>5, <1>6, <1>7, RestsShown

LEMMA FeedPageStep ==
  ASSUME FeedInv, NEW f \in Filters, NEW upto, FeedPage(f, upto) PROVE FeedInv'
<1>1. PICK a \in Pages(Read(f, 0, upto, {})) : FeedFetch(f, Answered(feedPages[f], a))
  BY DEF FeedPage
<1>2. /\ UNCHANGED <<feedEvents, feedTime, buried, feedFilter, olderEvents, olderCursor, olderLoad,
                     overtaken, slid>>
      /\ feedPages' = [feedPages EXCEPT ![f] = Answered(feedPages[f], a)]
      /\ unread' = unread \cup Unread(upto)
  BY <1>1 DEF FeedPage, FeedFetch, feedRows
<1>3. /\ unread \subseteq LogEvent /\ feedEvents \subseteq LogEvent
      /\ feedPages[f] \in Entries(LogAnswers) /\ feedTime \in Nat
  BY ShownType DEF FeedInv, FeedTypeOK
<1>4. unread' \subseteq LogEvent
  BY <1>2, <1>3 DEF Unread
<1>5. a \in LogAnswers /\ Within(a, feedTime) /\ GoodPage(a, f, Seen(f)', 0)
  <2>1. 0 \in Nat /\ 0 <= feedTime /\ {} \in SUBSET MadeUp(0)
    BY <1>3
  <2>2. feedEvents' = feedEvents /\ unread' = unread \cup Unread(upto)
    BY <1>2
  <2>3. QED BY <2>1, <2>2, ReadIs, Zenon
<1>6. /\ Answered(feedPages[f], a) \in Entries(LogAnswers)
      /\ Answered(feedPages[f], a).data = feedPages[f].data
      /\ Answered(feedPages[f], a).answer = a
  <2>1. feedPages[f] \in Entries(LogAnswers) /\ a \in LogAnswers
    BY <1>3, <1>5
  <2>2. Answered(feedPages[f], a) \in Entries(LogAnswers)
    BY <2>1, EntryTypes
  <2>3. Answered(feedPages[f], a).data = feedPages[f].data /\ Answered(feedPages[f], a).answer = a
    BY <2>1, EntryData
  <2>4. QED BY <2>2, <2>3
<1>7. unread \subseteq unread'
  BY <1>2
<1> DEFINE e == Answered(feedPages[f], a)
<1>8. /\ e \in Entries(LogAnswers) /\ e.data = feedPages[f].data
      /\ feedPages' = [feedPages EXCEPT ![f] = e]
      /\ Within(e.answer, feedTime) /\ GoodPage(e.answer, f, Seen(f)', 0)
  BY <1>2, <1>5, <1>6
<1> HIDE DEF e
<1>9. QED BY <1>2, <1>4, <1>7, <1>8, EntryMoves, Zenon

FetchesPage ==
  FeedPoll \/ \E f \in Filters : FeedAnswered(f) \/ FeedAnsweredPartly(f) \/ FeedFails(f)

LEMMA FetchesPageStep == ASSUME FeedInv, FetchesPage PROVE FeedInv'
<1>1. /\ feedPages \in [Filters -> Entries(LogAnswers)] /\ feedFilter \in Filters
      /\ unread \subseteq LogEvent
  BY DEF FeedInv, FeedTypeOK
<1>2. ASSUME NEW f \in Filters, NEW e \in {Asked(feedPages[f]), Failed(feedPages[f])},
             feedPages' = [feedPages EXCEPT ![f] = e], UNCHANGED unread,
             UNCHANGED <<feedEvents, feedTime, buried, feedFilter, olderEvents, olderCursor,
                         olderLoad, overtaken, slid>>
      PROVE  FeedInv'
  <2>1. feedPages[f] \in Entries(LogAnswers)
    BY <1>1
  <2>2. /\ e \in Entries(LogAnswers) /\ e.data = feedPages[f].data
        /\ e.answer \in {feedPages[f].answer, NoData}
    BY <2>1, EntryTypes, EntryData
  <2>3. QED BY <1>1, <1>2, <2>2, EntryMoves
<1>3. CASE FeedPoll
  BY <1>1, <1>2, <1>3 DEF FeedPoll, FeedFetch, Feed, feedRows
<1>4. ASSUME NEW f \in Filters, FeedFails(f) PROVE FeedInv'
  BY <1>2, <1>4 DEF FeedFails, feedRows
<1>5. ASSUME NEW f \in Filters, FeedAnswered(f) PROVE FeedInv'
  <2>1. CASE FeedPage(f, buried)
    BY <2>1, FeedPageStep
  <2>2. CASE ~FeedPage(f, buried)
    BY <1>2, <1>5, <2>2 DEF FeedAnswered, FeedFetch, feedRows
  <2>3. QED BY <2>1, <2>2
<1>6. ASSUME NEW f \in Filters, FeedAnsweredPartly(f) PROVE FeedInv'
  BY <1>6, FeedPageStep DEF FeedAnsweredPartly
<1>7. QED BY <1>3, <1>4, <1>5, <1>6 DEF FetchesPage

\* The entries of the cache, while the rows stay.
LEMMA SeenKept == ASSUME UNCHANGED <<feedEvents, unread>>, NEW f PROVE Seen(f)' = Seen(f)
BY DEF Seen, Matching

LEMMA PagesMove ==
  ASSUME FeedInv, UNCHANGED <<feedEvents, unread>>, NEW f \in Filters, NEW e \in Entries(LogAnswers),
         feedPages' = [feedPages EXCEPT ![f] = e],
         GoodPage(e.data, f, Seen(f), 0), GoodPage(e.answer, f, Seen(f), 0),
         Within(e.data, feedTime), Within(e.answer, feedTime)
  PROVE  /\ feedPages' \in [Filters -> Entries(LogAnswers)] /\ PagesDiscipline'
         /\ \A g \in Filters : Within(feedPages'[g].data, feedTime) /\ Within(feedPages'[g].answer, feedTime)
<1>1. feedPages \in [Filters -> Entries(LogAnswers)] /\ PagesDiscipline /\ TimesDiscipline
  BY DEF FeedInv, FeedTypeOK
<1>2. \A g \in Filters : feedPages'[g] = IF g = f THEN e ELSE feedPages[g]
  BY <1>1
<1>3. \A g \in Filters : GoodPage(feedPages'[g].data, g, Seen(g), 0) /\ GoodPage(feedPages'[g].answer, g, Seen(g), 0)
  BY <1>1, <1>2 DEF PagesDiscipline
<1>4. PagesDiscipline'
  BY <1>3, SeenKept DEF PagesDiscipline
<1>5. QED BY <1>1, <1>2, <1>4 DEF TimesDiscipline

LEMMA FeedLandsStep == ASSUME FeedInv, NEW f \in Filters, FeedLands(f) PROVE FeedInv'
<1>1. /\ FeedTypeOK /\ TimesDiscipline /\ PagesDiscipline /\ LoadDiscipline /\ OlderDiscipline
      /\ feedPages \in [Filters -> Entries(LogAnswers)] /\ feedFilter \in Filters
      /\ feedPages[f] \in Entries(LogAnswers)
  BY DEF FeedInv, FeedTypeOK
<1>2. /\ UNCHANGED <<feedEvents, feedTime, buried, feedFilter, olderEvents, olderCursor, olderLoad,
                     overtaken, unread>>
      /\ feedPages' = [feedPages EXCEPT ![f] = Landed(feedPages[f])]
  BY DEF FeedLands, FeedFetch, feedRows
<1>3. ~slid' => /\ ~slid
                /\ \/ f # feedFilter \/ feedPages[f].answer = feedPages[f].data
                   \/ olderCursor = -1 /\ olderLoad = NoLoad
  BY Zenon DEF FeedLands
<1>4. /\ Landed(feedPages[f]) \in Entries(LogAnswers)
      /\ Landed(feedPages[f]).data = feedPages[f].answer /\ Landed(feedPages[f]).answer = NoData
  BY <1>1, EntryTypes, EntryData
<1>5. /\ feedPages' \in [Filters -> Entries(LogAnswers)] /\ PagesDiscipline'
      /\ \A g \in Filters : Within(feedPages'[g].data, feedTime) /\ Within(feedPages'[g].answer, feedTime)
  <2>1. GoodPage(feedPages[f].answer, f, Seen(f), 0) /\ GoodPage(NoData, f, Seen(f), 0)
    BY <1>1 DEF PagesDiscipline, GoodPage
  <2>2. Within(feedPages[f].answer, feedTime) /\ Within(NoData, feedTime)
    BY <1>1 DEF TimesDiscipline, Within
  <2>3. QED BY <1>2, <1>4, <2>1, <2>2, PagesMove
<1>6. FeedTypeOK' /\ TimesDiscipline'
  BY <1>1, <1>2, <1>5 DEF FeedTypeOK, TimesDiscipline
<1>7. Seen(feedFilter)' = Seen(feedFilter)
  BY <1>2 DEF Seen, Matching
<1>8. LoadDiscipline'
  BY <1>1, <1>2, <1>7 DEF LoadDiscipline
<1>9. OlderDiscipline'
  <2>1. CASE f # feedFilter \/ feedPages[f].answer = feedPages[f].data
    <3>1. feedPages'[feedFilter].data = feedPages[feedFilter].data
      BY <1>1, <1>2, <1>4, <2>1
    <3>2. ShownEvents' = ShownEvents /\ nextCursor' = nextCursor
      BY <1>2, <3>1 DEF ShownEvents, PageEvents, nextCursor, Feed
    <3>3. Times(ShownEvents)' = Times(ShownEvents)
      BY <3>2 DEF Times
    <3>4. QED BY <1>1, <1>2, <1>3, <1>7, <3>2, <3>3 DEF OlderDiscipline
  <2>2. CASE f = feedFilter /\ feedPages[f].answer # feedPages[f].data
    <3> SUFFICES ASSUME olderCursor = -1, olderLoad = NoLoad
                 PROVE  NoGap(Times(ShownEvents)', Seen(feedFilter), nextCursor')
        BY <1>2, <1>3, <1>7, <2>2 DEF OlderDiscipline
    <3> DEFINE a == feedPages[feedFilter].answer
    <3>1. Feed'.data = a
      BY <1>1, <1>2, <1>4, <2>2 DEF Feed
    <3>2. GoodPage(a, feedFilter, Seen(feedFilter), 0)
      BY <1>1 DEF PagesDiscipline
    <3>3. olderEvents = {}
      BY <1>1 DEF LoadDiscipline
    <3>4. ShownEvents' = (IF a = NoData THEN {} ELSE a.events)
          /\ nextCursor' = (IF a = NoData THEN 0 ELSE a.next)
      BY <1>2, <3>1, <3>3 DEF ShownEvents, PageEvents, nextCursor
    <3> HIDE DEF a
    <3>5. CASE a = NoData
      BY <3>4, <3>5 DEF NoGap, Times
    <3>6. CASE a # NoData
      <4>1. Times(ShownEvents)' = Times(a.events) /\ nextCursor' = a.next
        BY <3>4, <3>6 DEF Times
      <4>2. QED BY <3>2, <3>6, <4>1, PageHasNoGap DEF GoodPage
    <3>7. QED BY <3>5, <3>6
  <2>3. QED BY <2>1, <2>2
<1>10. QED BY <1>5, <1>6, <1>8, <1>9 DEF FeedInv

\* A change of the filters starts over.
LEMMA SetFiltersStep == ASSUME FeedInv, SetFilters PROVE FeedInv'
<1>1. /\ FeedTypeOK /\ TimesDiscipline /\ PagesDiscipline
      /\ feedPages \in [Filters -> Entries(LogAnswers)] /\ feedFilter \in Filters
      /\ feedTime \in Nat
  BY ShownType DEF FeedInv, FeedTypeOK
<1>2. PICK f \in Filters : feedFilter' = f /\ feedPages' = [feedPages EXCEPT ![f] = Asked(feedPages[f])]
  BY <1>1 DEF SetFilters
<1>3. /\ olderEvents' = {} /\ olderCursor' = -1
      /\ UNCHANGED <<feedEvents, feedTime, buried, olderLoad, unread>>
  BY DEF SetFilters, feedRows
<1>4. ~overtaken' => olderLoad' = NoLoad
  BY Zenon DEF SetFilters
<1>5. feedPages[f] \in Entries(LogAnswers)
  BY <1>1
<1>6. /\ Asked(feedPages[f]) \in Entries(LogAnswers)
      /\ Asked(feedPages[f]).data = feedPages[f].data
      /\ Asked(feedPages[f]).answer = feedPages[f].answer
  BY <1>5, EntryTypes, EntryData
<1>7. GoodPage(feedPages[f].data, f, Seen(f), 0) /\ GoodPage(feedPages[f].answer, f, Seen(f), 0)
      /\ Within(feedPages[f].data, feedTime) /\ Within(feedPages[f].answer, feedTime)
  BY <1>1 DEF PagesDiscipline, TimesDiscipline
<1>8. /\ feedPages' \in [Filters -> Entries(LogAnswers)] /\ PagesDiscipline'
      /\ \A g \in Filters : Within(feedPages'[g].data, feedTime) /\ Within(feedPages'[g].answer, feedTime)
  BY <1>2, <1>3, <1>6, <1>7, PagesMove
<1>9. FeedTypeOK'
  BY <1>1, <1>2, <1>3, <1>8, FeedParameters DEF FeedTypeOK
<1>10. TimesDiscipline'
  BY <1>1, <1>3, <1>8, FeedParameters DEF TimesDiscipline
<1> DEFINE a == feedPages[f].data
<1>11. Feed'.data = a
  BY <1>1, <1>2, <1>6 DEF Feed
<1>12. /\ ShownEvents' = IF a = NoData THEN {} ELSE a.events
       /\ nextCursor' = IF a = NoData THEN 0 ELSE a.next
  BY <1>3, <1>11 DEF ShownEvents, PageEvents, nextCursor
<1>13. Seen(feedFilter)' = Seen(f)
  BY <1>2, <1>3 DEF Seen, Matching
<1> HIDE DEF a
<1>14. NoGap(Times(ShownEvents)', Seen(f), nextCursor')
  <2>1. CASE a = NoData
    BY <1>12, <2>1 DEF NoGap, Times
  <2>2. CASE a # NoData
    <3>1. Times(ShownEvents)' = Times(a.events) /\ nextCursor' = a.next
      BY <1>12, <2>2 DEF Times
    <3>2. QED BY <1>7, <2>2, <3>1, PageHasNoGap DEF GoodPage, a
  <2>3. QED BY <2>1, <2>2
<1>15. LoadDiscipline' /\ OlderDiscipline'
  BY <1>3, <1>4, <1>13, <1>14 DEF LoadDiscipline, OlderDiscipline
<1>16. QED BY <1>8, <1>9, <1>10, <1>15 DEF FeedInv

\* "Load older".
LEMMA LoadMoves ==
  ASSUME FeedInv, UNCHANGED <<feedEvents, feedTime, buried, feedFilter, feedPages, olderEvents,
                              olderCursor, overtaken, slid>>,
         unread \subseteq unread', unread' \subseteq LogEvent, olderLoad' \in Loads \cup {NoLoad},
         olderLoad' # NoLoad =>
            /\ olderLoad'.cursor <= feedTime /\ Within(olderLoad'.answer, feedTime)
            /\ ~overtaken =>
                 /\ olderLoad'.filter = feedFilter
                 /\ GoodPage(olderLoad'.answer, feedFilter, Seen(feedFilter)', olderLoad'.cursor)
                 /\ ~slid => olderLoad'.cursor = nextCursor
  PROVE  FeedInv'
<1>1. FeedTypeOK /\ feedTime \in Nat /\ \A x \in feedEvents : x.time <= feedTime
  BY ShownType DEF FeedInv, FeedTypeOK, TimesDiscipline
<1>2. FeedTypeOK'
  BY <1>1 DEF FeedTypeOK, Loads
<1>3. \A g \in Filters : \A t \in Seen(g)' : t \in Seen(g)
  BY SeenShrinks
<1>4. feedTime' >= feedTime /\ \A x \in feedEvents' : x.time <= feedTime'
  BY <1>1
<1>5. QED BY <1>2, <1>3, <1>4, RestsShown

LEMMA LoadOlderStep == ASSUME FeedInv, LoadOlder PROVE FeedInv'
<1>1. /\ FeedTypeOK /\ TimesDiscipline /\ feedFilter \in Filters /\ unread \subseteq LogEvent
  BY DEF FeedInv, FeedTypeOK
<1>2. /\ UNCHANGED <<feedEvents, feedTime, buried, feedFilter, feedPages, olderEvents, olderCursor,
                     overtaken, slid, unread>>
      /\ nextCursor # 0
      /\ olderLoad' = [filter |-> feedFilter, cursor |-> nextCursor, answer |-> NoData]
  BY DEF LoadOlder, feedRows
<1>3. nextCursor \in 1..MaxTime /\ nextCursor <= feedTime
  BY <1>1, <1>2, ShownType, ShownWithin, FeedParameters
<1>4. olderLoad' \in Loads
  BY <1>1, <1>2, <1>3 DEF Loads
<1>5. Within(NoData, feedTime) /\ GoodPage(NoData, feedFilter, Seen(feedFilter)', nextCursor)
  BY DEF Within, GoodPage
<1>6. QED BY <1>1, <1>2, <1>3, <1>4, <1>5, LoadMoves

LEMMA OlderAnsweredStep == ASSUME FeedInv, OlderAnswered PROVE FeedInv'
<1>1. /\ FeedTypeOK /\ TimesDiscipline /\ LoadDiscipline /\ OlderDiscipline /\ olderLoad \in Loads
      /\ olderLoad # NoLoad /\ unread \subseteq LogEvent /\ feedEvents \subseteq LogEvent
  BY DEF FeedInv, FeedTypeOK, OlderAnswered, Loads
<1>2. PICK upto \in [LogKinds -> 0..olderLoad.cursor - 1], made \in SUBSET MadeUp(olderLoad.cursor) :
        /\ \E a \in Pages(Read(olderLoad.filter, olderLoad.cursor, upto, made)) :
             olderLoad' = [olderLoad EXCEPT !.answer = a]
        /\ unread' = unread \cup Unread(upto)
  BY DEF OlderAnswered
<1>3. PICK a \in Pages(Read(olderLoad.filter, olderLoad.cursor, upto, made)) :
        olderLoad' = [olderLoad EXCEPT !.answer = a]
  BY <1>2
<1>4. UNCHANGED <<feedEvents, feedTime, buried, feedFilter, feedPages, olderEvents, olderCursor,
                  overtaken, slid>>
  BY DEF OlderAnswered, feedRows
<1>5. olderLoad.cursor \in Nat /\ olderLoad.cursor <= feedTime
  BY <1>1, FeedParameters DEF Loads, TimesDiscipline
<1>6. /\ a \in LogAnswers /\ Within(a, feedTime)
      /\ ~overtaken => GoodPage(a, feedFilter, Seen(feedFilter)', olderLoad.cursor)
  <2>1. feedEvents' = feedEvents /\ unread' = unread \cup Unread(upto)
    BY <1>2, <1>4
  <2>2. a \in LogAnswers /\ Within(a, feedTime)
    BY <1>5, <2>1, ReadIs, Zenon
  <2>3. ASSUME ~overtaken PROVE GoodPage(a, feedFilter, Seen(feedFilter)', olderLoad.cursor)
    <3>1. a \in Pages(Read(feedFilter, olderLoad.cursor, upto, made))
      BY <1>1, <1>3, <2>3 DEF LoadDiscipline
    <3>2. \A f : f = feedFilter => GoodPage(a, f, Seen(f)', olderLoad.cursor)
      BY <1>5, <2>1, <3>1, ReadIs, Zenon
    <3>3. QED BY <1>4, <3>2
  <2>4. QED BY <2>2, <2>3
<1>7. /\ olderLoad' \in Loads /\ olderLoad'.filter = olderLoad.filter
      /\ olderLoad'.cursor = olderLoad.cursor /\ olderLoad'.answer = a
  BY <1>1, <1>3, <1>6 DEF Loads
<1>8. unread \subseteq unread' /\ unread' \subseteq LogEvent
  BY <1>1, <1>2 DEF Unread
<1>9. ~overtaken => /\ olderLoad.filter = feedFilter
                    /\ ~slid => olderLoad.cursor = nextCursor
  BY <1>1 DEF LoadDiscipline, OlderDiscipline
<1>10. QED BY <1>4, <1>5, <1>6, <1>7, <1>8, <1>9, LoadMoves

LEMMA OlderFailsStep == ASSUME FeedInv, OlderFails PROVE FeedInv'
<1>1. unread \subseteq LogEvent
  BY DEF FeedInv, FeedTypeOK
<1>2. /\ UNCHANGED <<feedEvents, feedTime, buried, feedFilter, feedPages, olderEvents, olderCursor,
                     overtaken, slid, unread>>
      /\ olderLoad' = NoLoad
  BY DEF OlderFails, feedRows
<1>3. QED BY <1>1, <1>2, LoadMoves

LEMMA OlderLandsStep == ASSUME FeedInv, OlderLands PROVE FeedInv'
<1> DEFINE a == olderLoad.answer
           S == Seen(feedFilter)
<1>1. /\ FeedTypeOK /\ TimesDiscipline /\ PagesDiscipline /\ LoadDiscipline /\ OlderDiscipline
      /\ olderLoad \in Loads /\ olderLoad # NoLoad /\ a # NoData
  BY DEF FeedInv, FeedTypeOK, OlderLands, Loads
<1>2. /\ UNCHANGED <<feedEvents, feedTime, buried, feedFilter, feedPages, overtaken, slid, unread>>
      /\ olderEvents' = olderEvents \cup a.events /\ olderCursor' = a.next /\ olderLoad' = NoLoad
  BY DEF OlderLands, feedRows
<1>3. a \in LogAnswers /\ olderLoad.cursor \in Nat /\ olderLoad.cursor > 0
  BY <1>1, FeedParameters DEF Loads
<1>4. a.events \subseteq LogEvent /\ a.next \in 0..MaxTime
  BY <1>3 DEF LogAnswers
<1>5. a.next \in -1..MaxTime /\ a.next # -1 /\ a.next \in Nat
  BY <1>4, FeedParameters
<1>6. FeedTypeOK'
  BY <1>1, <1>2, <1>4, <1>5 DEF FeedTypeOK
<1>7. TimesDiscipline'
  BY <1>1, <1>2 DEF TimesDiscipline, Within
<1>8. ShownEvents' = ShownEvents \cup a.events
  BY <1>2 DEF ShownEvents, PageEvents, Feed
<1>9. Times(ShownEvents)' = Times(ShownEvents) \cup Times(a.events)
  BY <1>8 DEF Times
<1>10. nextCursor' = a.next
  BY <1>2, <1>5 DEF nextCursor
<1>11. Seen(feedFilter)' = S
  BY <1>2 DEF Seen, Matching
<1>12. S \in SUBSET Nat /\ Times(ShownEvents) \in SUBSET Nat
  BY <1>1, ShownType
<1>13. Times(a.events) \in SUBSET Nat
  BY <1>4, TimesAre, FeedParameters DEF Times
<1>14. ~overtaken => GoodPage(a, feedFilter, S, olderLoad.cursor)
  BY <1>1 DEF LoadDiscipline
<1> HIDE DEF a, S
<1>15. LoadDiscipline'
  BY <1>1, <1>2, <1>5, <1>14 DEF LoadDiscipline, GoodPage
<1>16. OlderDiscipline'
  <2> SUFFICES ASSUME ~overtaken, ~slid PROVE NoGap(Times(ShownEvents)', S, nextCursor')
      BY <1>2, <1>11 DEF OlderDiscipline
  <2>1. NoGap(Times(ShownEvents), S, olderLoad.cursor)
    BY <1>1 DEF OlderDiscipline, S
  <2>2. Complete(Times(a.events), a.next, S, olderLoad.cursor)
    BY <1>1, <1>14 DEF GoodPage
  <2>3. NoGap(Times(ShownEvents) \cup Times(a.events), S, a.next)
    BY <1>3, <1>5, <1>12, <1>13, <2>1, <2>2, LoadJoins
  <2>4. QED BY <1>9, <1>10, <2>3
<1>17. PagesDiscipline'
  BY <1>1, <1>2, SeenKept DEF PagesDiscipline
<1>18. QED BY <1>6, <1>7, <1>15, <1>16, <1>17 DEF FeedInv

LEMMA FeedStep == ASSUME FeedInv, FeedNext PROVE FeedInv'
<1>1. \/ EventHappens \/ EventLeaves \/ RowsCome \/ FetchesPage \/ \E f \in Filters : FeedLands(f)
      \/ SetFilters \/ LoadOlder \/ OlderAnswered \/ OlderLands \/ OlderFails
  BY Zenon DEF FeedNext, FetchesPage
<1>2. QED BY <1>1, EventsMoveStep, FetchesPageStep, FeedLandsStep, SetFiltersStep, LoadOlderStep,
             OlderAnsweredStep, OlderLandsStep, OlderFailsStep, Zenon

\* The feed shows what its filters select, and skips no moment.
LEMMA FeedShows == FeedInv => FeedMatchesFilter /\ NoHoleInFeed
<1> SUFFICES ASSUME FeedInv PROVE FeedMatchesFilter /\ NoHoleInFeed
    OBVIOUS
<1>1. ~overtaken => \A e \in ShownEvents : Selects(feedFilter, e)
  BY ShownIsSelected DEF FeedInv
<1>2. /\ nextCursor \in Nat /\ Seen(feedFilter) \in SUBSET Nat
      /\ \A e \in ShownEvents : e.time \in Nat
  BY ShownType, TimesAre, FeedParameters DEF FeedInv
<1>3. ASSUME ~overtaken, ~slid, NEW e \in Matching(feedFilter) \ unread,
             NEW x \in ShownEvents, NEW y \in ShownEvents, x.time < e.time, e.time < y.time
      PROVE  \E z \in ShownEvents : z.time = e.time
  <2>1. NoGap(Times(ShownEvents), Seen(feedFilter), nextCursor)
    BY <1>3 DEF FeedInv, OlderDiscipline
  <2>2. x.time \in Times(ShownEvents) /\ y.time \in Times(ShownEvents) /\ e.time \in Seen(feedFilter)
    BY DEF Times, Seen
  <2>3. e.time \in Nat /\ x.time \in Nat /\ y.time \in Nat
    BY <1>2, <2>2
  <2>4. x.time >= nextCursor
    BY <2>1, <2>2 DEF NoGap
  <2>5. e.time >= nextCursor /\ e.time <= y.time
    BY <1>2, <1>3, <2>3, <2>4
  <2>6. e.time \in Times(ShownEvents)
    BY <2>1, <2>2, <2>5 DEF NoGap
  <2>7. QED BY <2>6 DEF Times
<1>4. QED BY <1>1, <1>3, Zenon DEF FeedMatchesFilter, NoHoleInFeed

--------------------------------------------------------------------------------
(* Routes, redirects and the menu. *)

\* Guards, redirects and the menu know the paths of the router only.
LEMMA PathsOf ==
  /\ \A role : roleDefaultRoute(role) \in Paths
  /\ \A p \in Paths : Forward(p) \in Paths
  /\ \A role : \A p \in Paths : NextPath(role, p) \in Paths
  /\ \A i \in navItems : i.to \in Paths
<1>1. \A role : roleDefaultRoute(role) \in Paths
  BY DEF roleDefaultRoute, Paths, MlopsPaths, NocPaths
<1>2. \A p \in Paths : Forward(p) \in Paths
  BY DEF Forward, Paths, ToolPaths, NocPaths, ControlPaths
<1>3. "/login" \in Paths
  BY DEF Paths
<1>4. \A role : \A p \in Paths : Guarded(role, p) \in Paths
  BY <1>1, <1>3 DEF Guarded
<1>5. \A role : \A p \in Paths : NextPath(role, p) \in Paths
  BY <1>1, <1>2, <1>4 DEF NextPath
<1>6. \A i \in navItems : i.to \in Paths
  BY DEF navItems, Paths, MlopsPaths, NocPaths, ControlPaths, ToolPaths, CommonPaths
<1>7. QED BY <1>1, <1>2, <1>5, <1>6

\* The guards, section by section.
LEMMA AllowedAre ==
  /\ \A p \in NocPaths : AllowedRoles(p) = adminActorRoles \cup nocActorRoles
  /\ \A p \in MlopsPaths \cup ControlPaths \cup ToolPaths :
       AllowedRoles(p) = adminActorRoles \cup mlopsActorRoles
  /\ AllowedRoles("/admin/users") = adminActorRoles
  /\ \A p \in CommonPaths : AllowedRoles(p) = allActorRoles
<1> DEFINE Ops == MlopsPaths \cup ControlPaths \cup ToolPaths
<1>1. \A p \in Ops : p \notin NocPaths /\ p # "/admin/users" /\ p \notin CommonPaths
  BY DEF NocPaths, MlopsPaths, ControlPaths, ToolPaths, CommonPaths
<1>2. "/admin/users" \notin NocPaths \cup CommonPaths
  BY DEF NocPaths, CommonPaths
<1>3. \A p \in CommonPaths : p \notin NocPaths
  BY DEF NocPaths, CommonPaths
<1>4. "/admin/users" \notin Ops
  BY <1>1
<1>5. \A p \in NocPaths : p \notin Ops /\ p # "/admin/users" /\ p \notin CommonPaths
  BY <1>1, <1>2, <1>3
<1>6. \A p \in CommonPaths : p \notin NocPaths /\ p # "/admin/users" /\ p \notin Ops
  BY <1>1, <1>2, <1>3
<1>7. \A p : AllowedRoles(p) = CASE p \in NocPaths -> adminActorRoles \cup nocActorRoles
                                 [] p \in Ops -> adminActorRoles \cup mlopsActorRoles
                                 [] p = "/admin/users" -> adminActorRoles
                                 [] p \in CommonPaths -> allActorRoles
  BY Zenon DEF AllowedRoles
<1> HIDE DEF Ops
<1>8. /\ \A p \in NocPaths : AllowedRoles(p) = adminActorRoles \cup nocActorRoles
      /\ AllowedRoles("/admin/users") = adminActorRoles
  BY <1>2, <1>4, <1>5, <1>7
<1>9. \A p \in Ops : AllowedRoles(p) = adminActorRoles \cup mlopsActorRoles
  BY <1>1, <1>7
<1>10. \A p \in CommonPaths : AllowedRoles(p) = allActorRoles
  BY <1>6, <1>7
<1>11. QED BY <1>8, <1>9, <1>10 DEF Ops

LEMMA RoutingStart == RoutingInit => RoutingTypeOK
BY RoutingParameters DEF RoutingInit, RoutingTypeOK, Paths

LEMMA RoutingStep == ASSUME RoutingTypeOK, RoutingNext PROVE RoutingTypeOK'
<1>1. /\ signedIn \in allActorRoles \cup {"nobody"} /\ submitted \in allActorRoles \cup {"nobody"}
      /\ path \in Paths /\ from \in Paths /\ moves \in 0..MaxMoves /\ validating \in BOOLEAN
  BY DEF RoutingTypeOK
<1>2. /\ signedIn' \in allActorRoles \cup {"nobody"} /\ submitted' \in allActorRoles \cup {"nobody"}
      /\ moves' \in 0..MaxMoves /\ validating' \in BOOLEAN
  <2>1. moves' \in 0..MaxMoves
    BY <1>1, RoutingParameters
    DEF RoutingNext, Validated, FollowRedirect, LoggedIn, SubmitNavigates, UserChanges, GoTo
  <2>2. signedIn' \in allActorRoles \cup {"nobody"} /\ submitted' \in allActorRoles \cup {"nobody"}
    BY <1>1, Zenon
    DEF RoutingNext, Validated, FollowRedirect, LoggedIn, SubmitNavigates, UserChanges, GoTo
  <2>3. validating' \in BOOLEAN
    BY <1>1, Zenon
    DEF RoutingNext, Validated, FollowRedirect, LoggedIn, SubmitNavigates, UserChanges, GoTo
  <2>4. QED BY <2>1, <2>2, <2>3
<1>3. path' \in Paths /\ from' \in Paths
  <2>1. CASE FollowRedirect
    <3>1. path' \in Paths /\ (from' = path \/ from' = from)
      BY <1>1, <2>1, PathsOf, Zenon DEF FollowRedirect
    <3>2. QED BY <1>1, <3>1
  <2>2. CASE SubmitNavigates
    BY <1>1, <2>2, PathsOf DEF SubmitNavigates
  <2>3. CASE GoTo
    <3>1. Menu \subseteq Paths
      BY PathsOf DEF Menu
    <3>2. {"/", "/dashboard/region/:regionId"} \cup MlopsPaths \cup ControlPaths \subseteq Paths /\ "*" \in Paths
      BY DEF Paths, CommonPaths, NocPaths
    <3>3. QED BY <2>3, <3>1, <3>2 DEF GoTo
  <2>4. CASE Validated \/ LoggedIn \/ UserChanges
    BY <1>1, <2>4 DEF Validated, LoggedIn, UserChanges
  <2>5. QED BY <2>1, <2>2, <2>3, <2>4 DEF RoutingNext
<1>4. QED BY <1>2, <1>3 DEF RoutingTypeOK

\* An entry of the menu leads whoever may see it to its page or into its section.
LEMMA EntryLeads ==
  ASSUME NEW role \in allActorRoles, NEW i \in navItems, role \in i.roles
  PROVE  LET next == NextPath(role, i.to)
         IN Shown(role, next) /\ (next = i.to \/ {i.to, next} \subseteq ControlPaths)
<1> DEFINE p == i.to
<1>1. role # "nobody"
  BY DEF allActorRoles, adminActorRoles, nocActorRoles, mlopsActorRoles
<1>2. CASE p = "/control/actions"
  <2> DEFINE q == "/control/actions/simulated-actuations"
  <2>1. i.roles = adminActorRoles \cup mlopsActorRoles
    BY <1>2 DEF navItems
  <2>2. /\ p \in ControlPaths /\ q \in ControlPaths /\ ~Open(p) /\ ~Open(q)
        /\ p \notin NocPaths /\ q \notin NocPaths /\ Forward(p) = q /\ Forward(q) = q
    BY <1>2 DEF ControlPaths, Open, NocPaths, Forward
  <2>3. role \in AllowedRoles(p) /\ role \in AllowedRoles(q)
    BY <2>1, <2>2, AllowedAre
  <2>4. NextPath(role, p) = q
    BY <1>1, <2>2, <2>3 DEF NextPath, Guarded
  <2>5. QED BY <1>1, <2>2, <2>3, <2>4 DEF Shown
<1>3. CASE p # "/control/actions"
  <2>1. ~Open(p) /\ Forward(p) = p
    BY <1>3 DEF navItems, Open, Forward
  <2>2. role \in AllowedRoles(p)
    <3>1. \/ p \in NocPaths /\ i.roles = adminActorRoles \cup nocActorRoles
          \/ p \in MlopsPaths \cup ToolPaths /\ i.roles = adminActorRoles \cup mlopsActorRoles
          \/ p \in CommonPaths /\ i.roles = allActorRoles
          \/ p = "/admin/users" /\ i.roles = adminActorRoles
      BY <1>3 DEF navItems, NocPaths, MlopsPaths, ToolPaths, CommonPaths
    <3>2. QED BY <3>1, AllowedAre
  <2>3. NextPath(role, p) = p
    BY <1>1, <2>1, <2>2 DEF NextPath, Guarded
  <2>4. QED BY <1>1, <2>1, <2>2, <2>3 DEF Shown
<1>4. QED BY <1>2, <1>3

LEMMA MenuLeads == RoutingTypeOK => MenusLead
<1> SUFFICES ASSUME RoutingTypeOK, NEW p \in Menu
             PROVE  LET next == NextPath(signedIn, p)
                    IN Shown(signedIn, next) /\ (next = p \/ {p, next} \subseteq ControlPaths)
    BY DEF MenusLead
<1>1. signedIn \in allActorRoles /\ \E i \in navItems : signedIn \in i.roles /\ p = i.to
  BY DEF Menu, RoutingTypeOK
<1>2. QED BY <1>1, EntryLeads

--------------------------------------------------------------------------------
(* The page "Entity Dashboard". *)

\* What was chosen last is where a navigation under way leads, and else what the
\* address names.
ChosenDiscipline ==
  IF going # NoEntity THEN chosen = going
  ELSE chosen = IF routeEntityId \in Entity THEN routeEntityId ELSE NoEntity

EntityInv == EntityTypeOK /\ ChosenDiscipline

LEMMA EntityStart == EntityInit => EntityInv
<1> SUFFICES ASSUME EntityInit PROVE EntityInv
    OBVIOUS
<1>1. entities \in Entries(Seq(Entity))
  BY MountedType DEF EntityInit
<1>2. liveState \in [Entity -> LiveStates] /\ snapshots \in [Entity -> Entries(LiveStates)]
  BY DEF EntityInit, LiveStates, NoSnapshot, Entries
<1>3. chosen = IF routeEntityId \in Entity THEN routeEntityId ELSE NoEntity
  BY DEF EntityInit
<1>4. ChosenDiscipline
  BY <1>3 DEF EntityInit, ChosenDiscipline
<1>5. {going, selectedEntityId, chosen} \subseteq Entity \cup {NoEntity}
  BY <1>3 DEF EntityInit
<1>6. QED BY <1>1, <1>2, <1>4, <1>5, EntityParameters DEF EntityInit, EntityInv, EntityTypeOK

\* The list is a sequence of entities.
LEMMA KnownEntities ==
  ASSUME EntityTypeOK
  PROVE  ToSet(Known) \subseteq Entity /\ (Known # << >> => Known[1] \in ToSet(Known))
<1>1. Known \in Seq(Entity)
  BY DEF EntityTypeOK, Entries, Known
<1>2. QED BY <1>1 DEF ToSet

LEMMA ListsAreOfEntities ==
  ASSUME EntityTypeOK
  PROVE  EntityLists(live) \subseteq Seq(Entity)
<1>1. Cardinality(live) \in Nat
  BY EntityParameters, FS_Subset, FS_CardinalityType DEF EntityTypeOK
<1>2. QED BY <1>1 DEF EntityLists, SetToSeqs, EntityTypeOK

\* The live state and the entries of the cache.
FetchesEntities == EntitiesPoll \/ EntitiesAnswered \/ EntitiesLand \/ EntitiesFail
FetchesSnapshots == SnapshotPoll \/ \E e \in Entity : SnapshotLands(e) \/ SnapshotFails(e)
MovesSelection == SelectionFollows \/ PickEntity \/ AddressLands \/ AddressChanges

LEMMA EntityOpTypes ==
  ASSUME entityOps \in 0..MaxEntityOps, EntityOp \/ UNCHANGED entityOps
  PROVE  entityOps' \in 0..MaxEntityOps
BY EntityParameters DEF EntityOp

LEMMA EntityOpsStep ==
  ASSUME EntityTypeOK, EntityNext
  PROVE  entityOps' \in 0..MaxEntityOps
<1>1. EntityOp \/ UNCHANGED entityOps
  BY DEF EntityNext, EntityChanges, EntitiesPoll, EntitiesAnswered, EntitiesLand, EntitiesFail,
         SnapshotPoll, SnapshotLands, SnapshotFails, SelectionFollows, PickEntity, AddressLands,
         AddressChanges
<1>2. QED BY <1>1, EntityOpTypes DEF EntityTypeOK

LEMMA EntityDataStep ==
  ASSUME EntityTypeOK, EntityNext
  PROVE  /\ live' \subseteq Entity /\ liveState' \in [Entity -> LiveStates]
         /\ entities' \in Entries(Seq(Entity)) /\ snapshots' \in [Entity -> Entries(LiveStates)]
<1>1. /\ live \subseteq Entity /\ liveState \in [Entity -> LiveStates]
      /\ entities \in Entries(Seq(Entity)) /\ snapshots \in [Entity -> Entries(LiveStates)]
      /\ selectedEntityId \in Entity \cup {NoEntity}
  BY DEF EntityTypeOK
<1>2. CASE EntityChanges
  BY <1>1, <1>2 DEF EntityChanges
<1>3. CASE FetchesEntities
  <2>1. UNCHANGED <<live, liveState, snapshots>>
    BY <1>3 DEF FetchesEntities, EntitiesPoll, EntitiesAnswered, EntitiesLand, EntitiesFail, EntitiesFetch
  <2>2. \/ entities' \in {Asked(entities), Landed(entities), Failed(entities)}
        \/ \E l \in EntityLists(live) : entities' = Answered(entities, l)
    BY <1>3 DEF FetchesEntities, EntitiesPoll, EntitiesAnswered, EntitiesLand, EntitiesFail, EntitiesFetch
  <2>3. entities' \in Entries(Seq(Entity))
    BY <1>1, <2>2, EntryTypes, ListsAreOfEntities
  <2>4. QED BY <1>1, <2>1, <2>3
<1>4. CASE FetchesSnapshots
  <2>1. UNCHANGED <<live, liveState, entities>>
    BY <1>4 DEF FetchesSnapshots, SnapshotPoll, SnapshotLands, SnapshotFails, SnapshotFetch
  <2>2. PICK e \in Entity : \E s \in LiveStates :
          \/ snapshots' = [snapshots EXCEPT ![e] = Asked(Snapshot(e))]
          \/ snapshots' = [snapshots EXCEPT ![e] = Failed(Snapshot(e))]
          \/ snapshots' = [snapshots EXCEPT ![e] = Landed(Answered(Snapshot(e), s))]
    <3>1. CASE SnapshotPoll
      BY <1>1, <3>1 DEF SnapshotPoll, SnapshotFetch, LiveStates
    <3>2. CASE \E e \in Entity : SnapshotLands(e) \/ SnapshotFails(e)
      BY <1>1, <3>2 DEF SnapshotLands, SnapshotFails, SnapshotFetch
    <3>3. QED BY <1>4, <3>1, <3>2 DEF FetchesSnapshots
  <2>3. Snapshot(e) \in Entries(LiveStates)
    BY <1>1 DEF Snapshot
  <2>4. \A s \in LiveStates : {Asked(Snapshot(e)), Failed(Snapshot(e)), Landed(Answered(Snapshot(e), s))}
                                \subseteq Entries(LiveStates)
    BY <2>3, EntryTypes
  <2>5. snapshots' \in [Entity -> Entries(LiveStates)]
    BY <1>1, <2>2, <2>4
  <2>6. QED BY <1>1, <2>1, <2>5
<1>5. CASE MovesSelection
  BY <1>1, <1>5 DEF MovesSelection, SelectionFollows, PickEntity, AddressLands, AddressChanges
<1>6. QED BY <1>2, <1>3, <1>4, <1>5
          DEF EntityNext, FetchesEntities, FetchesSnapshots, MovesSelection

\* The selection.
LEMMA ChosenStep ==
  ASSUME EntityInv, EntityNext
  PROVE  /\ routeEntityId' \in Addresses
         /\ {going, selectedEntityId, chosen}' \subseteq Entity \cup {NoEntity}
         /\ ChosenDiscipline'
<1>1. EntityTypeOK /\ ChosenDiscipline
  BY DEF EntityInv
<1>2. /\ routeEntityId \in Addresses
      /\ {going, selectedEntityId, chosen} \subseteq Entity \cup {NoEntity}
  BY <1>1 DEF EntityTypeOK
<1>3. ToSet(Known) \subseteq Entity /\ (Known # << >> => Known[1] \in ToSet(Known))
  BY <1>1, KnownEntities
<1>4. CASE EntityChanges \/ FetchesEntities \/ FetchesSnapshots
  <2>1. UNCHANGED <<routeEntityId, going, selectedEntityId, chosen>>
    BY <1>4
    DEF EntityChanges, FetchesEntities, EntitiesPoll, EntitiesAnswered, EntitiesLand, EntitiesFail,
        EntitiesFetch, FetchesSnapshots, SnapshotPoll, SnapshotLands, SnapshotFails, SnapshotFetch
  <2>2. QED BY <1>1, <1>2, <2>1 DEF ChosenDiscipline
<1>5. CASE SelectionFollows
  <2>1. NextSelected \in Entity \cup {NoEntity}
    BY <1>2, <1>3 DEF NextSelected
  <2>2. QED BY <1>1, <1>2, <1>5, <2>1 DEF SelectionFollows, ChosenDiscipline
<1>6. CASE PickEntity
  <2>1. PICK e \in Entity : selectedEntityId' = e /\ going' = e /\ chosen' = e
    BY <1>3, <1>6 DEF PickEntity
  <2>2. routeEntityId' = routeEntityId
    BY <1>6 DEF PickEntity
  <2>3. QED BY <1>2, <2>1, <2>2, EntityParameters DEF ChosenDiscipline
<1>7. CASE AddressLands
  BY <1>1, <1>2, <1>7, EntityParameters DEF AddressLands, ChosenDiscipline, Addresses
<1>8. CASE AddressChanges
  BY <1>1, <1>2, <1>8, EntityParameters DEF AddressChanges, ChosenDiscipline, Addresses
<1>9. QED BY <1>4, <1>5, <1>6, <1>7, <1>8 DEF EntityNext, FetchesEntities, FetchesSnapshots

LEMMA EntityStep == ASSUME EntityInv, EntityNext PROVE EntityInv'
<1>1. EntityTypeOK
  BY DEF EntityInv
<1>2. EntityTypeOK'
  BY <1>1, ChosenStep, EntityDataStep, EntityOpsStep DEF EntityTypeOK
<1>3. QED BY <1>2, ChosenStep DEF EntityInv

\* A page at rest follows its address, or had no entity of it to follow.
LEMMA ChosenShows == EntityInv => ChoiceIsShown
<1> SUFFICES ASSUME EntityInv, chosen \in ToSet(Known), going = NoEntity, Selected
             PROVE  selectedEntityId = chosen
    BY DEF ChoiceIsShown
<1>1. chosen \in Entity
  BY KnownEntities DEF EntityInv
<1>2. chosen = routeEntityId
  BY <1>1, EntityParameters DEF EntityInv, ChosenDiscipline
<1>3. Known # << >>
  BY DEF ToSet
<1>4. QED BY <1>2, <1>3 DEF Selected, NextSelected

--------------------------------------------------------------------------------
(* The page "Copilot Agent". *)

\* The page waits for one question, the last that was said.
AskDiscipline ==
  /\ \A c \in asks : \A d \in asks : c.seen /\ d.seen => c = d
  /\ \A c \in asks : c.seen =>
       messages[Len(messages)] = [role |-> "user", question |-> c.turn.question]

\* A session is named after the operator who asks in it.
OwnTurn(t) == t.session.of = t.by

SessionsAreOwn ==
  /\ sessionId.of = user
  /\ \A o \in Operator : stored[o] # NoChat => stored[o].of = o
  /\ \A t \in memory \cup turns : OwnTurn(t)
  /\ \A c \in asks : OwnTurn(c.turn)

ChatInv == ChatTypeOK /\ AskDiscipline /\ AnswersFollowQuestions /\ SessionsAreOwn

Message == [role : {"user", "assistant", "error"}, question : 0..MaxChatOps]

LEMMA WelcomeIsFine ==
  ASSUME messages = welcomeMessage PROVE messages \in Seq(Message) /\ AnswersFollowQuestions
BY ChatParameters DEF welcomeMessage, Message, AnswersFollowQuestions

LEMMA ChatStart == ChatInit => ChatInv
<1> SUFFICES ASSUME ChatInit PROVE ChatInv
    OBVIOUS
<1>1. sessionId \in Chats /\ sessionId.of = user /\ user \in Operator
  BY ChatParameters DEF ChatInit, Chats
<1>2. stored = [o \in Operator |-> IF o = user THEN sessionId ELSE NoChat]
  BY DEF ChatInit
<1>3. stored \in [Operator -> Chats \cup {NoChat}]
  BY <1>1, <1>2
<1>4. \A o \in Operator : stored[o] # NoChat => stored[o].of = o
  BY <1>1, <1>2
<1>5. asks = {} /\ turns = {} /\ memory = {} /\ chatOps \in 0..MaxChatOps
  BY ChatParameters DEF ChatInit
<1>6. messages \in Seq(Message) /\ AnswersFollowQuestions
  BY WelcomeIsFine DEF ChatInit
<1>7. ChatTypeOK
  BY <1>1, <1>3, <1>5, <1>6 DEF ChatTypeOK, Message
<1>8. QED BY <1>1, <1>4, <1>5, <1>6, <1>7 DEF ChatInv, AskDiscipline, SessionsAreOwn

\* The session id of an operator is the operator's own.
LEMMA SessionBuilt ==
  ASSUME ChatInv, NEW u \in Operator, NEW b \in BOOLEAN, buildSessionId(u, b),
         chatOps' \in 0..MaxChatOps
  PROVE  /\ stored' \in [Operator -> Chats \cup {NoChat}]
         /\ sessionId' \in Chats /\ sessionId'.of = u
         /\ \A o \in Operator : stored'[o] # NoChat => stored'[o].of = o
<1>1. /\ stored \in [Operator -> Chats \cup {NoChat}]
      /\ \A o \in Operator : stored[o] # NoChat => stored[o].of = o
  BY DEF ChatInv, ChatTypeOK, SessionsAreOwn
<1>2. PICK id : /\ stored' = [stored EXCEPT ![u] = id] /\ sessionId' = id
                /\ id = [of |-> u, n |-> chatOps'] \/ (id = stored[u] /\ stored[u] # NoChat)
  BY DEF buildSessionId
<1>3. id \in Chats /\ id.of = u
  BY <1>1, <1>2 DEF Chats
<1>4. QED BY <1>1, <1>2, <1>3

\* The operator's doings.
LEMMA AskSubmitStep == ASSUME ChatInv, AskSubmit PROVE ChatInv'
<1>1. /\ user \in Operator /\ sessionId \in Chats /\ messages \in Seq(Message)
      /\ asks \subseteq Asks /\ chatOps \in 0..MaxChatOps /\ sessionId.of = user
      /\ chatOps' = chatOps + 1 /\ chatOps < MaxChatOps
      /\ UNCHANGED <<user, stored, sessionId, turns, memory>>
  BY DEF ChatInv, ChatTypeOK, SessionsAreOwn, AskSubmit, ChatOp, Message
<1>2. chatOps' \in 0..MaxChatOps /\ chatOps' \in 1..MaxChatOps
  BY <1>1, ChatParameters
<1> DEFINE turn == [by |-> user, session |-> sessionId, question |-> chatOps']
           said == [role |-> "user", question |-> chatOps']
           ask == [turn |-> turn, phase |-> "sent", seen |-> TRUE]
<1>3. messages' = Append(messages, said) /\ asks' = asks \cup {ask} /\ ~isPending
  BY DEF AskSubmit
<1>4. turn \in Turns /\ OwnTurn(turn) /\ said \in Message
  BY <1>1, <1>2 DEF Turns, OwnTurn, Message
<1>5. ask \in Asks
  BY <1>4 DEF Asks
<1>6. /\ messages' \in Seq(Message) /\ Len(messages') = Len(messages) + 1
      /\ \A i \in 1..Len(messages) : messages'[i] = messages[i]
      /\ messages'[Len(messages')] = said
  BY <1>1, <1>3, <1>4
<1>7. ChatTypeOK'
  BY <1>1, <1>2, <1>3, <1>5, <1>6 DEF ChatInv, ChatTypeOK, Message
<1>8. AnswersFollowQuestions'
  <2> SUFFICES ASSUME NEW i \in 2..Len(messages'), messages'[i].role # "user"
               PROVE  messages'[i - 1] = [role |-> "user", question |-> messages'[i].question]
      BY DEF AnswersFollowQuestions
  <2>1. Len(messages) \in Nat /\ messages'[Len(messages')].role = "user"
    BY <1>1, <1>6
  <2>2. i \in 2..Len(messages) /\ i \in 1..Len(messages) /\ i - 1 \in 1..Len(messages)
    BY <1>6, <2>1
  <2>3. messages'[i] = messages[i] /\ messages'[i - 1] = messages[i - 1]
    BY <1>6, <2>2
  <2>4. QED BY <2>2, <2>3 DEF ChatInv, AnswersFollowQuestions
<1>9. \A c \in asks' : c.seen => c = ask
  BY <1>3, Zenon DEF isPending
<1>10. AskDiscipline'
  <2>1. ask.turn.question = chatOps'
    OBVIOUS
  <2>2. \A c \in asks' : c.seen =>
          messages'[Len(messages')] = [role |-> "user", question |-> c.turn.question]
    BY <1>6, <1>9, <2>1
  <2>3. QED BY <1>9, <2>2, Zenon DEF AskDiscipline
<1>11. SessionsAreOwn'
  <2>1. ask.turn = turn
    OBVIOUS
  <2>2. QED BY <1>1, <1>3, <1>4, <2>1 DEF ChatInv, SessionsAreOwn
<1>12. QED BY <1>7, <1>8, <1>10, <1>11 DEF ChatInv

LEMMA NewSessionStep ==
  ASSUME ChatInv, handleResetConversation \/ Reopen \/ UserBecomes
  PROVE  ChatInv'
<1>1. /\ user \in Operator /\ messages \in Seq(Message) /\ asks \subseteq Asks
      /\ turns \subseteq Turns /\ memory \subseteq Turns /\ chatOps \in 0..MaxChatOps
      /\ AskDiscipline /\ AnswersFollowQuestions
      /\ \A t \in memory \cup turns : OwnTurn(t)
      /\ \A c \in asks : OwnTurn(c.turn)
  BY DEF ChatInv, ChatTypeOK, SessionsAreOwn, Message
<1>2. UNCHANGED <<turns, memory>> /\ chatOps' \in 0..MaxChatOps
  <2>1. UNCHANGED <<turns, memory>> /\ ChatOp
    BY Zenon DEF handleResetConversation, Reopen, UserBecomes
  <2>2. QED BY <1>1, <2>1, ChatParameters DEF ChatOp
<1>3. \E u \in Operator, b \in BOOLEAN : user' = u /\ buildSessionId(u, b)
  <2>1. CASE handleResetConversation
    BY <1>1, <2>1 DEF handleResetConversation
  <2>2. CASE Reopen
    BY <1>1, <2>2 DEF Reopen
  <2>3. CASE UserBecomes
    BY <2>3 DEF UserBecomes
  <2>4. QED BY <2>1, <2>2, <2>3
<1>4. /\ user' \in Operator /\ stored' \in [Operator -> Chats \cup {NoChat}]
      /\ sessionId' \in Chats /\ sessionId'.of = user'
      /\ \A o \in Operator : stored'[o] # NoChat => stored'[o].of = o
  BY <1>2, <1>3, SessionBuilt
<1>5. /\ asks' \subseteq Asks /\ AskDiscipline' /\ \A c \in asks' : OwnTurn(c.turn)
      /\ messages' \in Seq(Message) /\ AnswersFollowQuestions'
  <2>1. CASE handleResetConversation
    <3>1. asks' = asks /\ messages' = welcomeMessage /\ \A c \in asks : ~c.seen
      BY <2>1, Zenon DEF handleResetConversation, isPending
    <3>2. AskDiscipline'
      BY <3>1, Zenon DEF AskDiscipline
    <3>3. messages' \in Seq(Message) /\ AnswersFollowQuestions'
      BY <3>1, WelcomeIsFine, ChatParameters DEF welcomeMessage, Message, AnswersFollowQuestions
    <3>4. QED BY <1>1, <3>1, <3>2, <3>3
  <2>2. CASE Reopen
    <3>1. asks' = {[c EXCEPT !.seen = FALSE] : c \in asks} /\ messages' = welcomeMessage
      BY <2>2 DEF Reopen
    <3>2. ASSUME NEW c \in asks
          PROVE  LET d == [c EXCEPT !.seen = FALSE]
                 IN d \in Asks /\ d.seen = FALSE /\ d.turn = c.turn
      <4>1. c \in Asks
        BY <1>1
      <4>2. QED BY <4>1 DEF Asks
    <3>3. asks' \subseteq Asks /\ \A d \in asks' : d.seen = FALSE /\ \E c \in asks : d.turn = c.turn
      BY <3>1, <3>2
    <3>4. AskDiscipline' /\ \A c \in asks' : OwnTurn(c.turn)
      BY <1>1, <3>3 DEF AskDiscipline
    <3>5. messages' \in Seq(Message) /\ AnswersFollowQuestions'
      BY <3>1, ChatParameters DEF welcomeMessage, Message, AnswersFollowQuestions
    <3>6. QED BY <3>3, <3>4, <3>5
  <2>3. CASE UserBecomes
    BY <1>1, <2>3 DEF UserBecomes, AskDiscipline, AnswersFollowQuestions
  <2>4. QED BY <2>1, <2>2, <2>3
<1>6. ChatTypeOK'
  BY <1>1, <1>2, <1>4, <1>5 DEF ChatTypeOK, Message
<1>7. SessionsAreOwn'
  BY <1>1, <1>2, <1>4, <1>5 DEF SessionsAreOwn
<1>8. QED BY <1>5, <1>6, <1>7 DEF ChatInv

\* The calls of dashboard-backend.
LEMMA AskMovesStep ==
  ASSUME ChatInv, NEW c \in asks, NEW phase \in {"sent", "waiting", "answered", "error"},
         AskMoves(c, phase), UNCHANGED messages
  PROVE  /\ asks' \subseteq Asks /\ AskDiscipline' /\ AnswersFollowQuestions'
         /\ \A d \in asks' : OwnTurn(d.turn)
<1>1. /\ asks \subseteq Asks /\ AskDiscipline /\ AnswersFollowQuestions
      /\ \A d \in asks : OwnTurn(d.turn)
  BY DEF ChatInv, ChatTypeOK, SessionsAreOwn
<1> DEFINE moved == [c EXCEPT !.phase = phase]
<1>2. moved \in Asks /\ moved.turn = c.turn /\ moved.seen = c.seen
  <2>1. c \in Asks
    BY <1>1
  <2>2. QED BY <2>1 DEF Asks
<1>3. asks' = (asks \ {c}) \cup {moved}
  BY DEF AskMoves
<1> HIDE DEF moved
<1>4. AskDiscipline'
  BY <1>1, <1>2, <1>3 DEF AskDiscipline
<1>5. AnswersFollowQuestions'
  BY <1>1 DEF AnswersFollowQuestions
<1>6. QED BY <1>1, <1>2, <1>3, <1>4, <1>5

LEMMA ForwardStep ==
  ASSUME ChatInv, NEW c \in asks, ForwardAsk(c) \/ ProxyGivesUp(c)
  PROVE  ChatInv'
<1>1. /\ UNCHANGED <<user, stored, sessionId, messages, memory, chatOps>>
      /\ turns' \in {turns, turns \cup {c.turn}}
      /\ \E phase \in {"waiting", "error"} : AskMoves(c, phase)
  BY DEF ForwardAsk, ProxyGivesUp
<1>2. /\ asks' \subseteq Asks /\ AskDiscipline' /\ AnswersFollowQuestions'
      /\ \A d \in asks' : OwnTurn(d.turn)
  BY <1>1, AskMovesStep
<1>3. c.turn \in Turns /\ OwnTurn(c.turn)
  BY DEF ChatInv, ChatTypeOK, Asks, SessionsAreOwn
<1>4. ChatTypeOK'
  BY <1>1, <1>2, <1>3 DEF ChatInv, ChatTypeOK
<1>5. SessionsAreOwn'
  BY <1>1, <1>2, <1>3 DEF ChatInv, SessionsAreOwn
<1>6. QED BY <1>2, <1>4, <1>5 DEF ChatInv

LEMMA AgentEndsStep == ASSUME ChatInv, NEW turn \in turns, AgentEnds(turn) PROVE ChatInv'
<1>1. /\ UNCHANGED <<user, stored, sessionId, messages, chatOps>>
      /\ turns' = turns \ {turn} /\ memory' \in {memory, memory \cup {turn}}
  BY DEF AgentEnds
<1>2. /\ asks \subseteq Asks /\ AskDiscipline /\ AnswersFollowQuestions
      /\ \A d \in asks : OwnTurn(d.turn)
  BY DEF ChatInv, ChatTypeOK, SessionsAreOwn
<1>3. \A d \in asks' : \E c \in asks : d \in Asks /\ d.turn = c.turn /\ d.seen = c.seen
  <2>1. PICK phase \in {"answered", "error"} : Replied(turn, phase)
    BY DEF AgentEnds
  <2> DEFINE next(c) == IF c.turn = turn /\ c.phase = "waiting" THEN [c EXCEPT !.phase = phase] ELSE c
  <2>2. asks' = {next(c) : c \in asks}
    BY <2>1 DEF Replied
  <2>3. ASSUME NEW c \in asks PROVE next(c) \in Asks /\ next(c).turn = c.turn /\ next(c).seen = c.seen
    <3>1. c \in Asks
      BY <1>2
    <3>2. QED BY <3>1 DEF Asks
  <2>4. QED BY <2>2, <2>3
<1>4. \A d \in asks' : \A e \in asks' : d.seen /\ e.seen => d = e
  <2>1. PICK phase \in {"answered", "error"} : Replied(turn, phase)
    BY DEF AgentEnds
  <2> DEFINE next(c) == IF c.turn = turn /\ c.phase = "waiting" THEN [c EXCEPT !.phase = phase] ELSE c
  <2>2. asks' = {next(c) : c \in asks}
    BY <2>1 DEF Replied
  <2>3. ASSUME NEW c \in asks PROVE next(c).seen = c.seen
    <3>1. c \in Asks
      BY <1>2
    <3>2. QED BY <3>1 DEF Asks
  <2> HIDE DEF next
  <2>4. QED BY <1>2, <2>2, <2>3 DEF AskDiscipline
<1>5. AskDiscipline' /\ AnswersFollowQuestions'
  <2>1. AnswersFollowQuestions'
    BY <1>1, <1>2 DEF AnswersFollowQuestions
  <2>2. ASSUME NEW d \in asks', d.seen
        PROVE  messages[Len(messages)] = [role |-> "user", question |-> d.turn.question]
    <3>1. PICK c \in asks : d.turn = c.turn /\ d.seen = c.seen
      BY <1>3
    <3>2. c.seen
      BY <2>2, <3>1
    <3>3. messages[Len(messages)] = [role |-> "user", question |-> c.turn.question]
      BY <1>2, <3>2 DEF AskDiscipline
    <3>4. QED BY <3>1, <3>3
  <2>3. \A d \in asks' : d.seen =>
          messages'[Len(messages')] = [role |-> "user", question |-> d.turn.question]
    BY <1>1, <2>2
  <2>4. AskDiscipline'
    BY <1>4, <2>3, Zenon DEF AskDiscipline
  <2>5. QED BY <2>1, <2>4
<1>6. ChatTypeOK'
  BY <1>1, <1>3 DEF ChatInv, ChatTypeOK
<1>7. SessionsAreOwn'
  BY <1>1, <1>2, <1>3 DEF ChatInv, SessionsAreOwn
<1>8. QED BY <1>5, <1>6, <1>7 DEF ChatInv

LEMMA AskReturnsStep == ASSUME ChatInv, NEW c \in asks, AskReturns(c) PROVE ChatInv'
<1>1. /\ UNCHANGED <<user, stored, sessionId, turns, memory, chatOps>> /\ asks' = asks \ {c}
  BY DEF AskReturns
<1>2. /\ asks \subseteq Asks /\ AskDiscipline /\ AnswersFollowQuestions /\ messages \in Seq(Message)
      /\ c \in Asks
  BY DEF ChatInv, ChatTypeOK, Message
<1>3. messages' \in Seq(Message) /\ AnswersFollowQuestions' /\ AskDiscipline'
  <2>1. CASE ~c.seen
    BY <1>1, <1>2, <2>1 DEF AskReturns, AnswersFollowQuestions, AskDiscipline
  <2>2. CASE c.seen
    <3> DEFINE said == [role |-> IF c.phase = "answered" THEN "assistant" ELSE "error",
                        question |-> c.turn.question]
    <3>1. messages' = Append(messages, said)
      BY <2>2 DEF AskReturns
    <3>2. said \in Message /\ said.question = c.turn.question
      BY <1>2 DEF Asks, Turns, Message
    <3>3. messages[Len(messages)] = [role |-> "user", question |-> said.question]
      BY <1>2, <2>2 DEF AskDiscipline
    <3> HIDE DEF said
    <3>4. /\ messages' \in Seq(Message) /\ Len(messages') = Len(messages) + 1
          /\ \A i \in 1..Len(messages) : messages'[i] = messages[i]
          /\ messages'[Len(messages')] = said
      BY <1>2, <3>1, <3>2
    <3>5. AnswersFollowQuestions'
      <4> SUFFICES ASSUME NEW i \in 2..Len(messages'), messages'[i].role # "user"
                   PROVE  messages'[i - 1] = [role |-> "user", question |-> messages'[i].question]
          BY DEF AnswersFollowQuestions
      <4>1. Len(messages) \in Nat
        BY <1>2
      <4>2. CASE i <= Len(messages)
        BY <1>2, <3>4, <4>1, <4>2 DEF AnswersFollowQuestions
      <4>3. CASE i = Len(messages')
        BY <3>3, <3>4, <4>1, <4>3
      <4>4. QED BY <3>4, <4>1, <4>2, <4>3
    <3>6. AskDiscipline'
      <4>1. \A d \in asks' : ~d.seen
        BY <1>1, <1>2, <2>2 DEF AskDiscipline
      <4>2. QED BY <4>1, Zenon DEF AskDiscipline
    <3>7. QED BY <3>4, <3>5, <3>6
  <2>3. QED BY <2>1, <2>2
<1>4. ChatTypeOK'
  BY <1>1, <1>2, <1>3 DEF ChatInv, ChatTypeOK, Message
<1>5. SessionsAreOwn'
  BY <1>1 DEF ChatInv, SessionsAreOwn
<1>6. QED BY <1>3, <1>4, <1>5 DEF ChatInv

LEMMA ChatStep == ASSUME ChatInv, ChatNext PROVE ChatInv'
BY AskSubmitStep, NewSessionStep, ForwardStep, AgentEndsStep, AskReturnsStep DEF ChatNext

LEMMA MemoryOwned == ChatInv => MemoryIsOwn
BY DEF ChatInv, SessionsAreOwn, OwnTurn, MemoryIsOwn

--------------------------------------------------------------------------------
(* The views together. *)

ViewsInv == RequestsInv /\ RunsInv /\ FeedInv /\ RoutingTypeOK /\ EntityInv /\ ChatInv

LEMMA ViewsStart == ViewsInit => ViewsInv
BY RequestsStart, RunsStart, FeedStart, RoutingStart, EntityStart, ChatStart DEF ViewsInit, ViewsInv

\* One part moves, and each of the others rests.
LEMMA OnePartMoves ==
  ASSUME [ViewsNext]_viewsVars
  PROVE  /\ RequestsNext \/ UNCHANGED requestsVars
         /\ RunsNext \/ UNCHANGED runsVars
         /\ FeedNext \/ UNCHANGED feedVars
         /\ RoutingNext \/ UNCHANGED routingVars
         /\ EntityNext \/ UNCHANGED entityVars
         /\ ChatNext \/ UNCHANGED chatVars
BY Zenon DEF ViewsNext, viewsVars, At

LEMMA RequestsKept == ASSUME RequestsInv, UNCHANGED requestsVars PROVE RequestsInv'
<1>1. UNCHANGED <<requests, requestChanges, requestList, requestModal, requestCall, requestAcked>>
  BY DEF requestsVars
<1>2. RequestsTypeOK'
  BY <1>1, Zenon DEF RequestsInv, RequestsTypeOK
<1>3. RequestsDiscipline'
  BY <1>1, Zenon DEF RequestsInv, RequestsDiscipline, Busy
<1>4. QED BY <1>2, <1>3 DEF RequestsInv

LEMMA RunsKept == ASSUME RunsInv, UNCHANGED runsVars PROVE RunsInv'
<1>1. UNCHANGED <<runsPage, runs, runList, runLogs, logsRunId, launchForm, launches, runOps>>
  BY DEF runsVars
<1>2. RunsTypeOK'
  BY <1>1, Zenon DEF RunsInv, RunsTypeOK
<1>3. LaunchDiscipline'
  BY <1>1, Zenon DEF RunsInv, LaunchDiscipline, Launching
<1>4. QED BY <1>2, <1>3 DEF RunsInv

LEMMA FeedKept == ASSUME FeedInv, UNCHANGED feedVars PROVE FeedInv'
<1>1. UNCHANGED <<feedEvents, feedTime, buried, feedFilter, feedPages, olderEvents, olderCursor,
                  olderLoad, overtaken, slid, unread>>
  BY DEF feedVars
<1>2. /\ FeedTypeOK /\ feedTime \in Nat /\ feedPages \in [Filters -> Entries(LogAnswers)]
      /\ \A x \in feedEvents : x.time <= feedTime
  BY ShownType DEF FeedInv, FeedTypeOK, TimesDiscipline
<1>3. FeedTypeOK'
  BY <1>1, <1>2, Zenon DEF FeedTypeOK
<1>4. \A g \in Filters : \A t \in Seen(g)' : t \in Seen(g)
  BY <1>1, SeenShrinks
<1>5. feedTime' >= feedTime /\ \A x \in feedEvents' : x.time <= feedTime'
  BY <1>1, <1>2
<1>6. QED BY <1>1, <1>3, <1>4, <1>5, RestsShown

LEMMA RoutingKept == ASSUME RoutingTypeOK, UNCHANGED routingVars PROVE RoutingTypeOK'
BY Zenon DEF RoutingTypeOK, routingVars

LEMMA EntityKept == ASSUME EntityInv, UNCHANGED entityVars PROVE EntityInv'
<1>1. UNCHANGED <<live, liveState, routeEntityId, going, selectedEntityId, entities, snapshots,
                  chosen, entityOps>>
  BY DEF entityVars
<1>2. EntityTypeOK'
  BY <1>1 DEF EntityInv, EntityTypeOK
<1>3. ChosenDiscipline'
  BY <1>1, Zenon DEF EntityInv, ChosenDiscipline
<1>4. QED BY <1>2, <1>3 DEF EntityInv

LEMMA ChatKept == ASSUME ChatInv, UNCHANGED chatVars PROVE ChatInv'
<1>1. UNCHANGED <<user, stored, sessionId, messages, asks, turns, memory, chatOps>>
  BY DEF chatVars
<1>2. ChatTypeOK'
  BY <1>1, Zenon DEF ChatInv, ChatTypeOK
<1>3. AskDiscipline' /\ AnswersFollowQuestions'
  BY <1>1, Zenon DEF ChatInv, AskDiscipline, AnswersFollowQuestions
<1>4. SessionsAreOwn'
  BY <1>1, Zenon DEF ChatInv, SessionsAreOwn
<1>5. QED BY <1>2, <1>3, <1>4 DEF ChatInv

LEMMA ViewsStep == ASSUME ViewsInv, [ViewsNext]_viewsVars PROVE ViewsInv'
<1>1. RequestsInv'
  BY OnePartMoves, RequestsStep, RequestsKept DEF ViewsInv
<1>2. RunsInv'
  BY OnePartMoves, RunsStep, RunsKept DEF ViewsInv
<1>3. FeedInv'
  BY OnePartMoves, FeedStep, FeedKept DEF ViewsInv
<1>4. RoutingTypeOK'
  BY OnePartMoves, RoutingStep, RoutingKept DEF ViewsInv
<1>5. EntityInv'
  BY OnePartMoves, EntityStep, EntityKept DEF ViewsInv
<1>6. ChatInv'
  BY OnePartMoves, ChatStep, ChatKept DEF ViewsInv
<1>7. QED BY <1>1, <1>2, <1>3, <1>4, <1>5, <1>6 DEF ViewsInv

LEMMA ViewsInvHolds == ViewsSpec => []ViewsInv
<1>1. ViewsInv /\ [ViewsNext]_viewsVars => ViewsInv'
  BY ViewsStep
<1>2. QED BY <1>1, ViewsStart, PTL DEF ViewsSpec

\* For every set of requests, runs, categories, entities and operators and every bound,
\* all views keep the types of their state; and on Operations no second pipeline is
\* launched while a launch is in flight, though nothing but the closed dialog and the
\* disabled button of the page (OpenLaunch) sees to it.
THEOREM ViewsTypesHold == ViewsSpec => []ViewsTypeOK
<1>1. ViewsInv => ViewsTypeOK
  BY Zenon DEF ViewsInv, ViewsTypeOK, RequestsInv, RunsInv, FeedInv, EntityInv, ChatInv
<1>2. QED BY <1>1, ViewsInvHolds, PTL

\* However loads, polls, failures and changes of filters, addresses and users come in
\* each other's way: the feed shows only what its filters select (unless a change of them
\* overtook a load) and, while the page above stays as it is, skips no moment that had
\* events, be there several of one time, late ones and queries that return a part (of the
\* events that came in time and were read); the page of an entity at rest is about the one
\* that was asked for; an answer of the copilot stands behind its question, and no session
\* of the agent serves two operators; a list of requests shows what its operator decided;
\* and a menu leads where its user may go.
THEOREM ShownHolds == ViewsSpec => []ShownBelongs
<1>1. ViewsInv => AckedIsShown /\ FeedMatchesFilter /\ NoHoleInFeed /\ ChoiceIsShown
  BY AckedShows, FeedShows, ChosenShows DEF ViewsInv
<1>2. ViewsInv => AnswersFollowQuestions /\ MemoryIsOwn /\ MenusLead
  BY MemoryOwned, MenuLeads, Zenon DEF ViewsInv, ChatInv
<1>3. ViewsInv => ShownBelongs
  BY <1>1, <1>2, Zenon DEF ShownBelongs
<1>4. QED BY <1>3, ViewsInvHolds, PTL

================================================================================
