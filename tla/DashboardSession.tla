--------------------------- MODULE DashboardSession ----------------------------
(***************************************************************************)
(* The session of one browser tab of the dashboard with auth-service: the  *)
(* access token the tab keeps in memory (api/axios.ts), the refresh cookie *)
(* the browser keeps for all its tabs, and the sessions of the server,     *)
(* whose refresh token changes with every use and whose reuse revokes the  *)
(* session.                                                                *)
(*                                                                         *)
(* A call that is denied waits for a refresh, which all denied calls of    *)
(* the tab share, and is sent once more with the token the refresh brought. *)
(* A tab that starts refreshes first; the login page does not wait for it. *)
(***************************************************************************)
EXTENDS Naturals

CONSTANTS
  Session,    \* sessions the server may open, one per login
  ApiCall,    \* calls of pages that may be in flight together
  NoToken,    \* no cookie, no access token, no call
  MaxUpsets   \* bound: expiries, revocations, reloads, other tabs, losses

ASSUME SessionParameters == NoToken \notin Session /\ MaxUpsets \in Nat

VARIABLES
  sessions,    \* server: is a session alive, its token's generation, the expired ones
  cookie,      \* the browser: refresh token
  token,       \* sessionState.token
  location,    \* "login" or "inside"
  isLoading,   \* AuthProvider: the first refresh is not over
  refresh,     \* refreshPromise
  strays,      \* refreshes in flight that this tab will not hear of
  calls,       \* calls of pages
  signIn,      \* the call /login
  signOut,     \* the call /logout
  upsets,      \* upsets so far
  disturbed,   \* history: another tab, or a lost answer, has used the refresh token
  collided     \* history: a session was revoked for a used refresh token

sessionVars ==
  <<sessions, cookie, token, location, isLoading, refresh, strays, calls, signIn,
    signOut, upsets, disturbed, collided>>

historyVars == <<upsets, disturbed, collided>>
signVars == <<signIn, signOut>>

\* A refresh or access token: the session and how many were issued before it.
Token == [sid : Session, gen : Nat]

ASSUME NoTokenIsNone == NoToken \notin Token

NewSession == [alive |-> TRUE, gen |-> 1, expired |-> 0]

NoSession == [alive |-> FALSE, gen |-> 0, expired |-> 0]

IdleCall == [stage |-> "idle", token |-> NoToken]

RefreshSent(carried) == [stage |-> "sent", token |-> carried]

Alive(t) == t # NoToken /\ sessions[t.sid].alive

\* get_current_principal: the token has not expired and its session is active.
Accepted(t) == Alive(t) /\ t.gen > sessions[t.sid].expired

Waiters == {c \in ApiCall : calls[c].stage = "waiting"}

Upset == upsets < MaxUpsets /\ upsets' = upsets + 1

--------------------------------------------------------------------------------
(* A tab starts, with or without a cookie of an earlier visit. *)

Started(carried, at) ==
  /\ token' = NoToken /\ location' = at /\ isLoading' = TRUE
  /\ refresh' = RefreshSent(carried)
  /\ calls' = [c \in ApiCall |-> IdleCall]
  /\ signIn' = IdleCall /\ signOut' = IdleCall

SessionInit ==
  /\ cookie \in {NoToken} \cup [sid : Session, gen : {1}]
  /\ sessions = [s \in Session |->
       IF cookie # NoToken /\ cookie.sid = s THEN NewSession ELSE NoSession]
  /\ token = NoToken /\ isLoading = TRUE
  /\ location \in {"login", "inside"}
  /\ refresh = RefreshSent(cookie)
  /\ strays = {}
  /\ calls = [c \in ApiCall |-> IdleCall]
  /\ signIn = IdleCall /\ signOut = IdleCall
  /\ upsets = 0 /\ disturbed = FALSE /\ collided = FALSE

\* What the refreshes of a tab that goes away become: they may still be served.
Abandoned == IF refresh.stage = "sent" THEN strays \cup {refresh.token} ELSE strays

Reload ==
  /\ Upset
  /\ Started(cookie, location)
  /\ strays' = Abandoned
  /\ disturbed' = (disturbed \/ refresh.stage # "idle")
  /\ UNCHANGED <<sessions, cookie, collided>>

--------------------------------------------------------------------------------
(* Calls of pages. *)

\* The pages inside send calls and poll; the interceptor adds the token.
SendCall(c) ==
  /\ location = "inside" /\ ~isLoading /\ token # NoToken
  /\ calls[c].stage = "idle"
  /\ calls' = [calls EXCEPT ![c] = [stage |-> "sent", token |-> token]]
  /\ UNCHANGED <<sessions, cookie, token, location, isLoading, refresh, strays, signVars, historyVars>>

\* The server answers, or answers 401.  A call that was sent again is not a third time.
ServeCall(c) ==
  /\ calls[c].stage \in {"sent", "resent"}
  /\ calls' = [calls EXCEPT ![c] =
       IF calls[c].stage = "resent" \/ Accepted(calls[c].token) THEN IdleCall
       ELSE [@ EXCEPT !.stage = "denied"]]
  /\ UNCHANGED <<sessions, cookie, token, location, isLoading, refresh, strays, signVars, historyVars>>

\* Mutant: every denied call sends a refresh of its own.
DeniedMutant(c) ==
  /\ calls[c].stage = "denied"
  /\ calls' = [calls EXCEPT ![c].stage = "waiting"]
  /\ refresh' = IF refresh.stage = "idle" THEN RefreshSent(cookie) ELSE refresh
  /\ strays' = IF refresh.stage = "idle" THEN strays ELSE strays \cup {cookie}
  /\ UNCHANGED <<sessions, cookie, token, location, isLoading, signVars, historyVars>>

\* The answer 401 arrives: refreshAccessToken, one refresh for all.
Denied(c) ==
  /\ calls[c].stage = "denied"
  /\ calls' = [calls EXCEPT ![c].stage = "waiting"]
  /\ refresh' = IF refresh.stage = "idle" THEN RefreshSent(cookie) ELSE refresh
  /\ UNCHANGED <<sessions, cookie, token, location, isLoading, strays, signVars, historyVars>>

\* A call fails on its way: its page is told.
CallFails(c) ==
  /\ Upset /\ calls[c].stage \in {"sent", "resent"}
  /\ calls' = [calls EXCEPT ![c] = IdleCall]
  /\ UNCHANGED <<sessions, cookie, token, location, isLoading, refresh, strays, signVars,
                 disturbed, collided>>

--------------------------------------------------------------------------------
(* Refreshes. *)

\* refresh_session: a used token revokes its session, a current one is replaced.
Rotated(t) ==
  IF t.gen = sessions[t.sid].gen
  THEN [sessions EXCEPT ![t.sid].gen = @ + 1]
  ELSE [sessions EXCEPT ![t.sid].alive = FALSE]

Collides(t) == Alive(t) /\ t.gen # sessions[t.sid].gen

Renewed(t) ==
  IF Alive(t) /\ ~Collides(t) THEN [sid |-> t.sid, gen |-> t.gen + 1] ELSE NoToken

RefreshServed(t) ==
  /\ sessions' = IF Alive(t) THEN Rotated(t) ELSE sessions
  /\ collided' = (collided \/ Collides(t))

ServeRefresh ==
  /\ refresh.stage = "sent"
  /\ RefreshServed(refresh.token)
  /\ refresh' = [stage |-> "served", token |-> Renewed(refresh.token)]
  /\ UNCHANGED <<cookie, token, location, isLoading, strays, calls, signVars, upsets, disturbed>>

\* The answer brings a cookie and an access token; the waiting calls are sent again.
RefreshLands ==
  /\ refresh.stage = "served" /\ refresh.token # NoToken
  /\ cookie' = refresh.token /\ token' = refresh.token
  /\ calls' = [c \in ApiCall |-> IF c \in Waiters
                THEN [stage |-> "resent", token |-> refresh.token] ELSE calls[c]]
  /\ refresh' = IdleCall /\ isLoading' = FALSE
  /\ UNCHANGED <<sessions, location, strays, signVars, historyVars>>

\* Mutant: the calls that wait are not told.
GivenUpMutant ==
  /\ token' = NoToken /\ refresh' = IdleCall /\ isLoading' = FALSE
  /\ UNCHANGED <<calls, location, signVars>>

\* The tab gives up its token.  Waiting calls fail, and where one waited outside
\* the login page the browser loads the login page anew.
GivenUp ==
  IF Waiters # {} /\ location = "inside"
  THEN /\ Started(cookie, "login")
  ELSE /\ token' = NoToken /\ refresh' = IdleCall /\ isLoading' = FALSE
       /\ calls' = [c \in ApiCall |-> IF c \in Waiters THEN IdleCall ELSE calls[c]]
       /\ UNCHANGED <<location, signVars>>

\* Mutant: the failed refresh keeps the access token.
RefreshRefusedMutant ==
  /\ refresh.stage = "served" /\ refresh.token = NoToken
  /\ refresh' = IdleCall /\ isLoading' = FALSE
  /\ calls' = [c \in ApiCall |-> IF c \in Waiters THEN IdleCall ELSE calls[c]]
  /\ UNCHANGED <<token, location, signVars, sessions, cookie, strays, historyVars>>

RefreshRefused ==
  /\ refresh.stage = "served" /\ refresh.token = NoToken
  /\ GivenUp
  /\ UNCHANGED <<sessions, cookie, strays, historyVars>>

\* No answer arrives, whether or not the server has served the refresh.
RefreshLost ==
  /\ Upset /\ refresh.stage # "idle"
  /\ GivenUp
  /\ strays' = Abandoned
  /\ disturbed' = TRUE
  /\ UNCHANGED <<sessions, cookie, collided>>

\* Another tab of the browser refreshes with the cookie they share.
OtherTabRefresh ==
  /\ Upset /\ cookie # NoToken
  /\ strays' = strays \cup {cookie} /\ disturbed' = TRUE
  /\ UNCHANGED <<sessions, cookie, token, location, isLoading, refresh, calls, signVars, collided>>

\* Nobody in this tab hears the answer; the browser may take the cookie from it.
ServeStray ==
  /\ \E t \in strays :
       /\ RefreshServed(t)
       /\ strays' = strays \ {t}
       /\ cookie' \in {cookie} \cup ({Renewed(t)} \ {NoToken})
  /\ UNCHANGED <<token, location, isLoading, refresh, calls, signVars, upsets, disturbed>>

--------------------------------------------------------------------------------
(* The login page, which does not look at isLoading. *)

\* ProtectedRoute; LoginPage's effect.
Navigate ==
  \/ location = "inside" /\ ~isLoading /\ token = NoToken /\ location' = "login"
  \/ location = "login" /\ token # NoToken /\ location' = "inside"

Redirect ==
  /\ Navigate
  /\ UNCHANGED <<sessions, cookie, token, isLoading, refresh, strays, calls, signVars, historyVars>>

SubmitLogin ==
  /\ location = "login" /\ signIn.stage = "idle"
  /\ \E s \in Session : sessions[s] = NoSession
  /\ signIn' = [stage |-> "sent", token |-> NoToken]
  /\ UNCHANGED <<sessions, cookie, token, location, isLoading, refresh, strays, calls, signOut,
                 historyVars>>

\* authenticate_user: a new session, or invalid credentials.
ServeLogin ==
  /\ signIn.stage = "sent"
  /\ \/ \E s \in Session :
          /\ sessions[s] = NoSession
          /\ sessions' = [sessions EXCEPT ![s] = NewSession]
          /\ signIn' = [stage |-> "served", token |-> [sid |-> s, gen |-> 1]]
     \/ /\ signIn' = IdleCall
        /\ UNCHANGED sessions
  /\ UNCHANGED <<cookie, token, location, isLoading, refresh, strays, calls, signOut, historyVars>>

LoginLands ==
  /\ signIn.stage = "served"
  /\ cookie' = signIn.token /\ token' = signIn.token
  /\ signIn' = IdleCall
  /\ UNCHANGED <<sessions, location, isLoading, refresh, strays, calls, signOut, historyVars>>

--------------------------------------------------------------------------------
(* Signing out, and what the server does on its own. *)

\* The call names the session of the access token, or else of the cookie.
SignOut ==
  /\ location = "inside" /\ token # NoToken /\ signOut.stage = "idle"
  /\ signOut' = [stage |-> "sent", token |->
       IF token.gen > sessions[token.sid].expired \/ cookie = NoToken THEN token ELSE cookie]
  /\ UNCHANGED <<sessions, cookie, token, location, isLoading, refresh, strays, calls, signIn,
                 historyVars>>

ServeSignOut ==
  /\ signOut.stage = "sent"
  /\ sessions' = [sessions EXCEPT ![signOut.token.sid].alive = FALSE]
  /\ signOut' = [signOut EXCEPT !.stage = "served"]
  /\ UNCHANGED <<cookie, token, location, isLoading, refresh, strays, calls, signIn, historyVars>>

SignOutLands ==
  /\ signOut.stage = "served"
  /\ cookie' = NoToken /\ token' = NoToken
  /\ signOut' = IdleCall
  /\ UNCHANGED <<sessions, location, isLoading, refresh, strays, calls, signIn, historyVars>>

\* The call fails: the tab forgets the token, the browser keeps the cookie.
SignOutFails ==
  /\ Upset /\ signOut.stage # "idle"
  /\ token' = NoToken
  /\ signOut' = IdleCall
  /\ UNCHANGED <<sessions, cookie, location, isLoading, refresh, strays, calls, signIn,
                 disturbed, collided>>

\* The access tokens issued so far expire; an administrator revokes a session.
ServerUpset ==
  /\ Upset
  /\ \E s \in Session :
       /\ sessions[s].alive
       /\ \/ sessions' = [sessions EXCEPT ![s].expired = sessions[s].gen]
          \/ sessions' = [sessions EXCEPT ![s].alive = FALSE]
  /\ UNCHANGED <<cookie, token, location, isLoading, refresh, strays, calls, signVars,
                 disturbed, collided>>

--------------------------------------------------------------------------------
SessionNext ==
  \/ Reload
  \/ \E c \in ApiCall : SendCall(c) \/ ServeCall(c) \/ Denied(c) \/ CallFails(c)
  \/ ServeRefresh \/ RefreshLands \/ RefreshRefused \/ RefreshLost
  \/ OtherTabRefresh \/ ServeStray
  \/ Redirect \/ SubmitLogin \/ ServeLogin \/ LoginLands
  \/ SignOut \/ ServeSignOut \/ SignOutLands \/ SignOutFails \/ ServerUpset

\* Pages poll, and every call is answered or fails.
SessionFairness ==
  /\ \A c \in ApiCall : /\ WF_sessionVars(SendCall(c)) /\ WF_sessionVars(ServeCall(c))
                         /\ WF_sessionVars(Denied(c))
  /\ WF_sessionVars(ServeRefresh) /\ WF_sessionVars(RefreshLands)
  /\ WF_sessionVars(RefreshRefused) /\ WF_sessionVars(Redirect)

SessionSpec == SessionInit /\ [][SessionNext]_sessionVars /\ SessionFairness

--------------------------------------------------------------------------------
(* Properties. *)

\* Types; a call waits only while a refresh is under way (axios.ts:51, one promise
\* for all), and only a call that waits or was denied is without an answer.
SessionTypeOK ==
  /\ sessions \in [Session -> [alive : BOOLEAN, gen : Nat, expired : Nat]]
  /\ {cookie, token} \subseteq Token \cup {NoToken} /\ strays \subseteq Token \cup {NoToken}
  /\ location \in {"login", "inside"} /\ {isLoading, disturbed, collided} \subseteq BOOLEAN
  /\ refresh \in [stage : {"idle", "sent", "served"}, token : Token \cup {NoToken}]
  /\ calls \in [ApiCall -> [stage : {"idle", "sent", "denied", "waiting", "resent"},
                            token : Token \cup {NoToken}]]
  /\ upsets \in 0..MaxUpsets
  /\ Waiters # {} => refresh.stage # "idle"

\* A tab that is alone and loses no answer never presents a refresh token that was
\* used: however its calls are denied, and whatever logins and logouts come between,
\* the server does not take it for a thief and revoke its session.
OwnRefreshesNeverCollide == collided => disturbed

\* A tab whose session was ended on the server notices: its token does not stay.
DeadSessionIsNoticed ==
  (token # NoToken /\ ~Alive(token)) ~> (token = NoToken \/ Alive(token))

\* A denied call is sent again or fails: none waits for ever for a token.
EveryCallSettles == \A c \in ApiCall : (calls[c].stage # "idle") ~> (calls[c].stage = "idle")

\* A tab comes to rest: it notices the end of its session, and no call of it hangs.
TabComesToRest == DeadSessionIsNoticed /\ EveryCallSettles

================================================================================
