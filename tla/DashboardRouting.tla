--------------------------- MODULE DashboardRouting ----------------------------
(***************************************************************************)
(* Where the dashboard leads its users: the routes and the roles that may  *)
(* read them (app/router.tsx), the redirects of ProtectedRoute and of the  *)
(* login page, and the menu of the sidebar with its own table of roles     *)
(* (lib/constants.ts).  Who is signed in changes under the routes' feet:   *)
(* DashboardSession says when.                                             *)
(***************************************************************************)
EXTENDS Naturals

CONSTANT MaxMoves  \* bound: navigations of the user and changes of who is signed in

ASSUME RoutingParameters == MaxMoves \in Nat

VARIABLES
  signedIn,    \* role of the user, or "nobody"
  validating,  \* isLoading: the first refresh is not over
  path,        \* the location
  from,        \* state of the login page: where it was come from
  submitted,   \* the role handleSubmit of the login page navigates for, or "nobody"
  moves        \* moves so far

routingVars == <<signedIn, validating, path, from, submitted, moves>>

--------------------------------------------------------------------------------
(* Roles and routes. *)

adminActorRoles == {"ADMIN", "NETWORK_MANAGER"}
nocActorRoles == {"NETWORK_OPERATOR"}
mlopsActorRoles == {"DATA_MLOPS_ENGINEER"}
allActorRoles == adminActorRoles \cup nocActorRoles \cup mlopsActorRoles

MlopsPaths ==
  {"/mlops", "/mlops/models", "/mlops/runs", "/mlops/artifacts", "/mlops/promotions",
   "/mlops/operations", "/mlops/monitoring", "/mlops/drift", "/mlops/requests",
   "/mlops/retraining-schedule", "/mlops/orchestration"}

ControlPaths ==
  {"/control/actions", "/control/actions/simulated-actuations",
   "/control/actions/action-history", "/control/actions/pending-approval",
   "/control/actions/drift-monitor"}

NocPaths ==
  {"/dashboard/national", "/dashboard/region", "/dashboard/region/:regionId", "/sessions",
   "/live-state", "/predictions", "/agentic/root-cause"}

ToolPaths == {"/monitoring-tools", "/trustworthy-ai", "/xai"}

CommonPaths == {"/", "/agentic/copilot", "/about"}

\* Under "*" every other path, open to everyone, as the login page is.
Paths ==
  {"/login", "*", "/admin/users"} \cup MlopsPaths \cup ControlPaths \cup NocPaths
    \cup ToolPaths \cup CommonPaths

\* The guards of the route tree; "/" needs a user, of any role.
AllowedRoles(p) ==
  CASE p \in NocPaths -> adminActorRoles \cup nocActorRoles
    [] p \in MlopsPaths \cup ControlPaths \cup ToolPaths -> adminActorRoles \cup mlopsActorRoles
    [] p = "/admin/users" -> adminActorRoles
    [] p \in CommonPaths -> allActorRoles

Open(p) == p \in {"/login", "*"}

\* Mutant: everybody starts at the national dashboard.
roleDefaultRouteMutant(role) == "/dashboard/national"

roleDefaultRoute(role) ==
  IF role \in mlopsActorRoles THEN "/mlops" ELSE "/dashboard/national"

\* ProtectedRoute.
Guarded(role, p) ==
  IF role = "nobody" THEN "/login"
  ELSE IF role \notin AllowedRoles(p) THEN roleDefaultRoute(role)
  ELSE p

\* The routes that only lead to another one.
Forward(p) ==
  CASE p = "/"                -> "/dashboard/national"
    [] p = "/xai"             -> "/trustworthy-ai"
    [] p = "/control/actions" -> "/control/actions/simulated-actuations"
    [] OTHER                  -> p

\* One redirect: the outermost guard that refuses, or else the page's own.
NextPath(role, p) ==
  IF Open(p) THEN IF p = "/login" /\ role # "nobody" THEN roleDefaultRoute(role) ELSE p
  ELSE IF Guarded(role, p) # p THEN Guarded(role, p) ELSE Forward(p)

\* A page that is shown; a redirect from a page to itself shows none.
Shown(role, p) ==
  IF Open(p) THEN p = "*" \/ role = "nobody"
  ELSE role # "nobody" /\ role \in AllowedRoles(p) /\ Forward(p) = p

\* The routes inside wait for the first refresh, the login page does not.
Settled == (validating /\ ~Open(path)) \/ Shown(signedIn, path)

--------------------------------------------------------------------------------
(* The menu. *)

\* Mutant: a menu entry for people who may not read its page.
navItemsMutant ==
  {[to |-> p, roles |-> allActorRoles] : p \in {"/mlops", "/predictions", "/about"}}

navItems ==
  {[to |-> p, roles |-> adminActorRoles \cup nocActorRoles] :
     p \in {"/dashboard/national", "/dashboard/region", "/sessions", "/live-state",
            "/predictions", "/agentic/root-cause"}}
  \cup
  {[to |-> p, roles |-> adminActorRoles \cup mlopsActorRoles] :
     p \in {"/mlops", "/monitoring-tools", "/trustworthy-ai", "/control/actions"}}
  \cup {[to |-> p, roles |-> allActorRoles] : p \in {"/agentic/copilot", "/about"}}
  \cup {[to |-> "/admin/users", roles |-> adminActorRoles]}

\* The sidebar is part of every page inside.
Menu == IF signedIn = "nobody" \/ Open(path) THEN {}
        ELSE {i.to : i \in {n \in navItems : signedIn \in n.roles}}

--------------------------------------------------------------------------------
RoutingInit ==
  /\ signedIn = "nobody" /\ validating = TRUE
  /\ path \in Paths
  /\ from = "*" /\ submitted = "nobody" /\ moves = 0

\* The first refresh ends, with a user or without.
Validated ==
  /\ validating /\ validating' = FALSE
  /\ signedIn' \in allActorRoles \cup {"nobody"}
  /\ UNCHANGED <<path, from, submitted, moves>>

\* A <Navigate/>: ProtectedRoute remembers where the user wanted to go.
FollowRedirect ==
  /\ ~Settled
  /\ path' = NextPath(signedIn, path)
  /\ from' = IF path' = "/login" THEN path ELSE from
  /\ UNCHANGED <<signedIn, validating, submitted, moves>>

\* /login has answered: the user is known before handleSubmit goes on.
LoggedIn ==
  /\ path = "/login" /\ signedIn = "nobody" /\ moves < MaxMoves
  /\ signedIn' \in allActorRoles
  /\ submitted' = signedIn' /\ moves' = moves + 1
  /\ UNCHANGED <<validating, path, from>>

\* handleSubmit navigates, before or after the effect of the login page has.
SubmitNavigates ==
  /\ submitted # "nobody" /\ submitted' = "nobody"
  /\ path' = IF from = "*" THEN roleDefaultRoute(submitted) ELSE from
  /\ UNCHANGED <<signedIn, validating, from, moves>>

\* The session ends or turns out to be another user's.
UserChanges ==
  /\ ~validating /\ submitted = "nobody" /\ moves < MaxMoves
  /\ signedIn' \in (allActorRoles \cup {"nobody"}) \ {signedIn}
  /\ moves' = moves + 1
  /\ UNCHANGED <<validating, path, from, submitted>>

\* A click in the menu or on a link, or an address of the history.
GoTo ==
  /\ ~validating /\ Settled /\ submitted = "nobody" /\ moves < MaxMoves
  /\ path' \in Menu \cup {"/", "/dashboard/region/:regionId"} \cup MlopsPaths \cup ControlPaths
  /\ moves' = moves + 1
  /\ from' = "*"
  /\ UNCHANGED <<signedIn, validating, submitted>>

RoutingNext ==
  \/ Validated \/ FollowRedirect \/ LoggedIn \/ SubmitNavigates \/ UserChanges \/ GoTo

RoutingFairness ==
  /\ WF_routingVars(Validated) /\ WF_routingVars(FollowRedirect)
  /\ WF_routingVars(SubmitNavigates)

RoutingSpec == RoutingInit /\ [][RoutingNext]_routingVars /\ RoutingFairness

--------------------------------------------------------------------------------
(* Properties. *)

RoutingTypeOK ==
  /\ {signedIn, submitted} \subseteq allActorRoles \cup {"nobody"} /\ validating \in BOOLEAN
  /\ {path, from} \subseteq Paths /\ moves \in 0..MaxMoves

\* Whoever is signed in, and wherever the user was sent from, the redirects of the
\* guards, the routes and the login page end at a page: they never chase each other.
Redirected == ~validating /\ Settled

RedirectsEnd == <>[]Redirected

\* The two tables of roles agree: an entry the sidebar offers is a page its user may
\* read, and a redirect that entry may have stays in its section.
MenusLead ==
  \A p \in Menu :
    LET next == NextPath(signedIn, p)
    IN Shown(signedIn, next) /\ (next = p \/ {p, next} \subseteq ControlPaths)

================================================================================
