-------------------------------- MODULE MCViews --------------------------------
(* The parts of the dashboard whose promises need fairness, on small instances. *)
(* The router mounts one page at a time, so a behaviour is about one of them; a *)
(* part that is not mounted rests in a fixed initial state.                     *)
EXTENDS RequestsConsole, RunsConsole, LogFeed, DashboardRouting, EntityDashboard, CopilotChat

VARIABLE part  \* the part this behaviour is about

viewsVars ==
  <<part, requestsVars, runsVars, feedVars, routingVars, entityVars, chatVars>>

At(p, A) == part = p /\ A

ViewsInit ==
  /\ part \in {"requests", "runs", "feed", "routing", "entity", "chat"}
  /\ part # "runs" => runsPage = "orchestration" /\ runs = [r \in Run |-> "none"]
  /\ part # "feed" => feedEvents = {}
  /\ part # "routing" => path = "/login"
  /\ part # "entity" => live = {} /\ routeEntityId = NoEntity
  /\ part # "chat" => user = CHOOSE o \in Operator : TRUE
  /\ RequestsInit /\ RunsInit /\ FeedInit /\ RoutingInit /\ EntityInit /\ ChatInit
  /\ part = "feed" => Cardinality(feedEvents) = 2 /\ feedTime < MaxTime
  /\ Cardinality({r \in Request : requests[r] # "none"}) <= IF part = "requests" THEN 1 ELSE 0

ViewsNext ==
  /\ UNCHANGED part
  /\ \/ At("requests", RequestsNext)
        /\ UNCHANGED <<runsVars, feedVars, routingVars, entityVars, chatVars>>
     \/ At("runs", RunsNext)
        /\ UNCHANGED <<requestsVars, feedVars, routingVars, entityVars, chatVars>>
     \/ At("feed", FeedNext)
        /\ UNCHANGED <<requestsVars, runsVars, routingVars, entityVars, chatVars>>
     \/ At("routing", RoutingNext)
        /\ UNCHANGED <<requestsVars, runsVars, feedVars, entityVars, chatVars>>
     \/ At("entity", EntityNext)
        /\ UNCHANGED <<requestsVars, runsVars, feedVars, routingVars, chatVars>>
     \/ At("chat", ChatNext)
        /\ UNCHANGED <<requestsVars, runsVars, feedVars, routingVars, entityVars>>

\* The fairness of each part, while it is mounted.
ViewsFairness ==
  /\ WF_requestsVars(At("requests", RequestsPoll))
  /\ SF_requestsVars(At("requests", RequestsAnswered))
  /\ SF_requestsVars(At("requests", RequestsLand))
  /\ WF_requestsVars(At("requests", RequestsCallSteps))
  /\ WF_runsVars(At("runs", RunsPoll)) /\ WF_runsVars(At("runs", RunsAnswered))
  /\ WF_runsVars(At("runs", RunsLand)) /\ WF_runsVars(At("runs", LogsPoll))
  /\ \A r \in Run : /\ WF_runsVars(At("runs", LogsAnswered(r)))
                    /\ WF_runsVars(At("runs", LogsLand(r)))
  /\ WF_feedVars(At("feed", FeedPoll))
  /\ \A f \in Filters : /\ WF_feedVars(At("feed", FeedAnswered(f)))
                        /\ WF_feedVars(At("feed", FeedLands(f)))
  /\ WF_routingVars(At("routing", Validated)) /\ WF_routingVars(At("routing", FollowRedirect))
  /\ WF_routingVars(At("routing", SubmitNavigates))
  /\ WF_entityVars(At("entity", EntitiesPoll)) /\ WF_entityVars(At("entity", EntitiesAnswered))
  /\ WF_entityVars(At("entity", EntitiesLand)) /\ WF_entityVars(At("entity", SnapshotPoll))
  /\ \A e \in Entity : WF_entityVars(At("entity", SnapshotLands(e)))
  /\ WF_entityVars(At("entity", SelectionFollows))
  /\ WF_entityVars(At("entity", AddressLands))
  /\ WF_chatVars(At("chat", AskProceeds))

ViewsSpec == ViewsInit /\ [][ViewsNext]_viewsVars /\ ViewsFairness

\* The types of all parts.
ViewsTypeOK ==
  RequestsTypeOK /\ RunsTypeOK /\ FeedTypeOK /\ RoutingTypeOK /\ EntityTypeOK /\ ChatTypeOK

\* The promises of the mounted part.
AtRest ==
  /\ part = "requests" => RequestsShown
  /\ part = "runs" => RunsShown /\ LogsAtTheEnd
  /\ part = "feed" => NewestShown
  /\ part = "routing" => Redirected
  /\ part = "entity" => EntityAtRest
ChatComesToRest == part = "chat" => ChatComesFree

\* What is shown belongs where it is shown: events to the filters of the feed, the
\* entity to the choice, answers to their questions, an agent's memory to its
\* operator, an entry of the sidebar to a page its user may read, and a list of requests
\* to what its operator has decided.
ShownBelongs ==
  /\ AckedIsShown
  /\ FeedMatchesFilter /\ NoHoleInFeed
  /\ ChoiceIsShown
  /\ AnswersFollowQuestions /\ MemoryIsOwn
  /\ MenusLead

\* Every part comes to show what the server has, ends its redirects and is usable
\* again after each question, whatever failed or changed between.
ViewsComeToRest == <>[]AtRest /\ ChatComesToRest

================================================================================
