-------------------------------- MODULE LogFeed --------------------------------
(***************************************************************************)
(* The feed of network events of the national and regional dashboards      *)
(* (network-logs-feed.tsx): its newest page is polled, "Load older" adds   *)
(* pages below it, and a change of the filters starts over.  The pages     *)
(* come from /live/logs of api-bff-service, newest first; a cursor is the  *)
(* time of the last event of a page that has more behind it.               *)
(*                                                                         *)
(* The server makes the events of a page from the rows it reads.  Several  *)
(* events have one time (the poller of faults writes them all with the     *)
(* same); some come with an older time than others that were there before; *)
(* they leave again as the window of the query moves on.  A query returns  *)
(* the newest rows of its measurement only, and one of AIOps that fails    *)
(* returns none.  The filters other than the categories narrow the events  *)
(* in the same way and are left out.                                       *)
(***************************************************************************)
EXTENDS Integers, FiniteSetsExt, QueryCache

CONSTANTS
  LogPicks,   \* the categories the user selects from: LOG_CATEGORIES of the dashboard
  LogKinds,   \* categories of events: LOG_CATEGORIES of api-bff-service
  LogSources, \* entities, slices and the network
  LogLimit,   \* events of a page
  MaxTime,    \* bound: times of events
  MaxEvents,  \* bound: events at a time
  MaxFeedOps, \* bound: changes of filters, loads of older events, failures and rows that
              \* push others out
  NoLoad      \* no load in flight

DashboardCategories ==
  {"FAULT_OPENED", "FAULT_CLEARED", "KPI_HEALTH", "KPI_CONGESTION", "KPI_PACKET_LOSS",
   "KPI_RB_UTIL", "KPI_LATENCY", "AIOPS_CONGESTION", "AIOPS_SLA", "AIOPS_SLICE_MISMATCH"}

BffCategories ==
  {"FAULT_OPENED", "FAULT_CLEARED", "KPI_BREACH", "AIOPS_CONGESTION", "AIOPS_SLA_RISK",
   "AIOPS_SLICE_MISMATCH"}

ASSUME FeedParameters ==
  /\ LogPicks \subseteq DashboardCategories /\ LogKinds \subseteq BffCategories
  /\ LogLimit \in Nat \ {0} /\ MaxTime \in Nat /\ MaxEvents \in Nat /\ MaxFeedOps \in Nat

VARIABLES
  feedEvents,   \* the server: the events of its rows
  feedTime,     \* the time of the newest event so far
  buried,       \* the rows up to this time are beyond the limit of a category's query
  feedFilter,   \* filters.categories; none selects all
  feedPages,    \* cache entries ["network-logs", filters]
  olderEvents,  \* loaded below the page
  olderCursor,  \* undefined (-1), null (0) or where to go on
  olderLoad,    \* loadOlder in flight, with the filters it was started with
  feedOps,      \* operations so far
  overtaken,    \* history: filters were changed during a load, since they last were
  slid,         \* history: the page has changed above events already loaded
  unread        \* history: events that came late or were not read for an answer

feedVars ==
  <<feedEvents, feedTime, buried, feedFilter, feedPages, olderEvents, olderCursor, olderLoad,
    feedOps, overtaken, slid, unread>>

feedRows == <<feedEvents, feedTime, buried>>

--------------------------------------------------------------------------------
(* api-bff-service. *)

Filters == SUBSET LogPicks

LogEvent == [kind : LogKinds, of : LogSources, time : 1..MaxTime]

AiopsKinds == LogKinds \cap {"AIOPS_CONGESTION", "AIOPS_SLA_RISK", "AIOPS_SLICE_MISMATCH"}

Selects(f, e) == f = {} \/ e.kind \in f

Matching(f) == {e \in feedEvents : Selects(f, e)}

\* What a query does not return: the rows up to a time, by category.
Unread(upto) == {e \in feedEvents : e.time <= upto[e.kind]}

\* fetch_fault_events sees some rows before the cursor.  A fault that was active then and
\* went on has its last row there, and is taken for cleared; a long one is taken for
\* opened at the oldest row of the query.
MadeUp(cursor) ==
  {e \in LogEvent : e.kind \in {"FAULT_OPENED", "FAULT_CLEARED"} /\ e.time < cursor}

Read(f, cursor, upto, made) ==
  {e \in (feedEvents \ Unread(upto)) \cup made :
     Selects(f, e) /\ (cursor > 0 => e.time < cursor)}

\* The newest of the events, in some order where the times are equal.
IsPage(page, S) ==
  /\ \A x \in page : \A y \in S \ page : y.time <= x.time
  /\ page # S => Cardinality(page) = LogLimit

\* network_logs: the pages that the events S may be answered with; 0 for no cursor.
Pages(S) ==
  {[events |-> page, next |-> IF page = S THEN 0 ELSE Min({e.time : e \in page})] :
     page \in {P \in SUBSET S : Cardinality(P) <= LogLimit /\ IsPage(P, S)}}

LogAnswers == [events : SUBSET LogEvent, next : 0..MaxTime]

\* validate_categories; the refusal is an error like any other to the feed.
Served(f) == f \subseteq BffCategories

--------------------------------------------------------------------------------
(* The feed. *)

Feed == feedPages[feedFilter]

PageEvents == IF Feed.data = NoData THEN {} ELSE Feed.data.events

nextCursor ==
  IF olderCursor # -1 THEN olderCursor
  ELSE IF Feed.data = NoData THEN 0 ELSE Feed.data.next

ShownEvents == PageEvents \cup olderEvents

\* A filter that was never used has no entry.
NoEntry == [data |-> NoData, fetch |-> "idle", answer |-> NoData, error |-> FALSE]

FeedBody ==
  CASE Loading(Feed)      -> "loading"
    [] Feed.error         -> "unavailable"
    [] ShownEvents = {}   -> "empty"
    [] OTHER              -> "events"

FeedOp == feedOps < MaxFeedOps /\ feedOps' = feedOps + 1

--------------------------------------------------------------------------------
FeedInit ==
  /\ feedEvents \in {S \in SUBSET LogEvent : Cardinality(S) <= MaxEvents}
  /\ feedTime \in 0..MaxTime /\ (feedTime = 0 \/ \E e \in feedEvents : e.time = feedTime)
  /\ \A e \in feedEvents : e.time <= feedTime
  /\ buried = [k \in LogKinds |-> 0]
  /\ feedFilter = {}
  /\ feedPages = [f \in Filters |-> IF f = {} THEN MountedEntry ELSE NoEntry]
  /\ olderEvents = {} /\ olderCursor = -1 /\ olderLoad = NoLoad
  /\ feedOps = 0 /\ overtaken = FALSE /\ slid = FALSE /\ unread = {}

\* An event of now or, if its row is written or its fault is found cleared late, of before.
EventHappens ==
  /\ Cardinality(feedEvents) < MaxEvents
  /\ \E e \in LogEvent \ feedEvents :
       /\ feedEvents' = feedEvents \cup {e}
       /\ feedTime' = IF e.time > feedTime THEN e.time ELSE feedTime
       /\ unread' = IF e.time < feedTime THEN unread \cup {e} ELSE unread
  /\ UNCHANGED <<buried, feedFilter, feedPages, olderEvents, olderCursor, olderLoad, feedOps,
                 overtaken, slid>>

\* The window of the query has moved on; the opening of a long fault moves with it.
EventLeaves ==
  /\ FeedOp
  /\ \E e \in feedEvents : feedEvents' = feedEvents \ {e}
  /\ UNCHANGED <<feedTime, buried, feedFilter, feedPages, olderEvents, olderCursor, olderLoad,
                 overtaken, slid, unread>>

\* Newer rows of its measurement, events or not, push a category's older rows out.
RowsCome ==
  /\ FeedOp
  /\ \E k \in LogKinds : \E t \in 1..feedTime :
       buried[k] < t /\ buried' = [buried EXCEPT ![k] = t]
  /\ UNCHANGED <<feedEvents, feedTime, feedFilter, feedPages, olderEvents, olderCursor,
                 olderLoad, overtaken, slid, unread>>

FeedFetch(f, e) ==
  /\ feedPages' = [feedPages EXCEPT ![f] = e]
  /\ UNCHANGED <<feedRows, feedFilter, olderEvents, olderCursor, olderLoad, overtaken>>

\* Mutant: the poll ends when there is a page.
FeedPollMutant ==
  /\ ~Fetching(Feed) /\ Feed.data = NoData
  /\ FeedFetch(feedFilter, Asked(Feed))
  /\ UNCHANGED <<feedOps, slid, unread>>

\* The poll, every 5 seconds, and the button Refresh.
FeedPoll ==
  /\ ~Fetching(Feed)
  /\ FeedFetch(feedFilter, Asked(Feed))
  /\ UNCHANGED <<feedOps, slid, unread>>

FeedPage(f, upto) ==
  /\ \E a \in Pages(Read(f, 0, upto, {})) : FeedFetch(f, Answered(feedPages[f], a))
  /\ unread' = unread \cup Unread(upto)
  /\ UNCHANGED slid

FeedAnswered(f) ==
  /\ Waiting(feedPages[f])
  /\ \/ Served(f) /\ FeedPage(f, buried)
     \/ ~Served(f) /\ FeedFetch(f, Failed(feedPages[f])) /\ UNCHANGED <<slid, unread>>
  /\ UNCHANGED feedOps

\* Queries of AIOps measurements fail: the page is without their events.
FeedAnsweredPartly(f) ==
  /\ Waiting(feedPages[f]) /\ Served(f) /\ FeedOp
  /\ \E failed \in SUBSET AiopsKinds \ {{}} :
       FeedPage(f, [k \in LogKinds |-> IF k \in failed THEN MaxTime ELSE buried[k]])

FeedLands(f) ==
  /\ Landing(feedPages[f])
  /\ FeedFetch(f, Landed(feedPages[f]))
  /\ slid' = (slid \/ (/\ f = feedFilter
                       /\ feedPages[f].answer # feedPages[f].data
                       /\ olderCursor # -1 \/ olderLoad # NoLoad))
  /\ UNCHANGED <<feedOps, unread>>

\* InfluxDB cannot be read: the last answer stays, under an error.
FeedFails(f) ==
  /\ Fetching(feedPages[f]) /\ FeedOp
  /\ feedPages' = [feedPages EXCEPT ![f] = Failed(feedPages[f])]
  /\ UNCHANGED <<feedRows, feedFilter, olderEvents, olderCursor, olderLoad, overtaken, slid,
                 unread>>

\* Mutant: the events loaded for the old filters stay.
SetFiltersMutant ==
  /\ FeedOp
  /\ \E f \in Filters \ {feedFilter} :
       /\ feedFilter' = f
       /\ feedPages' = [feedPages EXCEPT ![f] = Asked(@)]
  /\ olderCursor' = -1
  /\ overtaken' = (olderLoad # NoLoad) /\ slid' = FALSE
  /\ UNCHANGED <<feedRows, olderEvents, olderLoad, unread>>

\* LogFiltersBar: a category is toggled or all are reset; the effect of the feed
\* drops the older events, a load in flight goes on.
SetFilters ==
  /\ FeedOp
  /\ \E f \in Filters \ {feedFilter} :
       /\ feedFilter' = f
       /\ feedPages' = [feedPages EXCEPT ![f] = Asked(@)]
  /\ olderEvents' = {} /\ olderCursor' = -1
  /\ overtaken' = (olderLoad # NoLoad) /\ slid' = FALSE
  /\ UNCHANGED <<feedRows, olderLoad, unread>>

\* The button "Load older".
LoadOlder ==
  /\ FeedBody = "events" /\ nextCursor # 0 /\ olderLoad = NoLoad /\ FeedOp
  /\ olderLoad' = [filter |-> feedFilter, cursor |-> nextCursor, answer |-> NoData]
  /\ UNCHANGED <<feedRows, feedFilter, feedPages, olderEvents, olderCursor, overtaken, slid,
                 unread>>

\* A query below a cursor returns some newest rows of its measurement, or none.
OlderAnswered ==
  /\ olderLoad # NoLoad /\ olderLoad.answer = NoData
  /\ \E upto \in [LogKinds -> 0..olderLoad.cursor - 1], made \in SUBSET MadeUp(olderLoad.cursor) :
       /\ \E a \in Pages(Read(olderLoad.filter, olderLoad.cursor, upto, made)) :
            olderLoad' = [olderLoad EXCEPT !.answer = a]
       /\ unread' = unread \cup Unread(upto)
  /\ UNCHANGED <<feedRows, feedFilter, feedPages, olderEvents, olderCursor, feedOps, overtaken,
                 slid>>

\* Mutant: the response replaces what was loaded before.
OlderLandsMutant ==
  /\ olderLoad # NoLoad /\ olderLoad.answer # NoData
  /\ olderEvents' = olderLoad.answer.events
  /\ olderCursor' = olderLoad.answer.next
  /\ olderLoad' = NoLoad
  /\ UNCHANGED <<feedRows, feedFilter, feedPages, feedOps, overtaken, slid, unread>>

OlderLands ==
  /\ olderLoad # NoLoad /\ olderLoad.answer # NoData
  /\ olderEvents' = olderEvents \cup olderLoad.answer.events
  /\ olderCursor' = olderLoad.answer.next
  /\ olderLoad' = NoLoad
  /\ UNCHANGED <<feedRows, feedFilter, feedPages, feedOps, overtaken, slid, unread>>

\* Nothing is said: the button is back.
OlderFails ==
  /\ olderLoad # NoLoad
  /\ olderLoad' = NoLoad
  /\ UNCHANGED <<feedRows, feedFilter, feedPages, olderEvents, olderCursor, feedOps,
                 overtaken, slid, unread>>

FeedNext ==
  \/ EventHappens \/ EventLeaves \/ RowsCome \/ FeedPoll
  \/ \E f \in Filters :
       FeedAnswered(f) \/ FeedAnsweredPartly(f) \/ FeedLands(f) \/ FeedFails(f)
  \/ SetFilters \/ LoadOlder \/ OlderAnswered \/ OlderLands \/ OlderFails

\* The poll goes on and not every read of InfluxDB fails.
FeedFairness ==
  /\ WF_feedVars(FeedPoll)
  /\ \A f \in Filters : WF_feedVars(FeedAnswered(f)) /\ WF_feedVars(FeedLands(f))

FeedSpec == FeedInit /\ [][FeedNext]_feedVars /\ FeedFairness

--------------------------------------------------------------------------------
(* Properties. *)

FeedTypeOK ==
  /\ feedEvents \subseteq LogEvent /\ feedTime \in 0..MaxTime
  /\ buried \in [LogKinds -> 0..MaxTime]
  /\ feedFilter \in Filters
  /\ feedPages \in [Filters -> Entries(LogAnswers)]
  /\ olderEvents \subseteq LogEvent /\ olderCursor \in -1..MaxTime
  /\ olderLoad \in {NoLoad} \cup
       [filter : Filters, cursor : 1..MaxTime, answer : LogAnswers \cup {NoData}]
  /\ unread \subseteq LogEvent

\* The feed shows only what its filters select; the one exception is a load of older
\* events that a change of the filters overtook.
FeedMatchesFilter == overtaken \/ \A e \in ShownEvents : Selects(feedFilter, e)

\* Loading further down skips no moment: between the newest and the oldest event that
\* is shown there is none with events and nothing shown, as long as the page above
\* stayed as it was.  This is so for the events that were there and read for every
\* answer, and of several events of one moment some may be missing: the next page
\* begins below the time of the last event.
NoHoleInFeed ==
  overtaken \/ slid \/
  \A e \in Matching(feedFilter) \ unread :
    (\E x, y \in ShownEvents : x.time < e.time /\ e.time < y.time)
      => \E z \in ShownEvents : z.time = e.time

\* The newest of the events that the server reads are shown in the end, whatever is
\* loaded and filtered between.
NewestShown ==
  Served(feedFilter) =>
    LET S == Read(feedFilter, 0, buried, {})
    IN {e \in S : Cardinality({x \in S \ {e} : x.time >= e.time}) < LogLimit}
         \subseteq ShownEvents

NewestAreShown == <>[]NewestShown

================================================================================
