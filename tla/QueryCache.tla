------------------------------ MODULE QueryCache ------------------------------
(***************************************************************************)
(* One entry of the query cache of the dashboard (TanStack Query, as the   *)
(* pages of react-dashboard use it): what useQuery shows of an endpoint.   *)
(*                                                                         *)
(* A fetch is asked for, answered by the server and lands in the entry,    *)
(* three steps that others may come between.  There is one fetch at a      *)
(* time: a poll during a fetch joins it; an invalidation during a fetch    *)
(* abandons it and asks again, unless the entry has no data yet, when it   *)
(* joins the fetch as well.  A failed fetch leaves the data it found.      *)
(***************************************************************************)

CONSTANT NoData  \* what an entry holds before its first answer

\* A page that mounts asks for its data.
MountedEntry == [data |-> NoData, fetch |-> "asked", answer |-> NoData, error |-> FALSE]

Entries(Answer) ==
  [data : Answer \cup {NoData}, fetch : {"idle", "asked", "answered"},
   answer : Answer \cup {NoData}, error : BOOLEAN]

Fetching(e) == e.fetch # "idle"

\* The poll (refetchInterval) and a new observer.  An entry without data drops
\* its error, it is loading again; an entry with data keeps it to the next answer.
Asked(e) ==
  IF Fetching(e) THEN e
  ELSE [e EXCEPT !.fetch = "asked", !.error = @ /\ e.data # NoData]

\* invalidateQueries and the call refetch() of a button.
Invalidated(e) ==
  IF Fetching(e) /\ e.data # NoData THEN [e EXCEPT !.fetch = "asked", !.answer = NoData]
  ELSE Asked(e)

Answered(e, v) == [e EXCEPT !.fetch = "answered", !.answer = v]

Landed(e) ==
  [data |-> e.answer, fetch |-> "idle", answer |-> NoData, error |-> FALSE]

\* The last retry of a fetch failed.
Failed(e) == [e EXCEPT !.fetch = "idle", !.answer = NoData, !.error = TRUE]

Waiting(e) == e.fetch = "asked"

Landing(e) == e.fetch = "answered"

\* isLoading, isError and the rest.
Loading(e) == e.data = NoData /\ Fetching(e)

================================================================================
