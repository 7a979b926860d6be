------------------------------ MODULE CopilotChat ------------------------------
(***************************************************************************)
(* The page "Copilot Agent": a conversation of one operator, whose memory  *)
(* copilot-agent keeps per session id.  The id is made in the browser and  *)
(* kept in its sessionStorage under the operator's name.                   *)
(*                                                                         *)
(* A question goes through dashboard-backend, which gives up after a time; *)
(* the agent does not, and adds the turn to its memory all the same.       *)
(* Meanwhile the page may be left and opened again, and the signed-in user *)
(* may become another one.  The effects of a render run before the next    *)
(* thing the operator does.                                                *)
(***************************************************************************)
EXTENDS Naturals, Sequences

CONSTANTS
  Operator,    \* people who sign in with this browser
  MaxChatOps   \* bound: questions, new sessions, reopenings, changes of the user

ASSUME ChatParameters == MaxChatOps \in Nat

VARIABLES
  user,        \* who is signed in
  stored,      \* sessionStorage: the session id of each operator, or NoChat
  sessionId,   \* state of the page
  messages,    \* state of the page: what was said
  asks,        \* calls of askCopilot in flight
  turns,       \* copilot-agent: questions it works on
  memory,      \* copilot-agent: the turns of every session
  chatOps      \* operations so far; numbers sessions and questions

chatVars == <<user, stored, sessionId, messages, asks, turns, memory, chatOps>>

--------------------------------------------------------------------------------
\* `dashboard-${seed}-...`; the rest of it is new every time.
Chats == [of : Operator, n : 0..MaxChatOps]
NoChat == [of |-> "nobody", n |-> 0]

\* The page begins with a message of its own.
welcomeMessage == <<[role |-> "assistant", question |-> 0]>>

\* What the agent is asked.
Turns == [by : Operator, session : Chats, question : 1..MaxChatOps]

\* A call is seen by the page that made it, while that page is open.
Asks == [turn : Turns, phase : {"sent", "waiting", "answered", "error"}, seen : BOOLEAN]

\* isPending of the mutation.
isPending == \E c \in asks : c.seen

ChatOp == chatOps < MaxChatOps /\ chatOps' = chatOps + 1

\* Mutant: one key for everybody who uses this browser.
buildSessionIdMutant(u, forceNew) ==
  LET cached == {stored[o] : o \in Operator} \ {NoChat}
      id     == IF forceNew \/ cached = {} THEN [of |-> u, n |-> chatOps']
                ELSE CHOOSE s \in cached : TRUE
  IN stored' = [stored EXCEPT ![u] = id] /\ sessionId' = id

\* The id of before, or a new one that is stored.
buildSessionId(u, forceNew) ==
  LET id == IF forceNew \/ stored[u] = NoChat THEN [of |-> u, n |-> chatOps'] ELSE stored[u]
  IN stored' = [stored EXCEPT ![u] = id] /\ sessionId' = id

--------------------------------------------------------------------------------
ChatInit ==
  /\ user \in Operator
  /\ sessionId = [of |-> user, n |-> 0]
  /\ stored = [o \in Operator |-> IF o = user THEN sessionId ELSE NoChat]
  /\ messages = welcomeMessage
  /\ asks = {} /\ turns = {} /\ memory = {} /\ chatOps = 0

AskSubmit ==
  /\ ~isPending /\ ChatOp
  /\ LET turn == [by |-> user, session |-> sessionId, question |-> chatOps']
     IN /\ messages' = Append(messages, [role |-> "user", question |-> turn.question])
        /\ asks' = asks \cup {[turn |-> turn, phase |-> "sent", seen |-> TRUE]}
  /\ UNCHANGED <<user, stored, sessionId, turns, memory>>

\* Mutant: a new session while the answer is on its way.
handleResetConversationMutant ==
  /\ ChatOp
  /\ buildSessionId(user, TRUE) /\ messages' = welcomeMessage
  /\ UNCHANGED <<user, asks, turns, memory>>

\* The button "New Session".
handleResetConversation ==
  /\ ~isPending /\ ChatOp
  /\ buildSessionId(user, TRUE) /\ messages' = welcomeMessage
  /\ UNCHANGED <<user, asks, turns, memory>>

\* The page is left and opened again: what comes back for the old one is lost.
Reopen ==
  /\ ChatOp
  /\ messages' = welcomeMessage /\ buildSessionId(user, FALSE)
  /\ asks' = {[c EXCEPT !.seen = FALSE] : c \in asks}
  /\ UNCHANGED <<user, turns, memory>>

\* A refresh brings the user of another tab.  The page keeps its messages.
UserBecomes ==
  /\ ChatOp
  /\ user' \in Operator \ {user} /\ buildSessionId(user', FALSE)
  /\ UNCHANGED <<messages, asks, turns, memory>>

AskMoves(c, phase) == asks' = (asks \ {c}) \cup {[c EXCEPT !.phase = phase]}

\* dashboard-backend passes the question on, or cannot reach the agent.
ForwardAsk(c) ==
  /\ c.phase = "sent"
  /\ \/ AskMoves(c, "waiting") /\ turns' = turns \cup {c.turn}
     \/ AskMoves(c, "error") /\ UNCHANGED turns
  /\ UNCHANGED <<user, stored, sessionId, messages, memory, chatOps>>

\* Mutant: a proxy without a timeout, as that of the streamed answers is.
ProxyGivesUpMutant(c) == FALSE /\ UNCHANGED chatVars

\* COPILOT_TIMEOUT; the agent goes on.
ProxyGivesUp(c) ==
  /\ c.phase = "waiting" /\ AskMoves(c, "error")
  /\ UNCHANGED <<user, stored, sessionId, messages, turns, memory, chatOps>>

\* The reply of the agent reaches the call, if that still waits.
Replied(turn, phase) ==
  asks' = {IF c.turn = turn /\ c.phase = "waiting" THEN [c EXCEPT !.phase = phase] ELSE c :
             c \in asks}

AgentEnds(turn) ==
  /\ turn \in turns /\ turns' = turns \ {turn}
  /\ \/ memory' = memory \cup {turn} /\ Replied(turn, "answered")
     \/ UNCHANGED memory /\ Replied(turn, "error")
  /\ UNCHANGED <<user, stored, sessionId, messages, chatOps>>

\* onSuccess and onError.
AskReturns(c) ==
  /\ c.phase \in {"answered", "error"} /\ asks' = asks \ {c}
  /\ messages' =
       IF ~c.seen THEN messages
       ELSE Append(messages, [role     |-> IF c.phase = "answered" THEN "assistant" ELSE "error",
                              question |-> c.turn.question])
  /\ UNCHANGED <<user, stored, sessionId, turns, memory, chatOps>>

AskProceeds == \E c \in asks : ForwardAsk(c) \/ ProxyGivesUp(c) \/ AskReturns(c)

ChatNext ==
  \/ AskSubmit \/ handleResetConversation \/ Reopen \/ UserBecomes
  \/ \E c \in asks : ForwardAsk(c) \/ ProxyGivesUp(c) \/ AskReturns(c)
  \/ \E t \in turns : AgentEnds(t)

\* The agent may never end.
ChatSpec == ChatInit /\ [][ChatNext]_chatVars /\ WF_chatVars(AskProceeds)

--------------------------------------------------------------------------------
(* Properties. *)

ChatTypeOK ==
  /\ user \in Operator /\ stored \in [Operator -> Chats \cup {NoChat}] /\ sessionId \in Chats
  /\ messages \in Seq([role : {"user", "assistant", "error"}, question : 0..MaxChatOps])
  /\ asks \subseteq Asks /\ turns \subseteq Turns /\ memory \subseteq Turns
  /\ chatOps \in 0..MaxChatOps

\* Every answer and every error in the conversation is right behind the question it
\* is about, whatever was left, reset or given up before: no late answer turns up in
\* a conversation it does not belong to.
AnswersFollowQuestions ==
  \A i \in 2..Len(messages) :
    messages[i].role # "user" =>
      messages[i - 1] = [role |-> "user", question |-> messages[i].question]

\* No session of the agent remembers questions of two operators.
MemoryIsOwn == \A s, t \in memory \cup turns : s.session = t.session => s.by = t.by

\* A question comes back, if only as an error, and the page can be used again.
ChatComesFree == []<>~isPending

================================================================================
