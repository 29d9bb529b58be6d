----------------------------- MODULE AiAssistant -----------------------------
(***************************************************************************)
(* The chat panel of the AI assistant and the endpoints it calls.  A       *)
(* message opens an event stream; its events set the session, append to    *)
(* the panel and, for a tool that writes, put a confirmation card into the *)
(* panel and stop reading until the user decides.  Meanwhile the user may  *)
(* start a new chat, open or delete another session, retry or regenerate:  *)
(* the panel is cleared and the streams run on.                            *)
(***************************************************************************)
EXTENDS Naturals, Sequences, FiniteSets

CONSTANTS
  MaxStreams,   \* bound: streams of a run
  MaxCalls,     \* bound: write tools called in a stream
  MaxPanelOps,  \* bound: new chats, sessions opened and deleted
  None          \* no session yet

ASSUME AssistantAssumption ==
  MaxStreams \in Nat /\ MaxCalls \in Nat /\ MaxPanelOps \in Nat /\ None \notin Nat

Streams == 1..MaxStreams

\* Session 0 is there at the start; the one a stream creates has its number.
Sessions == 0..MaxStreams

Calls == Streams \X (1..MaxCalls)

VARIABLES
  sessionId,     \* state.sessionId
  isStreaming,   \* state.isStreaming
  hasLast,       \* state.lastUserMessage is set
  body,          \* sessions the messages in the panel belong to
  welcome,       \* the welcome screen with its quick actions is shown
  errors,        \* an error message with its Retry button is in the panel
  streams,       \* calls of streamChat: where each is, and what was decided
  card,          \* the open confirmation card of a stream: in the panel after
                 \* the last user message, before it, or removed from the panel
  loads,         \* sessions whose messages are being loaded
  deletes,       \* sessions being deleted
  seen,          \* sessions the history may list
  posted,        \* write calls whose request was sent and has not reached the server
  executed,      \* how often the server has executed each write call
  panelOps,      \* operations so far (bound MaxPanelOps)
  turned,        \* history: the panel was last cleared (new chat, a session opened or
                 \* deleted) while a stream or a load was under way
  forked         \* history: since then a stream was begun beside another one before
                 \* either had a session

panel == <<sessionId, isStreaming, hasLast, body, welcome, errors, card>>
calls == <<posted, executed>>
history == <<turned, forked>>
vars == <<panel, streams, loads, deletes, seen, calls, panelOps, history>>

Phases == {"idle", "sent", "open", "confirm", "execute", "drained", "ended"}
Active == {i \in Streams : streams[i].phase \notin {"idle", "ended"}}

To(i, phase) == streams' = [streams EXCEPT ![i].phase = phase]

-----------------------------------------------------------------------------
(* Starting a stream                                                       *)

\* appendMessage('user'): what was last in the panel now precedes it.
AppendUserMessage ==
  /\ body' = body \cup {sessionId}
  /\ welcome' = FALSE
  /\ hasLast' = TRUE
  /\ UNCHANGED errors
  /\ card' = [i \in Streams |-> IF card[i] = "last" THEN "earlier" ELSE card[i]]

\* setStreaming(true) and the request of streamChat.
StartStream(i) ==
  /\ streams[i].phase = "idle"
  /\ \A j \in 1..(i - 1) : streams[j].phase # "idle"
  /\ streams' = [streams EXCEPT ![i].phase = "sent", ![i].session = sessionId]
  /\ isStreaming' = TRUE
  /\ forked' = (forked \/ (sessionId = None /\ Active # {}))
  /\ UNCHANGED <<sessionId, loads, deletes, seen, calls, panelOps, turned>>

sendMessage(i) == AppendUserMessage /\ StartStream(i)

sendCurrentMessage(i) == ~isStreaming /\ sendMessage(i)

QuickAction(i) == welcome /\ sendMessage(i)

\* Everything after the last user message is removed from the panel; an error
\* before it stays.
regenerate(i) ==
  /\ ~isStreaming
  /\ hasLast
  /\ StartStream(i)
  /\ errors' \in {errors, FALSE}
  /\ card' = [j \in Streams |-> IF card[j] = "last" THEN "gone" ELSE card[j]]
  /\ UNCHANGED <<hasLast, body, welcome>>

\* The error is removed; there may be another one.
RetryError(i) ==
  /\ errors
  /\ hasLast
  /\ errors' \in BOOLEAN
  /\ StartStream(i)
  /\ UNCHANGED <<hasLast, body, welcome, card>>

-----------------------------------------------------------------------------
(* The events of a stream                                                  *)

SessionEvent(i) ==
  /\ streams[i].phase = "sent"
  /\ LET s == IF streams[i].session = None THEN i ELSE streams[i].session
     IN  /\ streams' = [streams EXCEPT ![i].phase = "open", ![i].session = s]
         /\ sessionId' = s
         /\ seen' = seen \cup {s}
  /\ UNCHANGED <<isStreaming, hasLast, body, welcome, errors, card, loads,
                 deletes, calls, panelOps, history>>

\* Text, reasoning, or a tool that only reads.
ContentEvent(i) ==
  /\ streams[i].phase = "open"
  /\ body' = body \cup {streams[i].session}
  /\ welcome' \in {welcome, FALSE}
  /\ <<body, welcome>>' # <<body, welcome>>
  /\ UNCHANGED <<sessionId, isStreaming, hasLast, errors, card, streams, loads,
                 deletes, seen, calls, panelOps, history>>

AppendError == errors' = TRUE /\ welcome' = FALSE

\* The model's call, the assistant service and the endpoint each report their own.
ErrorEvent(i) ==
  /\ streams[i].phase = "open"
  /\ AppendError
  /\ UNCHANGED <<sessionId, isStreaming, hasLast, body, card, streams, loads,
                 deletes, seen, calls, panelOps, history>>

confirmWriteTool(i) ==
  /\ streams[i].phase = "open"
  /\ Len(streams[i].decisions) < MaxCalls
  /\ To(i, "confirm")
  /\ card' = [card EXCEPT ![i] = "last"]
  /\ UNCHANGED <<sessionId, isStreaming, hasLast, body, welcome, errors, loads,
                 deletes, seen, calls, panelOps, history>>

Decision(i, decision, phase) ==
  /\ streams[i].phase = "confirm"
  /\ card[i] \in {"last", "earlier"}
  /\ card' = [card EXCEPT ![i] = "none"]
  /\ streams' = [streams EXCEPT ![i].phase = phase,
                                ![i].decisions = Append(@, decision)]
  /\ UNCHANGED <<sessionId, isStreaming, hasLast, body, welcome, errors, loads,
                 deletes, seen, executed, panelOps, history>>

\* The request of executeWriteTool leaves with the click.
ConfirmClicked(i) ==
  /\ Decision(i, "approved", "execute")
  /\ posted' = posted \cup {<<i, Len(streams[i].decisions) + 1>>}

CancelClicked(i) == Decision(i, "declined", "open") /\ UNCHANGED posted

\* The server runs the tool it is posted, also when the browser has given the answer
\* up.  A request that is lost stays in posted.
ExecuteTool(c) ==
  /\ c \in posted
  /\ posted' = posted \ {c}
  /\ executed' = [executed EXCEPT ![c] = @ + 1]
  /\ UNCHANGED <<panel, streams, loads, deletes, seen, panelOps, history>>

\* Mutant of ExecuteAnswered: a write whose request failed is posted again.
ExecuteAnswered_Retries(i) ==
  /\ streams[i].phase = "execute"
  /\ \/ To(i, "open") /\ UNCHANGED posted
     \/ posted' = posted \cup {<<i, Len(streams[i].decisions)>>} /\ UNCHANGED streams
  /\ UNCHANGED <<panel, loads, deletes, seen, executed, panelOps, history>>

\* Mutant of ExecuteAnswered: the failure of the request is not caught.
ExecuteAnswered_OnlyExecuted(i) ==
  /\ streams[i].phase = "execute"
  /\ executed[<<i, Len(streams[i].decisions)>>] > 0
  /\ To(i, "open")
  /\ UNCHANGED <<panel, loads, deletes, seen, calls, panelOps, history>>

\* The result is shown in the card: the answer, or the failure of a request
\* that the server may not have received yet, or not at all.
ExecuteAnswered(i) ==
  /\ streams[i].phase = "execute"
  /\ To(i, "open")
  /\ UNCHANGED <<panel, loads, deletes, seen, calls, panelOps, history>>

DoneEvent(i) ==
  /\ streams[i].phase = "open"
  /\ To(i, "drained")
  /\ sessionId' = streams[i].session
  /\ UNCHANGED <<isStreaming, hasLast, body, welcome, errors, card, loads,
                 deletes, seen, calls, panelOps, history>>

EndStream(i) ==
  /\ streams' = [streams EXCEPT ![i].phase = "ended", ![i].session = None]
  /\ isStreaming' = FALSE

\* The response is at its end: after done, cut short, or no event stream at all.
StreamEnds(i) ==
  /\ streams[i].phase \in {"sent", "open", "drained"}
  /\ EndStream(i)
  /\ UNCHANGED <<sessionId, hasLast, body, welcome, errors, card, loads,
                 deletes, seen, calls, panelOps, history>>

\* Mutant of StreamThrows: the flag is reset behind the await, not in finally.
StreamThrows_KeepsFlag(i) ==
  /\ streams[i].phase \in {"sent", "open", "drained"}
  /\ To(i, "ended")
  /\ AppendError
  /\ UNCHANGED <<sessionId, isStreaming, hasLast, body, card, loads, deletes, seen,
                 calls, panelOps, history>>

\* The request or a read throws: the error is shown, finally is the same.
StreamThrows(i) ==
  /\ streams[i].phase \in {"sent", "open", "drained"}
  /\ EndStream(i)
  /\ AppendError
  /\ UNCHANGED <<sessionId, hasLast, body, card, loads, deletes, seen, calls,
                 panelOps, history>>

-----------------------------------------------------------------------------
(* The panel and its sessions                                              *)

Operation == panelOps < MaxPanelOps /\ panelOps' = panelOps + 1

\* Mutant of ClearBody: the messages of the session that is left stay.
ClearBody_KeepsMessages ==
  /\ hasLast' = FALSE
  /\ turned' = (Active # {} \/ loads # {})
  /\ forked' = FALSE
  /\ UNCHANGED <<body, errors, card>>

\* The panel is emptied: open cards and Retry buttons go with it.
ClearBody ==
  /\ body' = {}
  /\ hasLast' = FALSE
  /\ errors' = FALSE
  /\ card' = [i \in Streams |-> IF card[i] \in {"last", "earlier"} THEN "gone" ELSE card[i]]
  /\ turned' = (Active # {} \/ loads # {})
  /\ forked' = FALSE

ResetChat == ClearBody /\ sessionId' = None /\ welcome' = TRUE

newChat ==
  /\ Operation
  /\ ResetChat
  /\ UNCHANGED <<isStreaming, streams, loads, deletes, seen, calls>>

loadSessionMessages(s) ==
  /\ Operation
  /\ s \in seen
  /\ ClearBody
  /\ sessionId' = s
  /\ welcome' = FALSE
  /\ loads' = loads \cup {s}
  /\ UNCHANGED <<isStreaming, streams, deletes, seen, calls>>

\* The messages are appended to whatever the panel holds by then.
MessagesLoaded(s) ==
  /\ s \in loads
  /\ loads' = loads \ {s}
  /\ body' = body \cup {s}
  /\ hasLast' = TRUE
  /\ welcome' = FALSE
  /\ card' = [i \in Streams |-> IF card[i] = "last" THEN "earlier" ELSE card[i]]
  /\ UNCHANGED <<sessionId, isStreaming, errors, streams, deletes, seen, calls, panelOps, history>>

\* No answer, a failure, or a session with no messages left.
NothingLoaded(s) ==
  /\ s \in loads
  /\ loads' = loads \ {s}
  /\ UNCHANGED <<panel, streams, deletes, seen, calls, panelOps, history>>

deleteSession(s) ==
  /\ Operation
  /\ s \in seen \ deletes
  /\ deletes' = deletes \cup {s}
  /\ UNCHANGED <<panel, streams, loads, seen, calls, history>>

\* The deleted session is left if it is the current one by now.
SessionDeleted(s) ==
  /\ s \in deletes
  /\ deletes' = deletes \ {s}
  /\ IF sessionId = s
       THEN ResetChat
       ELSE UNCHANGED <<sessionId, hasLast, body, welcome, errors, card, history>>
  /\ UNCHANGED <<isStreaming, streams, loads, seen, calls, panelOps>>

DeleteFails(s) ==
  /\ s \in deletes
  /\ deletes' = deletes \ {s}
  /\ UNCHANGED <<panel, streams, loads, seen, calls, panelOps, history>>

-----------------------------------------------------------------------------
Init ==
  /\ sessionId = None
  /\ isStreaming = FALSE
  /\ hasLast = FALSE
  /\ body = {}
  /\ welcome = TRUE
  /\ errors = FALSE
  /\ streams = [i \in Streams |-> [phase |-> "idle", session |-> None,
                                   decisions |-> <<>>]]
  /\ card = [i \in Streams |-> "none"]
  /\ loads = {}
  /\ deletes = {}
  /\ seen = {0}
  /\ posted = {}
  /\ executed = [c \in Calls |-> 0]
  /\ panelOps = 0
  /\ turned = FALSE
  /\ forked = FALSE

Start(i) ==
  sendCurrentMessage(i) \/ QuickAction(i) \/ regenerate(i) \/ RetryError(i)

Decide(i) == ConfirmClicked(i) \/ CancelClicked(i)

\* Steps the server and the browser take without the language model: the session event
\* comes first of all, executeWriteTool catches what its request throws, and the
\* response ends after its done event.
Proceed(i) ==
  \/ SessionEvent(i)
  \/ ExecuteAnswered(i)
  \/ streams[i].phase \in {"sent", "drained"} /\ (StreamEnds(i) \/ StreamThrows(i))

\* What the model's answer brings, whenever it does.
ModelEvent(i) ==
  \/ ContentEvent(i) \/ ErrorEvent(i) \/ confirmWriteTool(i) \/ DoneEvent(i)
  \/ streams[i].phase = "open" /\ (StreamEnds(i) \/ StreamThrows(i))

Stream(i) == Start(i) \/ Proceed(i) \/ ModelEvent(i) \/ Decide(i)

PanelStep ==
  \/ newChat
  \/ \E s \in Sessions :
       \/ loadSessionMessages(s) \/ MessagesLoaded(s) \/ NothingLoaded(s)
       \/ deleteSession(s) \/ SessionDeleted(s) \/ DeleteFails(s)

Next ==
  \/ \E i \in Streams : Stream(i)
  \/ \E c \in Calls : ExecuteTool(c)
  \/ PanelStep

\* Nothing bounds the model's answer (the client of the model limits the time to its
\* headers only) or the user's decision: no fairness on either.
Fairness == \A i \in Streams : WF_vars(Proceed(i))

Spec == Init /\ [][Next]_vars /\ Fairness

-----------------------------------------------------------------------------
(* What the panel promises                                                 *)

\* A call is before the user while its stream waits at the card.
approvalOf(c) ==
  LET st == streams[c[1]]
  IN  IF c[2] <= Len(st.decisions) THEN st.decisions[c[2]]
      ELSE IF c[2] = Len(st.decisions) + 1 /\ st.phase = "confirm" THEN "proposed"
      ELSE "none"

Approval == INSTANCE WriteApproval
  WITH approval <- [c \in Calls |-> approvalOf(c)], runs <- executed

\* "Write tools need explicit user confirmation before executing": with streams
\* that overlap, cards that are removed, and answers that are lost, every write
\* the server executes was approved on a card of its own, and runs once.
WritesAreApproved == Approval!Spec

TypeOK ==
  /\ sessionId \in Sessions \cup {None}
  /\ isStreaming \in BOOLEAN /\ hasLast \in BOOLEAN
  /\ body \subseteq Sessions \cup {None}
  /\ welcome \in BOOLEAN
  /\ errors \in BOOLEAN
  /\ streams \in [Streams -> [phase : Phases, session : Sessions \cup {None},
                              decisions : Seq({"approved", "declined"})]]
  /\ \A i \in Streams : Len(streams[i].decisions) <= MaxCalls
  /\ card \in [Streams -> {"none", "last", "earlier", "gone"}]
  /\ loads \subseteq Sessions /\ deletes \subseteq Sessions /\ seen \subseteq Sessions
  /\ posted \subseteq Calls
  /\ executed \in [Calls -> Nat]
  /\ panelOps \in 0..MaxPanelOps
  /\ turned \in BOOLEAN /\ forked \in BOOLEAN

\* Unless the panel was turned over under a stream or a load, or two streams began
\* before either had a session, every saved message in it belongs to the session the
\* next message will go to: also while a Retry runs beside another stream.
ShownSessionIsCurrent == ~turned /\ ~forked => body \subseteq {sessionId, None}

\* The stop icon is shown only while some stream is being read: otherwise the panel
\* would refuse every message for good, for nothing but the end of a stream clears it.
\* (The converse fails: the end of one stream lowers the flag of a Retry beside it.)
FlagMeansStream == isStreaming => Active # {}

\* The panel keeps the stop icon for good only if the answer of the model never ends or
\* a card is never decided, which one that was removed with the panel cannot be.
StreamingFlagFalls ==
  <>[]isStreaming => \E i \in Streams : <>[](streams[i].phase \in {"open", "confirm"})

=============================================================================
