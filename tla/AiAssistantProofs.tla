-------------------------- MODULE AiAssistantProofs --------------------------
(***************************************************************************)
(* Proofs about the chat panel for any number of streams, write calls and  *)
(* panel operations: its invariants, and that it implements WriteApproval. *)
(***************************************************************************)
EXTENDS AiAssistant, SequenceTheorems, TLAPS

Decisions == Seq({"approved", "declined"})
StreamRecord == [phase : Phases, session : Sessions \cup {None}, decisions : Decisions]

PanelTyped ==
  /\ sessionId \in Sessions \cup {None}
  /\ isStreaming \in BOOLEAN /\ hasLast \in BOOLEAN
  /\ body \subseteq Sessions \cup {None}
  /\ welcome \in BOOLEAN
  /\ errors \in BOOLEAN
  /\ card \in [Streams -> {"none", "last", "earlier", "gone"}]
  /\ loads \subseteq Sessions /\ deletes \subseteq Sessions /\ seen \subseteq Sessions
  /\ panelOps \in 0..MaxPanelOps
  /\ turned \in BOOLEAN /\ forked \in BOOLEAN

\* Where a stream stands bounds its decisions; no call that is still to come has run,
\* and a write that is posted was approved and has not run.
CallsInOrder(i) ==
  LET st == streams[i]
      n == Len(st.decisions)
  IN  /\ n <= MaxCalls
      /\ st.phase = "confirm" => n < MaxCalls
      /\ \A k \in 1..MaxCalls : k > n => executed[<<i, k>>] = 0
      /\ \A k \in 1..MaxCalls : <<i, k>> \in posted =>
           k <= n /\ st.decisions[k] = "approved" /\ executed[<<i, k>>] = 0

StreamsInv ==
  /\ streams \in [Streams -> StreamRecord]
  /\ posted \subseteq Calls
  /\ executed \in [Calls -> Nat]
  /\ \A i \in Streams : CallsInOrder(i)

ApprovalInv == PanelTyped /\ StreamsInv

-----------------------------------------------------------------------------
LEMMA InitApproval == Init => ApprovalInv
<1> SUFFICES ASSUME Init PROVE ApprovalInv
  OBVIOUS
<1>1. PanelTyped
  <2>1. seen \subseteq Sessions /\ panelOps \in 0..MaxPanelOps
    BY AssistantAssumption DEF Init, Sessions
  <2>2. card \in [Streams -> {"none", "last", "earlier", "gone"}]
    BY DEF Init
  <2> QED BY <2>1, <2>2, Zenon DEF Init, PanelTyped
<1>2. <<>> \in Decisions /\ Len(<<>>) = 0
  BY DEF Decisions
<1>3. /\ streams \in [Streams -> StreamRecord]
      /\ posted \subseteq Calls /\ executed \in [Calls -> Nat]
  BY <1>2 DEF Init, StreamRecord, Phases
<1>4. ASSUME NEW i \in Streams PROVE CallsInOrder(i)
  <2>1. streams[i].decisions = <<>> /\ streams[i].phase = "idle"
    BY DEF Init
  <2>2. \A k \in 1..MaxCalls : executed[<<i, k>>] = 0 /\ <<i, k>> \notin posted
    BY DEF Init, Calls
  <2> QED BY <2>1, <2>2, <1>2, AssistantAssumption DEF CallsInOrder
<1> QED BY <1>1, <1>3, <1>4 DEF ApprovalInv, StreamsInv

\* A step that moves one stream and decides nothing.
LEMMA MoveKeepsStreams ==
  ASSUME StreamsInv, NEW i \in Streams, UNCHANGED calls,
         streams' \in [Streams -> StreamRecord],
         \A j \in Streams : j # i => streams'[j] = streams[j],
         streams'[i].decisions = streams[i].decisions,
         streams'[i].phase = "confirm" => Len(streams[i].decisions) < MaxCalls
  PROVE  StreamsInv'
BY DEF StreamsInv, CallsInOrder, calls

LEMMA StartKeepsApproval ==
  ASSUME ApprovalInv, NEW i \in Streams, Start(i)
  PROVE  ApprovalInv'
<1>1. StartStream(i)
  BY DEF Start, sendCurrentMessage, QuickAction, sendMessage, regenerate, RetryError
<1>2. StreamsInv'
  <2>1. /\ streams' = [streams EXCEPT ![i].phase = "sent", ![i].session = sessionId]
        /\ UNCHANGED calls
    BY <1>1 DEF StartStream
  <2>2. sessionId \in Sessions \cup {None} /\ "sent" \in Phases
    BY DEF ApprovalInv, PanelTyped, Phases
  <2>3. streams \in [Streams -> StreamRecord]
    BY DEF ApprovalInv, StreamsInv
  <2>4. /\ streams' \in [Streams -> StreamRecord]
        /\ \A j \in Streams : j # i => streams'[j] = streams[j]
        /\ streams'[i].decisions = streams[i].decisions
        /\ streams'[i].phase = "sent"
    BY <2>1, <2>2, <2>3 DEF StreamRecord
  <2> QED BY <2>1, <2>4, MoveKeepsStreams DEF ApprovalInv
<1>3. PanelTyped'
  BY <1>1 DEF ApprovalInv, PanelTyped, Start, StartStream, sendCurrentMessage, QuickAction,
              sendMessage, AppendUserMessage, regenerate, RetryError
<1> QED BY <1>2, <1>3 DEF ApprovalInv

\* The events and answers that only move the stream they belong to.
LEMMA EventKeepsApproval ==
  ASSUME ApprovalInv, NEW i \in Streams,
         \/ SessionEvent(i) \/ ContentEvent(i) \/ ErrorEvent(i) \/ confirmWriteTool(i)
         \/ ExecuteAnswered(i) \/ DoneEvent(i) \/ StreamEnds(i) \/ StreamThrows(i)
  PROVE  ApprovalInv'
<1> USE DEF To, EndStream, AppendError, panel
<1> streams \in [Streams -> StreamRecord]
  BY DEF ApprovalInv, StreamsInv
<1> i \in Sessions
  BY AssistantAssumption DEF Streams, Sessions
<1>1. /\ streams' \in [Streams -> StreamRecord]
      /\ \A j \in Streams : j # i => streams'[j] = streams[j]
      /\ streams'[i].decisions = streams[i].decisions
  <2>1. CASE SessionEvent(i)
    <3> DEFINE s == IF streams[i].session = None THEN i ELSE streams[i].session
    <3>1. s \in Sessions \cup {None} /\ "open" \in Phases
      BY DEF StreamRecord, Phases
    <3>2. streams' = [streams EXCEPT ![i].phase = "open", ![i].session = s]
      BY <2>1 DEF SessionEvent
    <3> HIDE DEF s
    <3> QED BY <3>1, <3>2 DEF StreamRecord
  <2>2. CASE ContentEvent(i) \/ ErrorEvent(i)
    BY <2>2 DEF ContentEvent, ErrorEvent
  <2>6. CASE confirmWriteTool(i)
    BY <2>6 DEF confirmWriteTool, StreamRecord, Phases
  <2>3. CASE ExecuteAnswered(i) \/ DoneEvent(i)
    BY <2>3 DEF ExecuteAnswered, DoneEvent, StreamRecord, Phases
  <2>4. CASE StreamEnds(i) \/ StreamThrows(i)
    BY <2>4 DEF StreamEnds, StreamThrows, StreamRecord, Phases
  <2> QED BY <2>1, <2>2, <2>3, <2>4, <2>6
<1>2. /\ UNCHANGED calls
      /\ streams'[i].phase = "confirm" => Len(streams[i].decisions) < MaxCalls
  <2>1. CASE SessionEvent(i)
    <3>1. UNCHANGED calls /\ streams'[i].phase = "open"
      BY <2>1 DEF SessionEvent
    <3> QED BY <3>1
  <2>6. CASE ContentEvent(i) \/ ErrorEvent(i)
    <3>1. UNCHANGED <<calls, streams>> /\ streams[i].phase = "open"
      BY <2>6 DEF ContentEvent, ErrorEvent
    <3> QED BY <3>1
  <2>5. CASE confirmWriteTool(i)
    <3>1. /\ Len(streams[i].decisions) < MaxCalls /\ UNCHANGED calls
          /\ streams' = [streams EXCEPT ![i].phase = "confirm"]
      BY <2>5 DEF confirmWriteTool
    <3>2. streams'[i].phase = "confirm"
      BY <3>1 DEF StreamRecord
    <3> QED BY <3>1, <3>2
  <2>3. CASE ExecuteAnswered(i) \/ DoneEvent(i)
    BY <2>3 DEF ExecuteAnswered, DoneEvent, StreamRecord
  <2>4. CASE StreamEnds(i) \/ StreamThrows(i)
    BY <2>4 DEF StreamEnds, StreamThrows, StreamRecord
  <2> QED BY <2>1, <2>3, <2>4, <2>5, <2>6
<1>3. PanelTyped'
  <2> USE DEF ApprovalInv, PanelTyped, history
  <2>1. CASE SessionEvent(i) \/ ContentEvent(i)
    <3>1. streams[i].session \in Sessions \cup {None}
      BY DEF StreamRecord
    <3> QED BY <2>1, <3>1 DEF SessionEvent, ContentEvent
  <2>2. CASE ErrorEvent(i) \/ confirmWriteTool(i)
    BY <2>2 DEF ErrorEvent, confirmWriteTool
  <2>3. CASE ExecuteAnswered(i) \/ DoneEvent(i)
    BY <2>3 DEF ExecuteAnswered, DoneEvent, StreamRecord
  <2>4. CASE StreamEnds(i) \/ StreamThrows(i)
    BY <2>4 DEF StreamEnds, StreamThrows
  <2> QED BY <2>1, <2>2, <2>3, <2>4
<1> QED BY <1>1, <1>2, <1>3, MoveKeepsStreams DEF ApprovalInv

LEMMA DecisionKeepsApproval ==
  ASSUME ApprovalInv, NEW i \in Streams,
         NEW d \in {"approved", "declined"}, NEW p \in {"open", "execute"},
         Decision(i, d, p),
         \/ UNCHANGED posted
         \/ d = "approved" /\ posted' = posted \cup {<<i, Len(streams[i].decisions) + 1>>}
  PROVE  ApprovalInv'
<1> DEFINE old == streams[i].decisions
           new == Append(old, d)
<1>1. /\ streams \in [Streams -> StreamRecord] /\ executed \in [Calls -> Nat]
      /\ posted \subseteq Calls
      /\ \A j \in Streams : CallsInOrder(j)
  BY DEF ApprovalInv, StreamsInv
<1>2. old \in Decisions /\ Len(old) \in Nat /\ Len(old) < MaxCalls
  <2>1. old \in Decisions
    BY <1>1 DEF StreamRecord
  <2>2. Len(old) \in Nat
    BY <2>1 DEF Decisions
  <2>3. streams[i].phase = "confirm"
    BY DEF Decision
  <2>4. Len(old) < MaxCalls
    BY <1>1, <2>3 DEF CallsInOrder
  <2> QED BY <2>1, <2>2, <2>4
<1>3. /\ new \in Decisions /\ Len(new) = Len(old) + 1 /\ new[Len(old) + 1] = d
      /\ \A k \in 1..Len(old) : new[k] = old[k]
  BY <1>2 DEF Decisions
<1>4. /\ streams' = [streams EXCEPT ![i].phase = p, ![i].decisions = new]
      /\ executed' = executed
  BY DEF Decision
<1>8. PICK n \in 1..MaxCalls : n = Len(old) + 1
  BY <1>2, AssistantAssumption
<1>9. /\ posted' \subseteq Calls
      /\ \A e \in posted' : e \in posted \/ (e = <<i, n>> /\ d = "approved")
      /\ \A e \in posted : e \in posted'
  <2>1. <<i, n>> \in Calls
    BY DEF Calls
  <2> QED BY <2>1, <1>1, <1>8
<1> HIDE DEF old, new
<1>5. /\ streams' \in [Streams -> StreamRecord]
      /\ \A j \in Streams : j # i => streams'[j] = streams[j]
      /\ streams'[i].decisions = new /\ streams'[i].phase = p
  BY <1>1, <1>3, <1>4 DEF StreamRecord, Phases
<1>6. ASSUME NEW j \in Streams PROVE CallsInOrder(j)'
  <2>0. CallsInOrder(j) /\ CallsInOrder(i)
    BY <1>1
  <2>1. CASE j # i
    <3>1. \A k \in 1..MaxCalls : <<j, k>> \in posted' => <<j, k>> \in posted
      BY <2>1, <1>9
    <3> QED BY <2>0, <2>1, <3>1, <1>4, <1>5 DEF CallsInOrder
  <2>2. CASE j = i
    <3>1. /\ \A k \in 1..MaxCalls : k > Len(old) => executed[<<i, k>>] = 0
          /\ \A k \in 1..MaxCalls : <<i, k>> \in posted =>
               k <= Len(old) /\ old[k] = "approved" /\ executed[<<i, k>>] = 0
      BY <2>0 DEF CallsInOrder, old
    <3>2. /\ Len(new) <= MaxCalls
          /\ \A k \in 1..MaxCalls : k > Len(new) => executed[<<i, k>>] = 0
      BY <1>2, <1>3, <3>1, AssistantAssumption
    <3>3. ASSUME NEW k \in 1..MaxCalls, <<i, k>> \in posted'
          PROVE  k <= Len(new) /\ new[k] = "approved" /\ executed[<<i, k>>] = 0
      <4>1. CASE <<i, k>> \in posted
        <5>1. k <= Len(old) /\ old[k] = "approved" /\ executed[<<i, k>>] = 0
          BY <3>1, <4>1
        <5>2. k \in 1..Len(old)
          BY <5>1, <1>2, AssistantAssumption
        <5> QED BY <5>1, <5>2, <1>2, <1>3
      <4>2. CASE <<i, k>> \notin posted
        <5>1. k = n /\ d = "approved"
          BY <3>3, <4>2, <1>9
        <5> QED BY <5>1, <3>1, <1>2, <1>3, <1>8
      <4> QED BY <4>1, <4>2
    <3> QED BY <2>2, <3>2, <3>3, <1>4, <1>5 DEF CallsInOrder
  <2> QED BY <2>1, <2>2
<1>7. PanelTyped'
  BY DEF ApprovalInv, PanelTyped, Decision, history
<1> QED BY <1>1, <1>4, <1>5, <1>6, <1>7, <1>9 DEF ApprovalInv, StreamsInv

LEMMA ExecuteKeepsApproval ==
  ASSUME ApprovalInv, NEW c \in Calls, ExecuteTool(c)
  PROVE  ApprovalInv'
<1>1. /\ streams \in [Streams -> StreamRecord] /\ executed \in [Calls -> Nat]
      /\ posted \subseteq Calls
      /\ \A j \in Streams : CallsInOrder(j)
  BY DEF ApprovalInv, StreamsInv
<1>2. /\ streams' = streams /\ posted' = posted \ {c} /\ c \in posted
      /\ executed' \in [Calls -> Nat]
      /\ \A e \in Calls : e # c => executed'[e] = executed[e]
  BY <1>1 DEF ExecuteTool
<1>3. ASSUME NEW j \in Streams PROVE CallsInOrder(j)'
  <2>1. CallsInOrder(j)
    BY <1>1
  <2>2. ASSUME NEW k \in 1..MaxCalls, k > Len(streams[j].decisions)
        PROVE  executed'[<<j, k>>] = 0
    <3>1. <<j, k>> \in Calls
      BY DEF Calls
    <3>2. Len(streams[j].decisions) \in Nat
      BY <1>1 DEF StreamRecord, Decisions
    <3>3. <<j, k>> \notin posted
      BY <2>1, <2>2, <3>2, AssistantAssumption DEF CallsInOrder
    <3> QED BY <2>1, <2>2, <3>1, <3>3, <1>2 DEF CallsInOrder
  <2>3. ASSUME NEW k \in 1..MaxCalls, <<j, k>> \in posted'
        PROVE  <<j, k>> \in posted /\ executed'[<<j, k>>] = executed[<<j, k>>]
    BY <2>3, <1>1, <1>2
  <2> QED BY <2>1, <2>2, <2>3, <1>2 DEF CallsInOrder
<1>4. PanelTyped'
  BY DEF ApprovalInv, PanelTyped, ExecuteTool, panel, history
<1> QED BY <1>1, <1>2, <1>3, <1>4 DEF ApprovalInv, StreamsInv

LEMMA PanelKeepsApproval == ApprovalInv /\ PanelStep => ApprovalInv'
<1> SUFFICES ASSUME ApprovalInv, PanelStep PROVE ApprovalInv'
  OBVIOUS
<1>1. UNCHANGED <<streams, calls>>
  BY DEF PanelStep, newChat, loadSessionMessages, MessagesLoaded, NothingLoaded,
         deleteSession, SessionDeleted, DeleteFails
<1>2. StreamsInv'
  BY <1>1 DEF ApprovalInv, StreamsInv, CallsInOrder, calls
<1>3. PanelTyped'
  <2> USE AssistantAssumption DEF ApprovalInv, PanelTyped, panel, history
  <2>5. Operation => panelOps' \in 0..MaxPanelOps
    BY DEF Operation
  <2>6. ClearBody => /\ body' = {} /\ hasLast' \in BOOLEAN /\ errors' \in BOOLEAN
                     /\ turned' \in BOOLEAN /\ forked' \in BOOLEAN
                     /\ card' \in [Streams -> {"none", "last", "earlier", "gone"}]
    BY DEF ClearBody
  <2>1. CASE newChat
    BY <2>1, <2>5, <2>6 DEF newChat, ResetChat
  <2>2. ASSUME NEW s \in Sessions, loadSessionMessages(s) \/ deleteSession(s)
        PROVE  PanelTyped'
    BY <2>2, <2>5, <2>6 DEF loadSessionMessages, deleteSession
  <2>3. ASSUME NEW s \in Sessions, MessagesLoaded(s) \/ NothingLoaded(s) \/ DeleteFails(s)
        PROVE  PanelTyped'
    BY <2>3 DEF MessagesLoaded, NothingLoaded, DeleteFails
  <2>4. ASSUME NEW s \in Sessions, SessionDeleted(s)
        PROVE  PanelTyped'
    BY <2>4, <2>6 DEF SessionDeleted, ResetChat
  <2> QED BY <2>1, <2>2, <2>3, <2>4 DEF PanelStep
<1> QED BY <1>2, <1>3 DEF ApprovalInv

LEMMA StepApproval == ApprovalInv /\ [Next]_vars => ApprovalInv'
<1> SUFFICES ASSUME ApprovalInv, [Next]_vars PROVE ApprovalInv'
  OBVIOUS
<1>1. CASE Next
  <2>1. ASSUME NEW i \in Streams, Stream(i) PROVE ApprovalInv'
    <3>1. CASE Decide(i)
      BY <3>1, DecisionKeepsApproval DEF Decide, ConfirmClicked, CancelClicked
    <3> QED BY <2>1, <3>1, StartKeepsApproval, EventKeepsApproval
            DEF Stream, Proceed, ModelEvent
  <2> QED BY <1>1, <2>1, ExecuteKeepsApproval, PanelKeepsApproval DEF Next
<1>2. CASE UNCHANGED vars
  BY <1>2 DEF vars, panel, calls, history, ApprovalInv, PanelTyped, StreamsInv, CallsInOrder
<1> QED BY <1>1, <1>2

LEMMA ApprovalHolds == Spec => []ApprovalInv
BY InitApproval, StepApproval, PTL DEF Spec

\* The panel's state is well typed, and no stream collects more than MaxCalls
\* decisions.
THEOREM TypeCorrect == Spec => []TypeOK
<1>1. ApprovalInv => TypeOK
  BY DEF ApprovalInv, PanelTyped, StreamsInv, CallsInOrder, StreamRecord, Decisions, TypeOK
<1> QED BY <1>1, ApprovalHolds, PTL

-----------------------------------------------------------------------------
(* Refinement of WriteApproval                                             *)

LEMMA InitImplements == ASSUME Init PROVE Approval!Init
<1>1. \A c \in Calls : c[1] \in Streams /\ c[2] \in 1..MaxCalls
  BY DEF Calls
<1>2. \A i \in Streams : streams[i].decisions = <<>> /\ streams[i].phase = "idle"
  BY DEF Init
<1>3. \A c \in Calls : approvalOf(c) = "none"
  BY <1>1, <1>2, AssistantAssumption DEF approvalOf
<1>4. executed = [c \in Calls |-> 0]
  BY DEF Init
<1> QED BY <1>3, <1>4 DEF Approval!Init

\* A step that neither decides nor opens or leaves a card is a stutter.
LEMMA QuietSteps ==
  ASSUME UNCHANGED executed,
         \A j \in Streams :
           /\ streams'[j].decisions = streams[j].decisions
           /\ streams'[j].phase = "confirm" <=> streams[j].phase = "confirm"
  PROVE  UNCHANGED Approval!vars
<1>1. \A c \in Calls : c[1] \in Streams
  BY DEF Calls
<1>2. ASSUME NEW c \in Calls PROVE approvalOf(c)' = approvalOf(c)
  BY <1>1 DEF approvalOf
<1> QED BY <1>2 DEF Approval!vars

LEMMA ProposalImplements ==
  ASSUME ApprovalInv, NEW i \in Streams, confirmWriteTool(i)
  PROVE  Approval!Next
<1>1. streams \in [Streams -> StreamRecord]
  BY DEF ApprovalInv, StreamsInv
<1>2. PICK n \in Nat : n = Len(streams[i].decisions) /\ n < MaxCalls
  BY <1>1 DEF StreamRecord, Decisions, confirmWriteTool
<1>3. PICK c \in Calls : c = <<i, n + 1>>
  <2>1. n + 1 \in 1..MaxCalls
    BY <1>2, AssistantAssumption
  <2> QED BY <2>1 DEF Calls
<1>4. /\ \A j \in Streams : j # i => streams'[j] = streams[j]
      /\ streams'[i].decisions = streams[i].decisions
      /\ streams[i].phase = "open" /\ streams'[i].phase = "confirm"
      /\ UNCHANGED executed
  BY <1>1 DEF confirmWriteTool, To, StreamRecord, calls
<1>5. approvalOf(c) = "none" /\ approvalOf(c)' = "proposed"
  <2>1. /\ c[1] = i /\ c[2] = n + 1 /\ ~(c[2] <= n)
        /\ Len(streams[i].decisions) = n /\ Len(streams'[i].decisions) = n
    BY <1>2, <1>3, <1>4
  <2>2. approvalOf(c) = "none"
    BY <2>1, <1>4 DEF approvalOf
  <2>3. approvalOf(c)' = "proposed"
    BY <2>1, <1>4 DEF approvalOf
  <2> QED BY <2>2, <2>3
<1>6. ASSUME NEW d \in Calls, d # c PROVE approvalOf(d)' = approvalOf(d)
  <2>1. d = <<d[1], d[2]>> /\ d[1] \in Streams
    BY DEF Calls
  <2>2. CASE d[1] # i
    BY <2>1, <2>2, <1>4 DEF approvalOf
  <2>3. CASE d[1] = i
    <3>1. d[2] # n + 1
      BY <2>1, <2>3, <1>3, <1>6
    <3> QED BY <2>3, <3>1, <1>2, <1>4 DEF approvalOf
  <2> QED BY <2>2, <2>3
<1>7. [d \in Calls |-> approvalOf(d)]' = [[d \in Calls |-> approvalOf(d)] EXCEPT ![c] = "proposed"]
  BY <1>5, <1>6
<1> QED BY <1>4, <1>5, <1>7 DEF Approval!Next, Approval!Propose, Approval!Decide

LEMMA DecisionImplements ==
  ASSUME ApprovalInv, NEW i \in Streams,
         NEW d \in {"approved", "declined"}, NEW p \in {"open", "execute"},
         Decision(i, d, p)
  PROVE  Approval!Next
<1>1. streams \in [Streams -> StreamRecord]
  BY DEF ApprovalInv, StreamsInv
<1>2. PICK old \in Decisions : old = streams[i].decisions
  BY <1>1 DEF StreamRecord
<1>3. PICK n \in Nat : n = Len(old) /\ n < MaxCalls
  <2>1. Len(old) \in Nat
    BY <1>2 DEF Decisions
  <2>2. Len(old) < MaxCalls
    BY <1>2 DEF ApprovalInv, StreamsInv, CallsInOrder, Decision
  <2> QED BY <2>1, <2>2
<1>4. PICK new \in Decisions :
        /\ new = Append(old, d)
        /\ Len(new) = n + 1 /\ new[n + 1] = d
        /\ \A k \in 1..n : new[k] = old[k]
  <2>1. Append(old, d) \in Decisions
    BY DEF Decisions
  <2>2. /\ Len(Append(old, d)) = n + 1 /\ Append(old, d)[n + 1] = d
        /\ \A k \in 1..n : Append(old, d)[k] = old[k]
    BY <1>3 DEF Decisions
  <2> QED BY <2>1, <2>2
<1>5. PICK c \in Calls : c = <<i, n + 1>>
  <2>1. n + 1 \in 1..MaxCalls
    BY <1>3, AssistantAssumption
  <2> QED BY <2>1 DEF Calls
<1>6. /\ \A j \in Streams : j # i => streams'[j] = streams[j]
      /\ streams'[i].decisions = new
      /\ streams[i].phase = "confirm" /\ streams'[i].phase = p
      /\ UNCHANGED executed
  BY <1>1, <1>2, <1>4 DEF Decision, StreamRecord
<1>7. approvalOf(c) = "proposed" /\ approvalOf(c)' = d
  <2>1. /\ c[1] = i /\ c[2] = n + 1 /\ ~(c[2] <= n) /\ c[2] <= n + 1
        /\ Len(streams[i].decisions) = n
    BY <1>2, <1>3, <1>5
  <2>2. approvalOf(c) = "proposed"
    BY <2>1, <1>6 DEF approvalOf
  <2>3. Len(streams'[i].decisions) = n + 1 /\ streams'[i].decisions[n + 1] = d
    BY <1>4, <1>6
  <2>4. approvalOf(c)' = d
    BY <2>1, <2>3 DEF approvalOf
  <2> QED BY <2>2, <2>4
<1>8. ASSUME NEW e \in Calls, e # c PROVE approvalOf(e)' = approvalOf(e)
  <2>1. e = <<e[1], e[2]>> /\ e[1] \in Streams /\ e[2] \in Nat /\ e[2] > 0
    BY AssistantAssumption DEF Calls
  <2>2. CASE e[1] # i
    BY <2>1, <2>2, <1>6 DEF approvalOf
  <2>3. CASE e[1] = i
    <3>1. e[2] # n + 1
      BY <2>1, <2>3, <1>5, <1>8
    <3>2. CASE e[2] <= n
      <4>1. approvalOf(e) = old[e[2]]
        BY <2>3, <3>2, <1>2, <1>3 DEF approvalOf
      <4>2. approvalOf(e)' = new[e[2]]
        BY <2>1, <2>3, <3>2, <1>4, <1>6 DEF approvalOf
      <4> QED BY <4>1, <4>2, <2>1, <3>2, <1>4
    <3>3. CASE e[2] > n + 1
      <4>1. approvalOf(e) = "none"
        BY <2>1, <2>3, <3>3, <1>2, <1>3 DEF approvalOf
      <4>2. approvalOf(e)' = "none"
        BY <2>1, <2>3, <3>3, <1>4, <1>6 DEF approvalOf
      <4> QED BY <4>1, <4>2
    <3> QED BY <3>1, <3>2, <3>3, <2>1
  <2> QED BY <2>2, <2>3
<1>9. [e \in Calls |-> approvalOf(e)]' = [[e \in Calls |-> approvalOf(e)] EXCEPT ![c] = d]
  BY <1>7, <1>8
<1> QED BY <1>6, <1>7, <1>9
        DEF Approval!Next, Approval!Approve, Approval!Decline, Approval!Decide

LEMMA RunImplements ==
  ASSUME ApprovalInv, NEW c \in Calls, ExecuteTool(c)
  PROVE  Approval!Next
<1>1. /\ streams \in [Streams -> StreamRecord] /\ executed \in [Calls -> Nat]
      /\ c \in posted /\ UNCHANGED streams
  BY DEF ApprovalInv, StreamsInv, ExecuteTool
<1>2. c = <<c[1], c[2]>> /\ c[1] \in Streams /\ c[2] \in 1..MaxCalls
  BY DEF Calls
<1>3. /\ c[2] <= Len(streams[c[1]].decisions)
      /\ streams[c[1]].decisions[c[2]] = "approved" /\ executed[c] = 0
  <2>1. CallsInOrder(c[1]) /\ <<c[1], c[2]>> \in posted
    BY <1>1, <1>2 DEF ApprovalInv, StreamsInv
  <2> QED BY <2>1, <1>2 DEF CallsInOrder
<1>5. approvalOf(c) = "approved"
  BY <1>3 DEF approvalOf
<1>6. executed' = [executed EXCEPT ![c] = 1]
  BY <1>1, <1>3 DEF ExecuteTool
<1>9. ASSUME NEW d \in Calls PROVE approvalOf(d)' = approvalOf(d)
  BY <1>1 DEF approvalOf
<1> QED BY <1>3, <1>5, <1>6, <1>9 DEF Approval!Next, Approval!Run

LEMMA StepImplements ==
  ASSUME ApprovalInv, [Next]_vars
  PROVE  Approval!Next \/ UNCHANGED Approval!vars
<1> streams \in [Streams -> StreamRecord]
  BY DEF ApprovalInv, StreamsInv
<1>1. ASSUME NEW i \in Streams, Start(i) PROVE UNCHANGED Approval!vars
  <2>1. StartStream(i)
    BY <1>1 DEF Start, sendCurrentMessage, QuickAction, sendMessage, regenerate, RetryError
  <2> QED BY <2>1, QuietSteps DEF StartStream, StreamRecord, calls
<1>2. ASSUME NEW i \in Streams,
             \/ SessionEvent(i) \/ ContentEvent(i) \/ ErrorEvent(i)
             \/ ExecuteAnswered(i) \/ DoneEvent(i) \/ StreamEnds(i) \/ StreamThrows(i)
      PROVE  UNCHANGED Approval!vars
  <2> USE DEF To, EndStream, StreamRecord, calls
  <2>1. CASE SessionEvent(i)
    <3> DEFINE s == IF streams[i].session = None THEN i ELSE streams[i].session
    <3>1. /\ streams' = [streams EXCEPT ![i].phase = "open", ![i].session = s]
          /\ streams[i].phase = "sent" /\ UNCHANGED executed
      BY <2>1 DEF SessionEvent
    <3> HIDE DEF s
    <3> QED BY <3>1, QuietSteps
  <2>4. CASE ContentEvent(i)
    BY <2>4, QuietSteps DEF ContentEvent
  <2>5. CASE ErrorEvent(i)
    BY <2>5, QuietSteps DEF ErrorEvent
  <2>2. CASE ExecuteAnswered(i) \/ DoneEvent(i)
    BY <2>2, QuietSteps DEF ExecuteAnswered, DoneEvent
  <2>3. CASE StreamEnds(i) \/ StreamThrows(i)
    BY <2>3, QuietSteps DEF StreamEnds, StreamThrows
  <2> QED BY <1>2, <2>1, <2>2, <2>3, <2>4, <2>5
<1>3. ASSUME NEW i \in Streams, Decide(i) PROVE Approval!Next
  BY <1>3, DecisionImplements DEF Decide, ConfirmClicked, CancelClicked
<1>4. CASE PanelStep \/ UNCHANGED vars
  <2>1. UNCHANGED <<streams, executed>>
    BY <1>4 DEF PanelStep, newChat, loadSessionMessages, MessagesLoaded, NothingLoaded,
                deleteSession, SessionDeleted, DeleteFails, vars, calls
  <2> QED BY <2>1, QuietSteps
<1>5. ASSUME NEW i \in Streams, Stream(i) PROVE Approval!Next \/ UNCHANGED Approval!vars
  BY <1>1, <1>2, <1>3, <1>5, ProposalImplements DEF Stream, Proceed, ModelEvent
<1> QED BY <1>4, <1>5, RunImplements DEF Next

\* The panel implements WriteApproval: whatever streams run next to each other and
\* wherever they fail, a tool that writes runs at most once, and only after the
\* user confirmed its card (dashboard-ai.js, confirmWriteTool and executeWriteTool).
THEOREM WritesApproved == Spec => WritesAreApproved
<1>1. Init => Approval!Init
  BY InitImplements
<1>2. ApprovalInv /\ [Next]_vars => [Approval!Next]_(Approval!vars)
  BY StepImplements
<1> QED BY <1>1, <1>2, ApprovalHolds, PTL DEF Spec, WritesAreApproved, Approval!Spec

-----------------------------------------------------------------------------
(* The session that is shown, and the stop icon                            *)

\* Until the panel is turned over or two sessions are begun at once, every stream that
\* is read, and every load, is for the session that is shown; before there is a session
\* at most one stream is read.
CurrentInv ==
  ~turned /\ ~forked =>
    /\ \A i \in Active : streams[i].session = sessionId
    /\ sessionId = None => \A i, j \in Active : i = j
    /\ loads \subseteq {sessionId}
    /\ body \subseteq {sessionId, None}

PanelInv == ApprovalInv /\ FlagMeansStream /\ CurrentInv

LEMMA InitPanel == Init => PanelInv
BY InitApproval DEF Init, PanelInv, FlagMeansStream, CurrentInv, Active

\* What a step of a stream leaves of the others.
LEMMA StreamMoves ==
  ASSUME ApprovalInv, NEW i \in Streams, Stream(i)
  PROVE  \A j \in Streams : j # i => streams'[j] = streams[j]
<1> streams \in [Streams -> StreamRecord]
  BY DEF ApprovalInv, StreamsInv
<1> USE DEF To, EndStream
<1>1. CASE Start(i)
  BY <1>1 DEF Start, sendCurrentMessage, QuickAction, sendMessage, regenerate, RetryError,
              StartStream
<1>2. CASE SessionEvent(i) \/ ContentEvent(i) \/ ErrorEvent(i)
  BY <1>2 DEF SessionEvent, ContentEvent, ErrorEvent
<1>3. CASE confirmWriteTool(i) \/ Decide(i)
  BY <1>3 DEF confirmWriteTool, Decide, ConfirmClicked, CancelClicked, Decision
<1>4. CASE ExecuteAnswered(i) \/ DoneEvent(i)
  BY <1>4 DEF ExecuteAnswered, DoneEvent
<1>5. CASE StreamEnds(i) \/ StreamThrows(i)
  BY <1>5 DEF StreamEnds, StreamThrows
<1> QED BY <1>1, <1>2, <1>3, <1>4, <1>5 DEF Stream, Proceed, ModelEvent

\* A stream raises the flag when it begins and lowers it when it ends; in between it is
\* active.
LEMMA StreamKeepsFlag ==
  ASSUME ApprovalInv, FlagMeansStream, NEW i \in Streams, Stream(i)
  PROVE  FlagMeansStream'
<1> streams \in [Streams -> StreamRecord]
  BY DEF ApprovalInv, StreamsInv
<1> USE StreamMoves DEF To, Active, StreamRecord
<1>1. CASE Start(i)
  <2>1. StartStream(i)
    BY <1>1 DEF Start, sendCurrentMessage, QuickAction, sendMessage, regenerate, RetryError
  <2>2. streams'[i].phase = "sent"
    BY <2>1 DEF StartStream
  <2> QED BY <2>2 DEF FlagMeansStream
<1>2. CASE SessionEvent(i)
  <2>1. streams'[i].phase = "open"
    BY <1>2 DEF SessionEvent
  <2> QED BY <2>1 DEF FlagMeansStream
<1>3. CASE ContentEvent(i) \/ ErrorEvent(i)
  BY <1>3 DEF ContentEvent, ErrorEvent, FlagMeansStream
<1>4. CASE confirmWriteTool(i) \/ ExecuteAnswered(i) \/ DoneEvent(i)
  <2>1. streams'[i].phase \in {"confirm", "open", "drained"}
    BY <1>4 DEF confirmWriteTool, ExecuteAnswered, DoneEvent
  <2> QED BY <2>1 DEF FlagMeansStream
<1>5. CASE Decide(i)
  <2>1. streams'[i].phase \in {"open", "execute"}
    BY <1>5 DEF Decide, ConfirmClicked, CancelClicked, Decision
  <2> QED BY <2>1 DEF FlagMeansStream
<1>6. CASE StreamEnds(i) \/ StreamThrows(i)
  BY <1>6 DEF StreamEnds, StreamThrows, EndStream, FlagMeansStream
<1> QED BY <1>1, <1>2, <1>3, <1>4, <1>5, <1>6 DEF Stream, Proceed, ModelEvent

LEMMA StreamKeepsCurrent ==
  ASSUME ApprovalInv, CurrentInv, NEW i \in Streams, Stream(i)
  PROVE  CurrentInv'
<1> SUFFICES ASSUME ~turned', ~forked' PROVE CurrentInv'
  BY DEF CurrentInv
<1> streams \in [Streams -> StreamRecord] /\ loads \subseteq Sessions
  BY DEF ApprovalInv, StreamsInv, PanelTyped
<1> USE StreamMoves DEF To, EndStream, CurrentInv, Active, StreamRecord, history
<1>1. CASE Start(i)
  <2>1. StartStream(i) /\ body' \subseteq body \cup {sessionId}
    BY <1>1 DEF Start, sendCurrentMessage, QuickAction, sendMessage, AppendUserMessage,
                regenerate, RetryError
  <2>2. ~turned /\ ~forked /\ (sessionId = None => Active = {})
    BY <2>1 DEF StartStream
  <2>3. /\ streams' = [streams EXCEPT ![i].phase = "sent", ![i].session = sessionId]
        /\ UNCHANGED <<sessionId, loads>>
    BY <2>1 DEF StartStream
  <2>4. streams'[i].session = sessionId
    BY <2>3
  <2>5. body' \subseteq {sessionId, None}
    BY <2>1, <2>2
  <2> QED BY <2>2, <2>3, <2>4, <2>5
<1>2. CASE SessionEvent(i)
  <2> DEFINE s == IF streams[i].session = None THEN i ELSE streams[i].session
  <2>1. /\ streams' = [streams EXCEPT ![i].phase = "open", ![i].session = s]
        /\ sessionId' = s /\ streams[i].phase = "sent"
        /\ UNCHANGED <<body, loads, turned, forked>>
    BY <1>2 DEF SessionEvent
  <2>2. i \in Active /\ streams[i].session = sessionId
    BY <2>1
  <2>3. CASE sessionId # None
    <3>1. s = sessionId
      BY <2>2, <2>3
    <3> HIDE DEF s
    <3> QED BY <2>1, <2>3, <3>1
  <2>4. CASE sessionId = None
    <3>1. loads = {} /\ \A j \in Active : j = i
      BY <2>1, <2>2, <2>4, AssistantAssumption DEF Sessions
    <3>2. s \in Nat
      BY <2>2, <2>4 DEF Streams
    <3> HIDE DEF s
    <3>3. streams'[i].session = s /\ s # None
      BY <2>1, <3>2, AssistantAssumption
    <3> QED BY <2>1, <2>4, <3>1, <3>3
  <2> QED BY <2>3, <2>4
<1>3. CASE ContentEvent(i)
  BY <1>3 DEF ContentEvent
<1>4. CASE ErrorEvent(i) \/ confirmWriteTool(i)
  BY <1>4 DEF ErrorEvent, confirmWriteTool
<1>5. CASE Decide(i)
  <2>1. /\ streams[i].phase = "confirm" /\ streams'[i].session = streams[i].session
        /\ UNCHANGED <<sessionId, body, loads, turned, forked>>
    BY <1>5 DEF Decide, ConfirmClicked, CancelClicked, Decision
  <2> QED BY <2>1
<1>6. CASE ExecuteAnswered(i)
  BY <1>6 DEF ExecuteAnswered, panel
<1>7. CASE DoneEvent(i)
  BY <1>7 DEF DoneEvent
<1>8. CASE StreamEnds(i) \/ StreamThrows(i)
  BY <1>8 DEF StreamEnds, StreamThrows
<1> QED BY <1>1, <1>2, <1>3, <1>4, <1>5, <1>6, <1>7, <1>8 DEF Stream, Proceed, ModelEvent

LEMMA PanelStepKeepsPanel ==
  ASSUME PanelInv, PanelStep
  PROVE  FlagMeansStream' /\ CurrentInv'
<1>1. UNCHANGED streams /\ UNCHANGED isStreaming
  BY DEF PanelStep, newChat, loadSessionMessages, MessagesLoaded, NothingLoaded,
         deleteSession, SessionDeleted, DeleteFails, panel, ResetChat
<1>2. FlagMeansStream'
  BY <1>1 DEF PanelInv, FlagMeansStream, Active
<1>3. CurrentInv'
  <2> SUFFICES ASSUME ~turned', ~forked' PROVE CurrentInv'
    BY DEF CurrentInv
  <2> USE <1>1 DEF PanelInv, CurrentInv, Active, history
  <2>1. CASE newChat
    BY <2>1 DEF newChat, ResetChat, ClearBody
  <2>2. ASSUME NEW s \in Sessions, loadSessionMessages(s) PROVE CurrentInv'
    BY <2>2 DEF loadSessionMessages, ClearBody
  <2>3. ASSUME NEW s \in Sessions, MessagesLoaded(s) PROVE CurrentInv'
    BY <2>3 DEF MessagesLoaded
  <2>4. ASSUME NEW s \in Sessions, NothingLoaded(s) \/ deleteSession(s) \/ DeleteFails(s)
        PROVE  CurrentInv'
    BY <2>4 DEF NothingLoaded, deleteSession, DeleteFails, panel
  <2>5. ASSUME NEW s \in Sessions, SessionDeleted(s) PROVE CurrentInv'
    <3>1. CASE sessionId = s
      BY <2>5, <3>1 DEF SessionDeleted, ResetChat, ClearBody
    <3>2. CASE sessionId # s
      <4>1. UNCHANGED <<sessionId, body, turned, forked, loads>>
        BY <2>5, <3>2 DEF SessionDeleted
      <4> QED BY <4>1
    <3> QED BY <3>1, <3>2
  <2> QED BY <2>1, <2>2, <2>3, <2>4, <2>5 DEF PanelStep
<1> QED BY <1>2, <1>3

LEMMA PanelHolds == Spec => []PanelInv
<1>1. ASSUME PanelInv, Next PROVE PanelInv'
  <2>1. ApprovalInv'
    BY <1>1, StepApproval DEF PanelInv
  <2>2. ASSUME NEW c \in Calls, ExecuteTool(c) PROVE FlagMeansStream' /\ CurrentInv'
    BY <1>1, <2>2 DEF ExecuteTool, panel, history, PanelInv, FlagMeansStream, CurrentInv, Active
  <2>3. FlagMeansStream' /\ CurrentInv'
    BY <1>1, <2>2, StreamKeepsFlag, StreamKeepsCurrent, PanelStepKeepsPanel DEF PanelInv, Next
  <2> QED BY <2>1, <2>3 DEF PanelInv
<1>2. ASSUME PanelInv, UNCHANGED vars PROVE PanelInv'
  <2>1. ApprovalInv'
    BY <1>2, StepApproval DEF PanelInv
  <2> QED BY <1>2, <2>1 DEF vars, panel, history, PanelInv, FlagMeansStream, CurrentInv, Active
<1> QED BY <1>1, <1>2, InitPanel, PTL DEF Spec

\* Until the panel is turned over under a stream or a load, or two streams begin before
\* either has a session, what it shows belongs to the session the next message goes to,
\* with any number of retried streams side by side (dashboard-ai.js, streamChat, newChat).
THEOREM ShownIsCurrent == Spec => []ShownSessionIsCurrent
<1>1. PanelInv => ShownSessionIsCurrent
  BY DEF PanelInv, CurrentInv, ShownSessionIsCurrent
<1> QED BY <1>1, PanelHolds, PTL

\* The stop icon, which makes the panel refuse messages, is shown only while a stream is
\* read, however streams overlap, throw and end (dashboard-ai.js, setStreaming in finally).
THEOREM FlagNeedsStream == Spec => []FlagMeansStream
<1>1. PanelInv => FlagMeansStream
  BY DEF PanelInv
<1> QED BY <1>1, PanelHolds, PTL
=============================================================================
