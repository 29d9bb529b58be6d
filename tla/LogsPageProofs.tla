--------------------------- MODULE LogsPageProofs ---------------------------
(***************************************************************************)
(* Proofs about the logs page for any number of loads, searches, queries   *)
(* and operations: an invariant of either tab, which the steps of the      *)
(* other one and those of both preserve.                                   *)
(***************************************************************************)
EXTENDS LogsPage, TLAPS

(* The realtime tab                                                        *)

StreamNext == StreamStep \/ LeaveRealtime \/ OpenRealtime \/ Reload

StreamInv ==
  /\ StreamTypeOK
  /\ PollsAreWatched
  /\ ~polling.was

Polling == [autoRefresh : BOOLEAN, timer : BOOLEAN, intervals : 0..1, was : BOOLEAN]
LoadRecord == [phase : {"idle", "sent"}] \cup [phase : {"read"}, at : Snapshots]
Lists == {"loading", "entries", "virtual", "blank", "empty", "error"}

LEMMA PollingTypes ==
  ASSUME NEW auto \in BOOLEAN, NEW timer \in BOOLEAN, NEW n \in 0..1, NEW was \in BOOLEAN
  PROVE  [autoRefresh |-> auto, timer |-> timer, intervals |-> n, was |-> was] \in Polling
  BY DEF Polling

LEMMA SnapshotTypes ==
  /\ \A w \in 0..MaxWritten, c \in 0..MaxWritten :
       c <= w => [written |-> w, cleared |-> c] \in Snapshots
  /\ \A b \in Snapshots : /\ b = [written |-> b.written, cleared |-> b.cleared]
                          /\ b.written \in 0..MaxWritten /\ b.cleared \in 0..MaxWritten
                          /\ b.cleared <= b.written
  /\ NoLogs \in Snapshots
<1>1. ASSUME NEW w \in 0..MaxWritten, NEW c \in 0..MaxWritten, c <= w
      PROVE  [written |-> w, cleared |-> c] \in Snapshots
  BY <1>1 DEF Snapshots
<1>2. ASSUME NEW b \in Snapshots
      PROVE  /\ b = [written |-> b.written, cleared |-> b.cleared]
             /\ b.written \in 0..MaxWritten /\ b.cleared \in 0..MaxWritten
             /\ b.cleared <= b.written
  BY DEF Snapshots
<1>3. 0 \in 0..MaxWritten
  BY StreamAssumption
<1> QED  BY <1>1, <1>2, <1>3 DEF NoLogs

\* Rendering touches the list and the range, and nothing else.
LEMMA RenderTypes ==
  ASSUME renderLogs, range \in {None, 0, 1}, scroll \in 0..1
  PROVE  list' \in Lists /\ range' \in {None, 0, 1}
<1>1. CASE getFilteredLogs(logs', search') <= VirtualFrom
  BY <1>1 DEF renderLogs, Lists
<1>2. CASE ~(getFilteredLogs(logs', search') <= VirtualFrom)
  BY <1>2 DEF renderLogs, Lists
<1> QED  BY <1>1, <1>2

LEMMA LoadTypes ==
  ASSUME loads \in [Loads -> LoadRecord]
  PROVE  /\ loadLogs => loads' \in [Loads -> LoadRecord] /\ list' \in Lists
         /\ \A i \in Loads : [loads EXCEPT ![i] = Idle] \in [Loads -> LoadRecord]
         /\ \A i \in Loads, b \in Snapshots :
              [loads EXCEPT ![i] = [phase |-> "read", at |-> b]] \in [Loads -> LoadRecord]
         /\ OneLoad \in [Loads -> LoadRecord]
<1>1. /\ Idle \in LoadRecord /\ [phase |-> "sent"] \in LoadRecord
      /\ \A b \in Snapshots : [phase |-> "read", at |-> b] \in LoadRecord
  BY DEF Idle, LoadRecord
<1> HIDE DEF LoadRecord
<1> QED  BY <1>1 DEF loadLogs, OneLoad, Lists

\* Polling starts only with the tab in view, and stops completely.
LEMMA StartStop ==
  ASSUME StreamInv
  PROVE  /\ startPolling => /\ polling' = [autoRefresh |-> TRUE, timer |-> TRUE, intervals |-> 1,
                                          was |-> FALSE]
                            /\ restored' = FALSE
         /\ stopPolling => /\ polling' = [autoRefresh |-> FALSE, timer |-> FALSE, intervals |-> 0,
                                         was |-> FALSE]
                           /\ restored' = FALSE
<1>1. polling \in Polling /\ polling.was = FALSE
      /\ polling.intervals = IF polling.timer THEN 1 ELSE 0
  BY DEF StreamInv, StreamTypeOK, PollsAreWatched, Polling
<1>2. polling.timer \in BOOLEAN
  BY <1>1 DEF Polling
<1>3. ASSUME startPolling
      PROVE  polling' = [autoRefresh |-> TRUE, timer |-> TRUE, intervals |-> 1, was |-> FALSE]
  <2>1. (IF polling.timer THEN polling.intervals - 1 ELSE polling.intervals) + 1 = 1
    BY <1>1, <1>2
  <2>2. polling' = [polling EXCEPT !.autoRefresh = TRUE, !.timer = TRUE, !.intervals = 1]
    BY <1>3, <2>1 DEF startPolling
  <2> QED  BY <1>1, <2>2 DEF Polling
<1>4. ASSUME stopPolling
      PROVE  polling' = [autoRefresh |-> FALSE, timer |-> FALSE, intervals |-> 0, was |-> FALSE]
  <2>1. (IF polling.timer THEN polling.intervals - 1 ELSE polling.intervals) = 0
    BY <1>1, <1>2
  <2> QED  BY <1>4, <2>1 DEF stopPolling
<1> QED  BY <1>3, <1>4 DEF startPolling, stopPolling

\* What StreamInv says of the interval after a step that starts, stops or leaves it.
LEMMA Watched ==
  ASSUME StreamInv,
         \/ /\ polling' = [autoRefresh |-> TRUE, timer |-> TRUE, intervals |-> 1, was |-> FALSE]
            /\ tab' = "realtime" /\ ~hidden' /\ restored' = FALSE
         \/ /\ \E auto \in BOOLEAN : polling' = NotPolling(auto) /\ (auto => restored')
            /\ restored' \in BOOLEAN
         \/ UNCHANGED <<polling, restored, tab, hidden>>
         \/ UNCHANGED <<polling, restored>> /\ ~polling.timer
  PROVE  PollsAreWatched' /\ ~polling'.was /\ polling' \in Polling /\ restored' \in BOOLEAN
<1>1. CASE /\ polling' = [autoRefresh |-> TRUE, timer |-> TRUE, intervals |-> 1, was |-> FALSE]
           /\ tab' = "realtime" /\ ~hidden' /\ restored' = FALSE
  <2>1. polling' \in Polling
    <3>1. 1 \in 0..1
      OBVIOUS
    <3> QED  BY <1>1, <3>1, PollingTypes
  <2>2. /\ polling'.autoRefresh = TRUE /\ polling'.timer = TRUE /\ polling'.intervals = 1
        /\ polling'.was = FALSE
    BY <1>1
  <2>3. restored' \in BOOLEAN
    BY <1>1
  <2> QED  BY <1>1, <2>1, <2>2, <2>3 DEF PollsAreWatched
<1>2. CASE /\ \E auto \in BOOLEAN : polling' = NotPolling(auto) /\ (auto => restored')
           /\ restored' \in BOOLEAN
  <2>1. PICK auto \in BOOLEAN : polling' = NotPolling(auto) /\ (auto => restored')
    BY <1>2
  <2>2. /\ polling'.autoRefresh = auto /\ polling'.timer = FALSE /\ polling'.intervals = 0
        /\ polling'.was = FALSE
    BY <2>1 DEF NotPolling
  <2>3. polling' \in Polling
    <3>1. 0 \in 0..1
      OBVIOUS
    <3> QED  BY <2>1, <3>1, PollingTypes DEF NotPolling
  <2> QED  BY <1>2, <2>1, <2>2, <2>3 DEF PollsAreWatched
<1>3. CASE UNCHANGED <<polling, restored, tab, hidden>>
  BY <1>3 DEF PollsAreWatched, Polling, StreamInv, StreamTypeOK
<1>4. CASE UNCHANGED <<polling, restored>> /\ ~polling.timer
  BY <1>4 DEF PollsAreWatched, Polling, StreamInv, StreamTypeOK
<1> QED  BY <1>1, <1>2, <1>3, <1>4

\* What StreamTypeOK says but for the interval.
StreamTypes ==
  /\ tab \in {"realtime", "history"} /\ hidden \in BOOLEAN /\ entryExpanded \in BOOLEAN
  /\ saved \in [autoRefresh : BOOLEAN, search : {"any", "nothing"}] /\ search \in {"any", "nothing"}
  /\ buffer \in Snapshots /\ logs \in Snapshots
  /\ list \in Lists /\ range \in {None, 0, 1} /\ scroll \in 0..1
  /\ loads \in [Loads -> LoadRecord]
  /\ clear \in {"none", "sent", "done"}
  /\ ops \in 0..MaxOps

LEMMA StreamTypesAre ==
  StreamTypeOK <=> StreamTypes /\ polling \in Polling /\ restored \in BOOLEAN
  BY DEF StreamTypeOK, StreamTypes, Polling, LoadRecord, Lists

LEMMA OneMore ==
  ASSUME ops \in 0..MaxOps
  PROVE  /\ Operation => ops' \in 0..MaxOps
         /\ StreamUser => ops' \in 0..MaxOps /\ ~hidden
  BY TabsAssumption DEF StreamUser, Operation

LEMMA StreamTypeStep ==
  ASSUME StreamTypes, polling \in Polling, StreamNext
  PROVE  StreamTypes'
<1> USE DEF StreamTypes
<1>0. NoLogs \in Snapshots
  BY SnapshotTypes
<1>1. ASSUME NEW i \in Loads, ReadBuffer(i)  PROVE  StreamTypes'
  BY <1>1, LoadTypes DEF ReadBuffer, page, view
<1>2. ASSUME NEW i \in Loads, LogsArrive(i)  PROVE  StreamTypes'
  <2>1. loads[i].at \in Snapshots
    BY <1>2 DEF LogsArrive, LoadRecord
  <2>2. renderLogs
    BY <1>2 DEF LogsArrive
  <2>3. list' \in Lists /\ range' \in {None, 0, 1}
    BY <2>2, RenderTypes
  <2>4. loads' \in [Loads -> LoadRecord]
    BY <1>2, LoadTypes DEF LogsArrive
  <2> QED  BY <1>2, <2>1, <2>3, <2>4 DEF LogsArrive, page
<1>3. ASSUME NEW i \in Loads, LoadFails(i)  PROVE  StreamTypes'
  BY <1>3, LoadTypes DEF LoadFails, page, Lists
<1>4. CASE Refresh
  BY <1>4, LoadTypes, OneMore DEF Refresh, InRealtime, page
<1>5. CASE RenderAgain
  <2>1. list' \in Lists /\ range' \in {None, 0, 1}
    BY <1>5, RenderTypes DEF RenderAgain
  <2> QED  BY <1>5, <2>1, OneMore DEF RenderAgain, page
<1>6. CASE Scroll
  <2>1. scroll' = 1 - scroll
    BY <1>6 DEF Scroll
  <2>2. scroll' \in 0..1
    BY <2>1
  <2>3. range' \in {None, 0, 1}
    BY <1>6, <2>2 DEF Scroll
  <2>4. list' \in Lists
    BY <1>6 DEF Scroll, Lists
  <2> QED  BY <1>6, <2>2, <2>3, <2>4, OneMore DEF Scroll, InRealtime, page
<1>7. CASE ScrollReset
  <2>1. range' \in {None, 0, 1} /\ scroll' \in 0..1
    BY <1>7 DEF ScrollReset
  <2> QED  BY <1>7, <2>1 DEF ScrollReset, page
<1>8. CASE togglePolling
  <2>1. loads' \in [Loads -> LoadRecord] /\ list' \in Lists
    BY <1>8, LoadTypes DEF togglePolling, startPolling
  <2> QED  BY <1>8, <2>1, OneMore DEF togglePolling, InRealtime
<1>9. CASE PollTick
  BY <1>9, LoadTypes DEF PollTick, page
<1>10. CASE toggleLogEntryDirect
  BY <1>10, OneMore DEF toggleLogEntryDirect, InRealtime
<1>11. CASE Hide
  BY <1>11, OneMore DEF Hide, view
<1>12. CASE ShowAgain
  <2>1. loads' \in [Loads -> LoadRecord] /\ list' \in Lists
    BY <1>12, LoadTypes DEF ShowAgain, startPolling
  <2> QED  BY <1>12, <2>1 DEF ShowAgain
<1>13. CASE LeaveRealtime
  BY <1>13, OneMore DEF LeaveRealtime, InRealtime, view
<1>14. CASE OpenRealtime
  <2>1. loads' \in [Loads -> LoadRecord] /\ list' \in Lists
    BY <1>14, LoadTypes DEF OpenRealtime, startPolling
  <2> QED  BY <1>14, <2>1, OneMore DEF OpenRealtime
<1>15. CASE clearLogs
  BY <1>15, OneMore DEF clearLogs, InRealtime, page, view
<1>16. CASE BufferCleared
  <2>1. buffer' \in Snapshots
    <3>1. buffer' = [written |-> buffer.written, cleared |-> buffer.written]
      BY <1>16, SnapshotTypes DEF BufferCleared
    <3> QED  BY <3>1, SnapshotTypes
  <2> QED  BY <1>16, <2>1 DEF BufferCleared, page, view
<1>17. CASE ClearAnswered
  <2>1. logs' \in Snapshots
    BY <1>0, <1>17 DEF ClearAnswered, NoLogs
  <2>2. list' \in Lists /\ range' \in {None, 0, 1}
    BY <1>17, RenderTypes DEF ClearAnswered
  <2> QED  BY <1>17, <2>1, <2>2 DEF ClearAnswered, page
<1>18. CASE ClearFails
  BY <1>18 DEF ClearFails, page, view
<1>19. CASE LogWritten
  <2>1. buffer' \in Snapshots
    <3>1. buffer' = [written |-> buffer.written + 1, cleared |-> buffer.cleared]
          /\ buffer.written < MaxWritten
      BY <1>19, SnapshotTypes DEF LogWritten
    <3>2. buffer.written + 1 \in 0..MaxWritten /\ buffer.cleared \in 0..MaxWritten
          /\ buffer.cleared <= buffer.written + 1
      BY <3>1, SnapshotTypes, StreamAssumption
    <3> QED  BY <3>1, <3>2, SnapshotTypes
  <2> QED  BY <1>19, <2>1 DEF LogWritten, page, view
<1>20. CASE saveState
  BY <1>20 DEF saveState, page, view, Polling
<1>21. CASE Reload
  <2>1. buffer' \in Snapshots
    <3>1. [buffer EXCEPT !.cleared = buffer.written]
            = [written |-> buffer.written, cleared |-> buffer.written]
      BY SnapshotTypes
    <3>2. [buffer EXCEPT !.cleared = buffer.written] \in Snapshots
      BY <3>1, SnapshotTypes
    <3> QED  BY <1>21, <3>2 DEF Reload
  <2>2. loads' \in [Loads -> LoadRecord] /\ list' \in Lists
    BY <1>21, LoadTypes DEF Reload, Lists
  <2>3. scroll' \in 0..1 /\ range' \in {None, 0, 1}
    BY <1>21 DEF Reload
  <2>4. search' \in {"any", "nothing"} /\ saved' = saved
    BY <1>21 DEF Reload
  <2>5. logs' \in Snapshots
    BY <1>0, <1>21 DEF Reload
  <2>6. tab' = "realtime" /\ entryExpanded' = FALSE /\ clear' = "none" /\ hidden' = hidden
    BY <1>21 DEF Reload
  <2>7. ops' \in 0..MaxOps
    BY <1>21, OneMore DEF Reload
  <2> QED  BY <2>1, <2>2, <2>3, <2>4, <2>5, <2>6, <2>7
<1> QED
  BY <1>1, <1>2, <1>3, <1>4, <1>5, <1>6, <1>7, <1>8, <1>9, <1>10, <1>11, <1>12, <1>13, <1>14,
     <1>15, <1>16, <1>17, <1>18, <1>19, <1>20, <1>21
     DEF StreamNext, StreamStep, Load

\* Each step starts the interval in view, stops it, or leaves it as it was.
LEMMA PollsStep ==
  ASSUME StreamInv, StreamNext
  PROVE  PollsAreWatched' /\ ~polling'.was /\ polling' \in Polling /\ restored' \in BOOLEAN
<1> DEFINE Started == /\ polling' = [autoRefresh |-> TRUE, timer |-> TRUE, intervals |-> 1,
                                     was |-> FALSE]
                      /\ tab' = "realtime" /\ ~hidden' /\ restored' = FALSE
           Stopped == /\ \E auto \in BOOLEAN : polling' = NotPolling(auto) /\ (auto => restored')
                      /\ restored' \in BOOLEAN
           Kept == UNCHANGED <<polling, restored, tab, hidden>>
           Idled == UNCHANGED <<polling, restored>> /\ ~polling.timer
<1>0. /\ polling \in Polling /\ ~polling.was /\ saved.autoRefresh \in BOOLEAN
      /\ restored \in BOOLEAN /\ hidden \in BOOLEAN
      /\ polling.timer => tab = "realtime" /\ ~hidden
  BY DEF StreamInv, StreamTypeOK, PollsAreWatched, Polling
<1>1. stopPolling => Stopped
  BY StartStop DEF NotPolling
<1>2. ASSUME NEW i \in Loads, Load(i)  PROVE  Kept
  BY <1>2 DEF Load, ReadBuffer, LogsArrive, LoadFails, page
<1>3. CASE Refresh \/ RenderAgain \/ Scroll \/ ScrollReset \/ PollTick
  BY <1>3, Watched DEF Refresh, RenderAgain, Scroll, ScrollReset, PollTick, page
<1>4. CASE togglePolling
  <2>1. CASE polling.autoRefresh
    BY <1>1, <1>4, <2>1, Watched DEF togglePolling
  <2>2. CASE ~polling.autoRefresh
    <3>1. Started
      BY <1>4, <2>2, StartStop DEF togglePolling, InRealtime, StreamUser
    <3> QED  BY <3>1, Watched
  <2> QED  BY <2>1, <2>2
<1>5. CASE toggleLogEntryDirect
  <2>1. Stopped \/ Kept
    BY <1>1, <1>5 DEF toggleLogEntryDirect
  <2> QED  BY <2>1, Watched
<1>6. CASE Hide
  <2>1. Stopped \/ Idled
    BY <1>1, <1>6 DEF Hide
  <2> QED  BY <2>1, Watched
<1>7. CASE ShowAgain
  <2>1. Idled
    BY <1>0, <1>7 DEF ShowAgain
  <2> QED  BY <2>1, Watched
<1>8. CASE LeaveRealtime
  BY <1>1, <1>8, Watched DEF LeaveRealtime
<1>9. CASE OpenRealtime
  <2>1. CASE polling.autoRefresh
    <3>1. Started
      BY <1>9, <2>1, StartStop DEF OpenRealtime, StreamUser
    <3> QED  BY <3>1, Watched
  <2>2. CASE ~polling.autoRefresh
    <3>1. Idled
      BY <1>0, <1>9, <2>2 DEF OpenRealtime
    <3> QED  BY <3>1, Watched
  <2> QED  BY <2>1, <2>2
<1>10. CASE clearLogs \/ BufferCleared \/ ClearAnswered \/ ClearFails \/ LogWritten \/ saveState
  BY <1>10, Watched
     DEF clearLogs, BufferCleared, ClearAnswered, ClearFails, LogWritten, saveState, page
<1>11. CASE Reload
  <2>1. Stopped
    BY <1>0, <1>11 DEF Reload
  <2> QED  BY <2>1, Watched
<1>12. ASSUME NEW i \in Loads, Load(i)
       PROVE  PollsAreWatched' /\ ~polling'.was /\ polling' \in Polling /\ restored' \in BOOLEAN
  BY <1>2, <1>12, Watched
<1> QED
  BY <1>3, <1>4, <1>5, <1>6, <1>7, <1>8, <1>9, <1>10, <1>11, <1>12 DEF StreamNext, StreamStep

LEMMA StreamInvInit == StreamInit => StreamInv
<1> SUFFICES ASSUME StreamInit  PROVE  StreamInv
  OBVIOUS
<1>1. NoLogs \in Snapshots
  BY SnapshotTypes
<1>2. loads \in [Loads -> LoadRecord]
  BY DEF StreamInit, OneLoad, Idle, LoadRecord
<1>3. StreamTypes
  <2>1. ops \in 0..MaxOps
    BY TabsAssumption DEF StreamInit
  <2>2. range \in {None, 0, 1} /\ scroll \in 0..1
    BY DEF StreamInit
  <2>3. buffer \in Snapshots /\ logs \in Snapshots
    BY <1>1 DEF StreamInit
  <2> QED  BY <1>2, <2>1, <2>2, <2>3 DEF StreamInit, StreamTypes, Lists
<1>4. polling \in Polling /\ ~polling.was /\ PollsAreWatched /\ restored \in BOOLEAN
  <2>1. 0 \in 0..1
    OBVIOUS
  <2>2. polling = NotPolling(FALSE) /\ restored = FALSE
    BY DEF StreamInit
  <2>3. polling \in Polling
    BY <2>1, <2>2, PollingTypes DEF NotPolling
  <2>4. ~polling.was /\ ~polling.timer /\ ~polling.autoRefresh /\ polling.intervals = 0
    BY <2>2 DEF NotPolling
  <2> QED  BY <2>2, <2>3, <2>4 DEF PollsAreWatched
<1> QED  BY <1>3, <1>4, StreamTypesAre DEF StreamInv

LEMMA StreamInvStep == StreamInv /\ [StreamNext]_streamVars => StreamInv'
<1> SUFFICES ASSUME StreamInv, [StreamNext]_streamVars  PROVE  StreamInv'
  OBVIOUS
<1>1. CASE StreamNext
  <2>1. StreamTypes /\ polling \in Polling
    BY StreamTypesAre DEF StreamInv
  <2>2. StreamTypes'
    BY <1>1, <2>1, StreamTypeStep
  <2>3. PollsAreWatched' /\ ~polling'.was /\ polling' \in Polling /\ restored' \in BOOLEAN
    BY <1>1, PollsStep
  <2>4. StreamTypeOK'
    BY <2>2, <2>3 DEF StreamTypeOK, StreamTypes, Polling, LoadRecord, Lists
  <2> QED  BY <2>3, <2>4 DEF StreamInv
<1>2. CASE UNCHANGED streamVars
  BY <1>2 DEF streamVars, page, view, StreamInv, StreamTypeOK, PollsAreWatched
<1> QED  BY <1>1, <1>2

-----------------------------------------------------------------------------
(* The history tab                                                         *)

HistoryNext == HistoryOperation \/ HistoryAnswer \/ OpenHistory \/ LeaveHistory \/ ReloadHistory

\* A page number is counted from the first page by the user's operations.
HistoryRecord(n) ==
  [persistence : {"unknown", "on", "off"}, query : Queries, page : 1..(n + 1),
   hasMore : BOOLEAN, items : Results \cup {None}, failed : BOOLEAN,
   pager : BOOLEAN, view : {"loading", "items", "empty", "error", "banner"}]
SearchRecord(n) == Requests([phase : {"sent"}, query : Queries, page : 1..(n + 1)])
RowRecord ==
  [expanded : BOOLEAN, loaded : BOOLEAN, content : {"hint", "loading", "detail", "error"}]
CheckRecord == Requests([phase : {"sent"}])
DetailRecord == Requests([phase : {"sent"}, row : Results, attached : BOOLEAN])

HistoryTypes ==
  /\ tab \in {"realtime", "history"}
  /\ history \in HistoryRecord(ops)
  /\ row \in RowRecord
  /\ checks \in [Slots -> CheckRecord]
  /\ searches \in [Slots -> SearchRecord(ops)]
  /\ details \in [Slots -> DetailRecord]
  /\ cache \subseteq Results /\ expanded \subseteq Results
  /\ ops \in 0..MaxOps

ItemsShown == history.view = "items" => history.items \in Results

\* Without a search under way, and unless the last one has failed, the page number
\* is that of the last answer, whatever the container shows.
Numbered ==
  /\ history.persistence = "on" /\ ~history.failed
  /\ \A i \in Slots : searches[i].phase = "idle"
  => history.items[2] = history.page

\* A load that still has its row belongs to the items that are shown.
DetailsOfRows ==
  /\ row.content = "detail" => history.items \in cache
  /\ \A i \in Slots :
       details[i].phase = "sent" => (details[i].attached => details[i].row = history.items)

HistoryInv == HistoryTypes /\ ItemsShown /\ Numbered /\ DetailsOfRows

LEMMA MorePages ==
  ASSUME NEW n \in Nat, NEW m \in Nat, n <= m
  PROVE  1..(n + 1) \subseteq 1..(m + 1) /\ SearchRecord(n) \subseteq SearchRecord(m)
<1>1. 1..(n + 1) \subseteq 1..(m + 1)
  OBVIOUS
<1> QED  BY <1>1 DEF SearchRecord, Requests

LEMMA MoreHistories ==
  ASSUME NEW n \in Nat, NEW m \in Nat, n <= m, NEW h \in HistoryRecord(n)
  PROVE  h \in HistoryRecord(m)
  BY MorePages DEF HistoryRecord

LEMMA SearchesGrow ==
  ASSUME NEW n \in Nat, NEW m \in Nat, n <= m, NEW f \in [Slots -> SearchRecord(n)]
  PROVE  f \in [Slots -> SearchRecord(m)]
  BY MorePages

\* A request takes a slot that is idle.
LEMMA Sending ==
  ASSUME NEW T, NEW slots \in [Slots -> T], NEW request \in T, request.phase = "sent",
         NEW sent \in Send(slots, request)
  PROVE  /\ sent \in [Slots -> T]
         /\ \E i \in Slots : sent = [slots EXCEPT ![i] = request] /\ sent[i].phase = "sent"
  BY DEF Send

LEMMA IdleRequests ==
  /\ Idle \in CheckRecord /\ Idle \in DetailRecord /\ Idle.phase = "idle"
  /\ \A n \in Nat : Idle \in SearchRecord(n)
  /\ NoRow \in RowRecord /\ NoRow.content = "hint"
  BY DEF Idle, CheckRecord, DetailRecord, SearchRecord, Requests, RowRecord, NoRow

\* New rows have no detail, and no load belongs to them.
LEMMA Detaching ==
  ASSUME details \in [Slots -> DetailRecord], DetachRows
  PROVE  row' \in RowRecord /\ details' \in [Slots -> DetailRecord] /\ DetailsOfRows'
<1>1. row' = NoRow
  BY DEF DetachRows
<1>2. ASSUME NEW i \in Slots
      PROVE  /\ details'[i] \in DetailRecord
             /\ details'[i].phase = "sent" => ~details'[i].attached
  <2>1. details'[i] = IF details[i].phase = "idle" THEN Idle
                      ELSE [details[i] EXCEPT !.attached = FALSE]
    BY DEF DetachRows
  <2>2. CASE details[i].phase = "idle"
    BY <2>1, <2>2, IdleRequests
  <2>3. CASE details[i].phase # "idle"
    <3>1. details[i] \in [phase : {"sent"}, row : Results, attached : BOOLEAN]
      BY <2>3 DEF DetailRecord, Requests
    <3>2. details'[i] = [details[i] EXCEPT !.attached = FALSE]
      BY <2>1, <2>3
    <3> QED  BY <3>1, <3>2 DEF DetailRecord, Requests
  <2> QED  BY <2>2, <2>3
<1>3. details' = [i \in Slots |-> details'[i]]
  BY DEF DetachRows
<1>4. details' \in [Slots -> DetailRecord]
  BY <1>2, <1>3
<1> QED  BY <1>1, <1>2, <1>4, IdleRequests DEF DetailsOfRows

\* A search is under way afterwards, or the page is taken to be without entries.
LEMMA Searching ==
  ASSUME HistoryInv, ops' \in 0..MaxOps, ops <= ops',
         NEW h \in HistoryRecord(ops'), searchHistory(h)
  PROVE  /\ history' \in HistoryRecord(ops')
         /\ searches' \in [Slots -> SearchRecord(ops')]
         /\ row' \in RowRecord /\ details' \in [Slots -> DetailRecord]
         /\ ItemsShown' /\ Numbered' /\ DetailsOfRows'
<1>1. row' \in RowRecord /\ details' \in [Slots -> DetailRecord] /\ DetailsOfRows'
  BY Detaching DEF searchHistory, HistoryInv, HistoryTypes
<1>2. searches \in [Slots -> SearchRecord(ops')]
  <2>1. ops \in Nat /\ ops' \in Nat
    BY TabsAssumption DEF HistoryInv, HistoryTypes
  <2> QED  BY <2>1, SearchesGrow DEF HistoryInv, HistoryTypes
<1>3. CASE h.persistence = "on"
  <2>1. history' = [h EXCEPT !.view = "loading"]
    BY <1>3 DEF searchHistory
  <2>2. history' \in HistoryRecord(ops') /\ history'.view = "loading"
    BY <2>1 DEF HistoryRecord
  <2> DEFINE request == [phase |-> "sent", query |-> h.query, page |-> h.page]
  <2>3. h.query \in Queries /\ h.page \in 1..(ops' + 1)
    BY DEF HistoryRecord
  <2>4. request \in SearchRecord(ops') /\ request.phase = "sent"
    BY <2>3 DEF SearchRecord, Requests
  <2>5. searches' \in Send(searches, request)
    BY <1>3 DEF searchHistory
  <2> HIDE DEF request
  <2>6. /\ searches' \in [Slots -> SearchRecord(ops')]
        /\ \E i \in Slots : searches'[i].phase = "sent"
    BY <1>2, <2>4, <2>5, Sending
  <2>7. Numbered'
    BY <2>6 DEF Numbered
  <2> QED  BY <1>1, <2>2, <2>6, <2>7 DEF ItemsShown
<1>4. CASE h.persistence # "on"
  <2>1. history' = [h EXCEPT !.view = "banner", !.pager = FALSE] /\ searches' = searches
    BY <1>4 DEF searchHistory
  <2>2. /\ history' \in HistoryRecord(ops')
        /\ history'.view = "banner" /\ history'.persistence = h.persistence
    BY <2>1 DEF HistoryRecord
  <2> QED  BY <1>1, <1>2, <1>4, <2>1, <2>2 DEF ItemsShown, Numbered
<1> QED  BY <1>3, <1>4

LEMMA OneOperation ==
  ASSUME ops \in 0..MaxOps, Operation
  PROVE  /\ ops' \in 0..MaxOps /\ ops' = ops + 1
         /\ ops \in Nat /\ ops' \in Nat /\ ops <= ops'
  BY TabsAssumption DEF Operation

\* The four ways to search differ in the page and the form they search with.
LEMMA SearchStep ==
  ASSUME HistoryInv, SearchClicked \/ SearchEntered \/ prevHistoryPage \/ nextHistoryPage
  PROVE  HistoryInv'
<1>1. history \in HistoryRecord(ops) /\ ops \in 0..MaxOps
  BY DEF HistoryInv, HistoryTypes
<1>2. history.page \in 1..(ops + 1)
  BY <1>1 DEF HistoryRecord
<1>3. \E q \in Queries, p \in 1..(ops + 2) : Search([history EXCEPT !.query = q, !.page = p])
  <2>0. ops \in Nat
    BY <1>1
  <2>1. CASE SearchClicked
    <3>1. PICK q \in Queries : Search([history EXCEPT !.query = q])
      BY <2>1 DEF SearchClicked
    <3>2. [history EXCEPT !.query = q] = [history EXCEPT !.query = q, !.page = history.page]
      BY <1>1 DEF HistoryRecord
    <3>3. history.page \in 1..(ops + 2)
      BY <1>2, <2>0
    <3> QED  BY <3>1, <3>2, <3>3
  <2>2. CASE SearchEntered
    <3>1. 1 \in 1..(ops + 2)
      BY <2>0
    <3> QED  BY <2>2, <3>1 DEF SearchEntered
  <2>3. CASE prevHistoryPage
    <3>1. history.page > 1 /\ Search([history EXCEPT !.page = history.page - 1])
      BY <2>3 DEF prevHistoryPage
    <3>2. [history EXCEPT !.page = history.page - 1]
            = [history EXCEPT !.query = history.query, !.page = history.page - 1]
      BY <1>1 DEF HistoryRecord
    <3>3. history.page - 1 \in 1..(ops + 2)
      BY <1>2, <2>0, <3>1
    <3>4. history.query \in Queries
      BY <1>1 DEF HistoryRecord
    <3> QED  BY <3>1, <3>2, <3>3, <3>4
  <2>4. CASE nextHistoryPage
    <3>1. Search([history EXCEPT !.page = history.page + 1])
      BY <2>4 DEF nextHistoryPage
    <3>2. [history EXCEPT !.page = history.page + 1]
            = [history EXCEPT !.query = history.query, !.page = history.page + 1]
      BY <1>1 DEF HistoryRecord
    <3>3. history.page + 1 \in 1..(ops + 2)
      BY <1>2, <2>0
    <3>4. history.query \in Queries
      BY <1>1 DEF HistoryRecord
    <3> QED  BY <3>1, <3>2, <3>3, <3>4
  <2> QED  BY <2>1, <2>2, <2>3, <2>4
<1>4. PICK q \in Queries, p \in 1..(ops + 2) :
        Search([history EXCEPT !.query = q, !.page = p])
  BY <1>3
<1> DEFINE h == [history EXCEPT !.query = q, !.page = p]
<1>5. /\ searchHistory(h) /\ Operation
      /\ UNCHANGED <<tab, checks, cache, expanded>>
  BY <1>4 DEF Search, InHistory
<1>6. /\ ops' \in 0..MaxOps /\ ops' = ops + 1
      /\ ops \in Nat /\ ops' \in Nat /\ ops <= ops'
  BY <1>1, <1>5, OneOperation
<1>7. h \in HistoryRecord(ops')
  <2>1. p \in 1..(ops' + 1)
    BY <1>6
  <2>2. history \in HistoryRecord(ops')
    BY <1>1, <1>6, MoreHistories
  <2> QED  BY <2>1, <2>2 DEF HistoryRecord
<1> HIDE DEF h
<1> QED  BY <1>5, <1>6, <1>7, Searching DEF HistoryInv, HistoryTypes

\* The last answer brings the page number of its own items.
LEMMA SearchArrivesStep ==
  ASSUME HistoryInv, NEW i \in Slots, SearchArrives(i)
  PROVE  HistoryInv'
<1> DEFINE q == searches[i].query
           p == searches[i].page
<1>1. /\ history \in HistoryRecord(ops) /\ ops \in 0..MaxOps
      /\ searches \in [Slots -> SearchRecord(ops)]
      /\ details \in [Slots -> DetailRecord]
  BY DEF HistoryInv, HistoryTypes
<1>2. ops \in Nat /\ 1..(ops + 1) \subseteq Pages
  BY <1>1, TabsAssumption DEF Pages
<1>3. q \in Queries /\ p \in 1..(ops + 1)
  BY <1>1 DEF SearchArrives, SearchRecord, Requests
<1>4. <<q, p>> \in Results
  BY <1>2, <1>3 DEF Results
<1> HIDE DEF q, p
<1>5. history' = [history EXCEPT !.page = p, !.hasMore = p < PagesOf[q], !.items = <<q, p>>,
                                 !.failed = FALSE, !.pager = Hits(<<q, p>>), !.view = View(<<q, p>>)]
  BY DEF SearchArrives, q, p
<1>6. /\ (p < PagesOf[q]) \in BOOLEAN /\ Hits(<<q, p>>) \in BOOLEAN
      /\ View(<<q, p>>) \in {"items", "empty"}
  BY DEF View, Hits
<1>7. history' \in HistoryRecord(ops)
  BY <1>1, <1>3, <1>4, <1>5, <1>6 DEF HistoryRecord
<1>8. history'.items = <<q, p>> /\ history'.page = p
  BY <1>1, <1>5 DEF HistoryRecord
<1>9. Numbered' /\ ItemsShown'
  BY <1>4, <1>8 DEF Numbered, ItemsShown
<1>10. searches' \in [Slots -> SearchRecord(ops)]
  BY <1>1, <1>2, IdleRequests DEF SearchArrives
<1>11. row' \in RowRecord /\ details' \in [Slots -> DetailRecord] /\ DetailsOfRows'
  BY <1>1, Detaching DEF SearchArrives
<1> QED  BY <1>7, <1>9, <1>10, <1>11 DEF HistoryInv, HistoryTypes, SearchArrives

LEMMA SearchFailsStep ==
  ASSUME HistoryInv, NEW i \in Slots, SearchFails(i)
  PROVE  HistoryInv'
<1>1. /\ history \in HistoryRecord(ops) /\ ops \in Nat
      /\ searches \in [Slots -> SearchRecord(ops)]
      /\ details \in [Slots -> DetailRecord]
  BY TabsAssumption DEF HistoryInv, HistoryTypes
<1>2. history' = [history EXCEPT !.view = "error", !.failed = TRUE]
  BY DEF SearchFails
<1>3. history' \in HistoryRecord(ops) /\ history'.view = "error" /\ history'.failed = TRUE
  BY <1>1, <1>2 DEF HistoryRecord
<1>4. searches' \in [Slots -> SearchRecord(ops)]
  BY <1>1, IdleRequests DEF SearchFails
<1>5. row' \in RowRecord /\ details' \in [Slots -> DetailRecord] /\ DetailsOfRows'
  BY <1>1, Detaching DEF SearchFails
<1> QED
  BY <1>3, <1>4, <1>5 DEF HistoryInv, HistoryTypes, SearchFails, Numbered, ItemsShown

\* The items of the last answer are kept, and so is their number.
LEMMA RenderStep ==
  ASSUME HistoryInv, RenderHistoryAgain
  PROVE  HistoryInv'
<1>1. /\ history \in HistoryRecord(ops) /\ ops \in 0..MaxOps
      /\ searches \in [Slots -> SearchRecord(ops)]
      /\ details \in [Slots -> DetailRecord]
  BY DEF HistoryInv, HistoryTypes
<1>2. /\ ops' \in 0..MaxOps /\ ops' = ops + 1
      /\ ops \in Nat /\ ops' \in Nat /\ ops <= ops'
  BY <1>1, OneOperation DEF RenderHistoryAgain, InHistory
<1>3. history' = [history EXCEPT !.view = View(history.items), !.pager = Hits(history.items)]
      /\ searches' = searches
  BY DEF RenderHistoryAgain
<1>4. /\ View(history.items) \in {"items", "empty"}
      /\ View(history.items) = "items" => history.items # None
      /\ Hits(history.items) \in BOOLEAN
  BY DEF View, Hits
<1>5. /\ history' \in HistoryRecord(ops)
      /\ history'.items = history.items /\ history'.page = history.page
      /\ history'.persistence = history.persistence /\ history'.failed = history.failed
      /\ history'.view = "items" => history.items \in Results
  BY <1>1, <1>3, <1>4 DEF HistoryRecord
<1>6. history' \in HistoryRecord(ops') /\ searches' \in [Slots -> SearchRecord(ops')]
  BY <1>1, <1>2, <1>3, <1>5, MoreHistories, SearchesGrow
<1>7. row' \in RowRecord /\ details' \in [Slots -> DetailRecord] /\ DetailsOfRows'
  BY <1>1, Detaching DEF RenderHistoryAgain
<1>8. Numbered' /\ ItemsShown'
  BY <1>3, <1>5 DEF HistoryInv, Numbered, ItemsShown
<1> QED  BY <1>2, <1>6, <1>7, <1>8 DEF HistoryInv, HistoryTypes, RenderHistoryAgain

\* What an operation leaves of the invariant if it changes neither the items nor the
\* searches.
LEMMA Untouched ==
  ASSUME HistoryInv, UNCHANGED <<history, searches>>,
         ops' \in 0..MaxOps, ops <= ops'
  PROVE  /\ history' \in HistoryRecord(ops')
         /\ searches' \in [Slots -> SearchRecord(ops')]
         /\ ItemsShown' /\ Numbered'
<1>1. ops \in Nat /\ ops' \in Nat
  BY TabsAssumption DEF HistoryInv, HistoryTypes
<1>2. history' \in HistoryRecord(ops') /\ searches' \in [Slots -> SearchRecord(ops')]
  BY <1>1, MoreHistories, SearchesGrow DEF HistoryInv, HistoryTypes
<1> QED  BY <1>2 DEF HistoryInv, ItemsShown, Numbered

\* A row is expanded with what its cache has, or asks for its own detail.
LEMMA ToggleStep ==
  ASSUME HistoryInv, toggleHistoryEntry
  PROVE  HistoryInv'
<1> DEFINE r == history.items
<1>1. /\ r \in Results /\ ops \in 0..MaxOps
      /\ details \in [Slots -> DetailRecord] /\ row \in RowRecord
      /\ expanded \subseteq Results
  BY DEF HistoryInv, HistoryTypes, ItemsShown, toggleHistoryEntry
<1>2. ops' \in 0..MaxOps /\ ops <= ops'
  BY <1>1, OneOperation DEF toggleHistoryEntry, InHistory
<1>3. /\ history' \in HistoryRecord(ops')
      /\ searches' \in [Slots -> SearchRecord(ops')]
      /\ ItemsShown' /\ Numbered'
  BY <1>2, Untouched DEF toggleHistoryEntry
<1>4. UNCHANGED <<tab, history, checks, searches, cache>> /\ expanded' \subseteq Results
  BY <1>1 DEF toggleHistoryEntry
<1>5. \/ row' = [row EXCEPT !.expanded = FALSE] /\ UNCHANGED details
      \/ ExpandRow(r)
  BY DEF toggleHistoryEntry
<1>6. row' \in RowRecord /\ details' \in [Slots -> DetailRecord] /\ DetailsOfRows'
  <2>1. CASE row' = [row EXCEPT !.expanded = FALSE] /\ UNCHANGED details
    <3>1. row' \in RowRecord /\ row'.content = row.content
      BY <1>1, <2>1 DEF RowRecord
    <3> QED  BY <1>1, <1>4, <2>1, <3>1 DEF HistoryInv, DetailsOfRows
  <2>2. CASE ExpandRow(r) /\ row.loaded
    <3>1. row' = [row EXCEPT !.expanded = TRUE] /\ UNCHANGED details
      BY <2>2 DEF ExpandRow
    <3>2. row' \in RowRecord /\ row'.content = row.content
      BY <1>1, <3>1 DEF RowRecord
    <3> QED  BY <1>1, <1>4, <3>1, <3>2 DEF HistoryInv, DetailsOfRows
  <2>3. CASE ExpandRow(r) /\ ~row.loaded /\ r \in cache
    <3>1. /\ row' = [expanded |-> TRUE, loaded |-> TRUE, content |-> "detail"]
          /\ UNCHANGED details
      BY <2>3 DEF ExpandRow
    <3>2. row' \in RowRecord
      BY <3>1 DEF RowRecord
    <3> QED  BY <1>1, <1>4, <2>3, <3>1, <3>2 DEF HistoryInv, DetailsOfRows
  <2>4. CASE ExpandRow(r) /\ ~row.loaded /\ r \notin cache
    <3> DEFINE request == [phase |-> "sent", row |-> r, attached |-> TRUE]
    <3>1. /\ row' = [row EXCEPT !.expanded = TRUE, !.content = "loading"]
          /\ details' \in Send(details, request)
      BY <2>4 DEF ExpandRow
    <3>2. row' \in RowRecord /\ row'.content = "loading"
      BY <1>1, <3>1 DEF RowRecord
    <3>3. request \in DetailRecord /\ request.phase = "sent" /\ request.row = r
      BY <1>1 DEF DetailRecord, Requests
    <3> HIDE DEF request
    <3>4. PICK k \in Slots : details' = [details EXCEPT ![k] = request]
      BY <3>1 DEF Send
    <3>5. details' \in [Slots -> DetailRecord]
      BY <1>1, <3>3, <3>4
    <3>6. ASSUME NEW i \in Slots, details'[i].phase = "sent", details'[i].attached
          PROVE  details'[i].row = history'.items
      <4>1. CASE i = k
        BY <1>1, <1>4, <3>3, <3>4, <4>1
      <4>2. CASE i # k
        BY <1>1, <1>4, <3>4, <3>6, <4>2 DEF HistoryInv, DetailsOfRows
      <4> QED  BY <4>1, <4>2
    <3> QED  BY <3>2, <3>5, <3>6 DEF DetailsOfRows
  <2> QED  BY <1>5, <2>1, <2>2, <2>3, <2>4
<1> QED  BY <1>2, <1>3, <1>4, <1>6 DEF HistoryInv, HistoryTypes

LEMMA OpenStep ==
  ASSUME HistoryInv, OpenHistory
  PROVE  HistoryInv'
<1>1. /\ history \in HistoryRecord(ops) /\ ops \in 0..MaxOps
      /\ checks \in [Slots -> CheckRecord]
  BY DEF HistoryInv, HistoryTypes
<1>2. /\ ops' \in 0..MaxOps /\ ops' = ops + 1
      /\ ops \in Nat /\ ops' \in Nat /\ ops <= ops'
  BY <1>1, OneOperation DEF OpenHistory
<1>3. tab' = "history" /\ UNCHANGED <<cache, expanded>>
  BY DEF OpenHistory
<1>4. CASE history.persistence = "unknown"
  <2>1. checks' \in Send(checks, [phase |-> "sent"]) /\ UNCHANGED <<history, row, searches, details>>
    BY <1>4 DEF OpenHistory
  <2>2. [phase |-> "sent"] \in CheckRecord
    BY DEF CheckRecord, Requests
  <2>3. checks' \in [Slots -> CheckRecord]
    BY <1>1, <2>1, <2>2, Sending
  <2> QED
    BY <1>2, <1>3, <2>1, <2>3, Untouched DEF HistoryInv, HistoryTypes, DetailsOfRows
<1>5. CASE history.persistence = "on"
  <2>1. searchHistory(history) /\ UNCHANGED checks
    BY <1>5 DEF OpenHistory
  <2>2. history \in HistoryRecord(ops')
    BY <1>1, <1>2, MoreHistories
  <2> QED  BY <1>2, <1>3, <2>1, <2>2, Searching DEF HistoryInv, HistoryTypes
<1>6. CASE history.persistence \notin {"unknown", "on"}
  <2>1. UNCHANGED <<history, row, checks, searches, details>>
    BY <1>6 DEF OpenHistory
  <2> QED
    BY <1>2, <1>3, <2>1, Untouched DEF HistoryInv, HistoryTypes, DetailsOfRows
<1> QED  BY <1>4, <1>5, <1>6

LEMMA LeaveStep ==
  ASSUME HistoryInv, LeaveHistory
  PROVE  HistoryInv'
<1>1. ops' \in 0..MaxOps /\ ops <= ops'
  BY OneOperation DEF LeaveHistory, HistoryInv, HistoryTypes
<1> QED
  BY <1>1, Untouched DEF LeaveHistory, HistoryInv, HistoryTypes, DetailsOfRows

LEMMA CheckStep ==
  ASSUME HistoryInv, NEW i \in Slots, CheckAnswered(i) \/ CheckDenied(i)
  PROVE  HistoryInv'
<1>1. /\ history \in HistoryRecord(ops) /\ ops \in 0..MaxOps
      /\ checks \in [Slots -> CheckRecord] /\ details \in [Slots -> DetailRecord]
      /\ ops' = ops
  BY DEF HistoryInv, HistoryTypes, CheckAnswered, CheckDenied
<1>2. ops' \in 0..MaxOps /\ ops <= ops'
  BY <1>1, TabsAssumption
<1>3. checks' \in [Slots -> CheckRecord]
  BY <1>1, IdleRequests DEF CheckAnswered, CheckDenied
<1>4. CASE CheckAnswered(i)
  <2> DEFINE h == [history EXCEPT !.persistence = "on"]
  <2>1. h \in HistoryRecord(ops')
    BY <1>1 DEF HistoryRecord
  <2>2. searchHistory(h) /\ UNCHANGED <<tab, cache, expanded>>
    BY <1>4 DEF CheckAnswered
  <2> HIDE DEF h
  <2> QED  BY <1>2, <1>3, <2>1, <2>2, Searching DEF HistoryInv, HistoryTypes
<1>5. CASE CheckDenied(i)
  <2>1. /\ history' = [history EXCEPT !.persistence = "off", !.view = "banner", !.pager = FALSE]
        /\ UNCHANGED <<tab, searches, cache, expanded>>
    BY <1>5 DEF CheckDenied
  <2>2. /\ history' \in HistoryRecord(ops)
        /\ history'.persistence = "off" /\ history'.view = "banner"
    BY <1>1, <2>1 DEF HistoryRecord
  <2>3. Numbered' /\ ItemsShown'
    BY <2>2 DEF Numbered, ItemsShown
  <2>4. row' \in RowRecord /\ details' \in [Slots -> DetailRecord] /\ DetailsOfRows'
    BY <1>1, <1>5, Detaching DEF CheckDenied
  <2> QED  BY <1>1, <1>3, <2>1, <2>2, <2>3, <2>4 DEF HistoryInv, HistoryTypes
<1> QED  BY <1>4, <1>5

\* A detail that arrives is put into the cache under its own row, and is shown only
\* while the load still has that row.
LEMMA DetailStep ==
  ASSUME HistoryInv, NEW i \in Slots, DetailAnswer(i)
  PROVE  HistoryInv'
<1>1. /\ details \in [Slots -> DetailRecord] /\ row \in RowRecord /\ cache \subseteq Results
      /\ ops \in 0..MaxOps /\ details[i].phase = "sent"
      /\ UNCHANGED <<tab, history, checks, searches, expanded, ops>>
      /\ details' = [details EXCEPT ![i] = Idle]
  BY DEF HistoryInv, HistoryTypes, DetailAnswer, DetailArrives, DetailFails
<1>2. /\ history' \in HistoryRecord(ops')
      /\ searches' \in [Slots -> SearchRecord(ops')]
      /\ ItemsShown' /\ Numbered'
  <2>1. ops' \in 0..MaxOps /\ ops <= ops'
    BY <1>1, TabsAssumption
  <2> QED  BY <1>1, <2>1, Untouched
<1>3. details' \in [Slots -> DetailRecord]
  BY <1>1, IdleRequests
<1>4. details[i].row \in Results /\ details[i].attached \in BOOLEAN
  BY <1>1 DEF DetailRecord, Requests
<1>5. ASSUME NEW j \in Slots, details'[j].phase = "sent", details'[j].attached
      PROVE  details'[j].row = history'.items
  <2>1. CASE i = j
    BY <1>1, <1>5, <2>1, IdleRequests
  <2>2. CASE i # j
    BY <1>1, <1>5, <2>2 DEF HistoryInv, DetailsOfRows
  <2> QED  BY <2>1, <2>2
<1>6. CASE DetailArrives(i)
  <2>1. cache' = cache \cup {details[i].row}
    BY <1>6 DEF DetailArrives
  <2>2. CASE details[i].attached
    <3>1. row' = [row EXCEPT !.loaded = TRUE, !.content = "detail"]
      BY <1>6, <2>2 DEF DetailArrives
    <3>2. row' \in RowRecord
      BY <1>1, <3>1 DEF RowRecord
    <3>3. history'.items \in cache'
      BY <1>1, <2>1, <2>2 DEF HistoryInv, DetailsOfRows
    <3> QED  BY <1>1, <1>2, <1>3, <1>4, <1>5, <2>1, <3>2, <3>3
              DEF HistoryInv, HistoryTypes, DetailsOfRows
  <2>3. CASE ~details[i].attached
    <3>1. row' = row
      BY <1>6, <2>3 DEF DetailArrives
    <3>2. row'.content = "detail" => history'.items \in cache'
      BY <1>1, <2>1, <3>1 DEF HistoryInv, DetailsOfRows
    <3> QED  BY <1>1, <1>2, <1>3, <1>4, <1>5, <2>1, <3>1, <3>2
              DEF HistoryInv, HistoryTypes, DetailsOfRows
  <2> QED  BY <2>2, <2>3
<1>7. CASE DetailFails(i)
  <2>1. /\ cache' = cache
        /\ row' = IF details[i].attached THEN [row EXCEPT !.content = "error"] ELSE row
    BY <1>7 DEF DetailFails
  <2>2. row' \in RowRecord /\ (row'.content = "detail" => row.content = "detail")
    BY <1>1, <2>1 DEF RowRecord
  <2>3. row'.content = "detail" => history'.items \in cache'
    BY <1>1, <2>1, <2>2 DEF HistoryInv, DetailsOfRows
  <2> QED  BY <1>1, <1>2, <1>3, <1>5, <2>1, <2>2, <2>3
            DEF HistoryInv, HistoryTypes, DetailsOfRows
<1> QED  BY <1>6, <1>7 DEF DetailAnswer

\* The page as it is opened: nothing is asked for and nothing is shown.
LEMMA FreshHistory ==
  ASSUME NEW n \in Nat, NEW q \in Queries
  PROVE  /\ NewHistory(q) \in HistoryRecord(n)
         /\ NewHistory(q).view = "empty" /\ NewHistory(q).persistence = "unknown"
         /\ NoRequests \in [Slots -> SearchRecord(n)]
         /\ NoRequests \in [Slots -> CheckRecord] /\ NoRequests \in [Slots -> DetailRecord]
         /\ \A i \in Slots : NoRequests[i].phase = "idle"
<1>1. 1 \in 1..(n + 1)
  OBVIOUS
<1>2. NewHistory(q) \in HistoryRecord(n)
  BY <1>1 DEF NewHistory, HistoryRecord
<1> QED  BY <1>2, IdleRequests DEF NewHistory, NoRequests

LEMMA HistoryInvInit == HistoryInit => HistoryInv
<1> SUFFICES ASSUME HistoryInit  PROVE  HistoryInv
  OBVIOUS
<1>1. PICK q \in Queries : history = NewHistory(q)
  BY DEF HistoryInit
<1>2. 0 \in Nat /\ ops = 0 /\ ops \in 0..MaxOps
  BY TabsAssumption DEF HistoryInit
<1>3. /\ history \in HistoryRecord(ops)
      /\ history.view = "empty" /\ history.persistence = "unknown"
      /\ searches \in [Slots -> SearchRecord(ops)]
      /\ checks \in [Slots -> CheckRecord] /\ details \in [Slots -> DetailRecord]
      /\ \A i \in Slots : details[i].phase = "idle"
  BY <1>1, <1>2, FreshHistory DEF HistoryInit
<1>4. ItemsShown /\ Numbered
  BY <1>3 DEF ItemsShown, Numbered
<1>5. row \in RowRecord /\ DetailsOfRows
  BY <1>3, IdleRequests DEF HistoryInit, DetailsOfRows
<1> QED  BY <1>2, <1>3, <1>4, <1>5 DEF HistoryInit, HistoryInv, HistoryTypes

LEMMA ReloadStep ==
  ASSUME HistoryInv, ReloadHistory
  PROVE  HistoryInv'
<1>1. PICK q \in Queries : history' = NewHistory(q)
  BY DEF ReloadHistory
<1>2. ops' \in 0..MaxOps /\ ops' \in Nat
  BY OneOperation DEF ReloadHistory, HistoryInv, HistoryTypes
<1>3. /\ history' \in HistoryRecord(ops')
      /\ history'.view = "empty" /\ history'.persistence = "unknown"
      /\ searches' \in [Slots -> SearchRecord(ops')]
      /\ checks' \in [Slots -> CheckRecord] /\ details' \in [Slots -> DetailRecord]
      /\ \A i \in Slots : details'[i].phase = "idle"
  BY <1>1, <1>2, FreshHistory DEF ReloadHistory
<1>4. ItemsShown' /\ Numbered'
  BY <1>3 DEF ItemsShown, Numbered
<1>5. row' \in RowRecord /\ DetailsOfRows'
  BY <1>3, IdleRequests DEF ReloadHistory, DetailsOfRows
<1> QED  BY <1>2, <1>3, <1>4, <1>5 DEF ReloadHistory, HistoryInv, HistoryTypes

LEMMA HistoryInvStep == HistoryInv /\ [HistoryNext]_historyVars => HistoryInv'
<1> SUFFICES ASSUME HistoryInv, [HistoryNext]_historyVars  PROVE  HistoryInv'
  OBVIOUS
<1>1. CASE HistoryOperation
  BY <1>1, SearchStep, RenderStep, ToggleStep DEF HistoryOperation
<1>2. CASE HistoryAnswer
  BY <1>2, CheckStep, SearchArrivesStep, SearchFailsStep, DetailStep DEF HistoryAnswer, Answer
<1>3. CASE OpenHistory \/ LeaveHistory \/ ReloadHistory
  BY <1>3, OpenStep, LeaveStep, ReloadStep
<1>4. CASE UNCHANGED historyVars
  BY <1>4 DEF historyVars, HistoryInv, HistoryTypes, ItemsShown, Numbered, DetailsOfRows
<1> QED  BY <1>1, <1>2, <1>3, <1>4 DEF HistoryNext

LEMMA HistoryInvImplies ==
  HistoryInv => HistoryTypeOK /\ PageNumbersItems /\ ShownDetailIsCached
<1> SUFFICES ASSUME HistoryInv
             PROVE  HistoryTypeOK /\ PageNumbersItems /\ ShownDetailIsCached
  OBVIOUS
<1>1. ops \in Nat /\ MaxOps \in Nat /\ ops <= MaxOps
  BY TabsAssumption DEF HistoryInv, HistoryTypes
<1>2. /\ history \in HistoryRecord(MaxOps)
      /\ searches \in [Slots -> SearchRecord(MaxOps)]
  BY <1>1, MoreHistories, SearchesGrow DEF HistoryInv, HistoryTypes
<1>3. HistoryTypeOK
  <2>1. history \in [persistence : {"unknown", "on", "off"}, query : Queries, page : Pages,
                     hasMore : BOOLEAN, items : Results \cup {None}, failed : BOOLEAN,
                     pager : BOOLEAN, view : {"loading", "items", "empty", "error", "banner"}]
    BY <1>2 DEF HistoryRecord, Pages
  <2>2. searches \in [Slots -> Requests([phase : {"sent"}, query : Queries, page : Pages])]
    BY <1>2 DEF SearchRecord, Pages
  <2> QED
    BY <2>1, <2>2 DEF HistoryTypeOK, HistoryInv, HistoryTypes, RowRecord, CheckRecord, DetailRecord
<1>4. PageNumbersItems /\ ShownDetailIsCached
  BY DEF HistoryInv, Numbered, DetailsOfRows, PageNumbersItems, ShownDetailIsCached
<1> QED  BY <1>3, <1>4

-----------------------------------------------------------------------------
(* The page                                                                *)

\* Nothing but a switch and a reload changes the tab that is open.
LEMMA StreamKeepsTab == StreamStep => UNCHANGED tab
  BY DEF StreamStep, Load, ReadBuffer, LogsArrive, LoadFails, Refresh, RenderAgain, Scroll,
         ScrollReset, togglePolling, PollTick, toggleLogEntryDirect, Hide, ShowAgain, clearLogs,
         BufferCleared, ClearAnswered, ClearFails, LogWritten, saveState, page

LEMMA HistoryKeepsTab == HistoryOperation \/ HistoryAnswer => UNCHANGED tab
  BY DEF HistoryOperation, HistoryAnswer, Answer, DetailAnswer, SearchClicked, SearchEntered,
         prevHistoryPage, nextHistoryPage, Search, RenderHistoryAgain, toggleHistoryEntry,
         CheckAnswered, CheckDenied, SearchArrives, SearchFails, DetailArrives, DetailFails

LEMMA PageInit == LogsInit => StreamInv /\ HistoryInv
  BY StreamInvInit, HistoryInvInit DEF LogsInit

\* What the history tab does leaves the realtime tab alone, but for the count of operations.
LEMMA PageStreamStep ==
  StreamInv /\ HistoryInv /\ [LogsNext]_<<streamVars, historyVars>> => StreamInv'
<1> SUFFICES ASSUME StreamInv, HistoryInv, [LogsNext]_<<streamVars, historyVars>>  PROVE  StreamInv'
  OBVIOUS
<1>1. CASE switchTab \/ ReloadPage \/ StreamAlone
  BY <1>1, StreamInvStep DEF switchTab, ReloadPage, StreamAlone, StreamNext
<1>2. CASE HistoryAlone
  <2>1. HistoryInv'
    BY <1>2, HistoryInvStep DEF HistoryAlone, HistoryNext
  <2>2. ops' \in 0..MaxOps
    BY <2>1 DEF HistoryInv, HistoryTypes
  <2>3. UNCHANGED tab /\ UNCHANGED streamOwn
    BY <1>2, HistoryKeepsTab DEF HistoryAlone
  <2> QED  BY <2>2, <2>3 DEF streamOwn, view, StreamInv, StreamTypeOK, PollsAreWatched
<1>3. CASE UNCHANGED <<streamVars, historyVars>>
  BY <1>3, StreamInvStep
<1> QED  BY <1>1, <1>2, <1>3 DEF LogsNext

\* What the realtime tab does only counts operations.
LEMMA StreamCounts ==
  ASSUME StreamStep, ops \in 0..MaxOps
  PROVE  ops' \in 0..MaxOps /\ ops <= ops'
<1>1. \/ ops' = ops
      \/ ops' = ops + 1 /\ ops < MaxOps
  BY DEF StreamStep, Load, ReadBuffer, LogsArrive, LoadFails, Refresh, RenderAgain, Scroll,
         ScrollReset, togglePolling, PollTick, toggleLogEntryDirect, Hide, ShowAgain, clearLogs,
         BufferCleared, ClearAnswered, ClearFails, LogWritten, saveState,
         InRealtime, StreamUser, Operation
<1> QED  BY <1>1, TabsAssumption

LEMMA PageHistoryStep ==
  StreamInv /\ HistoryInv /\ [LogsNext]_<<streamVars, historyVars>> => HistoryInv'
<1> SUFFICES ASSUME StreamInv, HistoryInv, [LogsNext]_<<streamVars, historyVars>>  PROVE  HistoryInv'
  OBVIOUS
<1>1. CASE switchTab \/ ReloadPage \/ HistoryAlone
  BY <1>1, HistoryInvStep DEF switchTab, ReloadPage, HistoryAlone, HistoryNext
<1>2. CASE StreamAlone
  <2>1. ops' \in 0..MaxOps /\ ops <= ops'
    BY <1>2, StreamCounts DEF StreamAlone, HistoryInv, HistoryTypes
  <2>2. UNCHANGED <<tab, history, row, checks, searches, details, cache, expanded>>
    BY <1>2, StreamKeepsTab DEF StreamAlone, historyOwn
  <2> QED  BY <2>1, <2>2, Untouched DEF HistoryInv, HistoryTypes, DetailsOfRows
<1>3. CASE UNCHANGED <<streamVars, historyVars>>
  BY <1>3, HistoryInvStep
<1> QED  BY <1>1, <1>2, <1>3 DEF LogsNext

LEMMA PageInv == LogsSafety => [](StreamInv /\ HistoryInv)
  BY PageInit, PageStreamStep, PageHistoryStep, PTL DEF LogsSafety

\* The state of both tabs keeps its types: no page number leaves the range that the
\* buttons, Enter and the answers can reach.
THEOREM PageTypeCorrect == LogsSafety => [](StreamTypeOK /\ HistoryTypeOK)
<1>1. StreamInv /\ HistoryInv => StreamTypeOK /\ HistoryTypeOK
  BY HistoryInvImplies DEF StreamInv
<1> QED  BY <1>1, PageInv, PTL

\* Through tabs, hiding, reloads and entries that stop it, and whatever the history tab
\* does, the interval runs only while the tab is looked at, never twice, and the button
\* tells it unless its flag was restored by a reload.
THEOREM PollsWatched == LogsSafety => []PollsAreWatched
<1>1. StreamInv /\ HistoryInv => PollsAreWatched
  BY DEF StreamInv
<1> QED  BY <1>1, PageInv, PTL

\* Whatever order the answers of overlapping searches arrive in, when the last one has
\* arrived the page number is that of the items that are shown.
THEOREM PagesNumbered == LogsSafety => []PageNumbersItems
<1>1. StreamInv /\ HistoryInv => PageNumbersItems
  BY HistoryInvImplies
<1> QED  BY <1>1, PageInv, PTL

\* However late a detail arrives, a row shows only its own.
THEOREM DetailsCached == LogsSafety => []ShownDetailIsCached
<1>1. StreamInv /\ HistoryInv => ShownDetailIsCached
  BY HistoryInvImplies
<1> QED  BY <1>1, PageInv, PTL
=============================================================================
