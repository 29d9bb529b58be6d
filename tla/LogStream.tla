----------------------------- MODULE LogStream -----------------------------
(***************************************************************************)
(* The realtime tab of the logs page: it polls the server's buffer of      *)
(* entries, renders long lists by their visible range and clears the       *)
(* buffer.  Requests overlap and may fail; the tab is left, the page is    *)
(* hidden, shown and reloaded, and what it saves survives the reload.      *)
(***************************************************************************)
EXTENDS LogTabs

CONSTANTS
  VirtualFrom,  \* entries rendered without virtual scrolling (100 in the code)
  MaxWritten,   \* bound: entries the server writes
  MaxLoads      \* bound: calls of loadLogs under way

ASSUME StreamAssumption ==
  VirtualFrom \in Nat /\ MaxWritten \in Nat /\ MaxLoads \in Nat \ {0}

Loads == 1..MaxLoads

VARIABLES
  hidden,    \* document.hidden
  polling,   \* filters.logs.autoRefresh, pollTimer, the intervals that run,
             \* wasPollingBeforeHidden
  saved,     \* what saveState has stored: autoRefresh and the search text
  buffer,    \* server: entries written, and those of them cleared
  search,    \* the search text: empty, which matches any entry, or one that matches nothing
  logs,      \* data.logs: the buffer it was read from
  list,      \* what #log-entries shows
  scroll,    \* virtualScroll.scrollTop: at the top or below
  range,     \* the scroll position whose rows were rendered last
  loads,     \* calls of loadLogs under way
  clear,     \* the DELETE under way
  entryExpanded, \* an entry is in ui.expandedLogs
  restored   \* history: autoRefresh stems from a reload

page == <<tab, hidden, polling, restored>>
view == <<search, logs, list, scroll, range, entryExpanded>>
streamVars == <<page, saved, buffer, view, loads, clear, ops>>

StreamUser == Operation /\ ~hidden
InRealtime == StreamUser /\ tab = "realtime"

-----------------------------------------------------------------------------
(* The list                                                                *)

\* getFilteredLogs: an empty text keeps every entry, one that matches nothing none.
getFilteredLogs(read, text) == IF text = "any" THEN read.written - read.cleared ELSE 0

\* The rows of a long list are rendered only if the visible range has moved since
\* the last rendering, though the container is new.
renderLogs ==
  LET n == getFilteredLogs(logs', search')
  IN  IF n <= VirtualFrom
        THEN /\ list' = IF n = 0 THEN "empty" ELSE "entries"
             /\ UNCHANGED range
        ELSE /\ list' = IF range = scroll THEN "blank" ELSE "virtual"
             /\ range' = scroll

\* The spinner replaces the entries until the answer is there.
loadLogs ==
  \E i \in Loads :
    /\ loads[i].phase = "idle" /\ \A j \in 1..(i - 1) : loads[j].phase # "idle"
    /\ loads' = [loads EXCEPT ![i] = [phase |-> "sent"]]
    /\ list' = "loading"

ReadBuffer(i) ==
  /\ loads[i].phase = "sent"
  /\ loads' = [loads EXCEPT ![i] = [phase |-> "read", at |-> buffer]]
  /\ UNCHANGED <<page, saved, buffer, view, clear, ops>>

LogsArrive(i) ==
  /\ loads[i].phase = "read"
  /\ loads' = [loads EXCEPT ![i] = Idle]
  /\ logs' = loads[i].at
  /\ UNCHANGED search
  /\ renderLogs
  /\ UNCHANGED <<page, saved, buffer, scroll, clear, entryExpanded, ops>>

LoadFails(i) ==
  /\ loads[i].phase # "idle"
  /\ loads' = [loads EXCEPT ![i] = Idle]
  /\ list' = "error"
  /\ UNCHANGED <<page, saved, buffer, search, logs, scroll, range, clear, entryExpanded, ops>>

Refresh ==
  /\ InRealtime
  /\ loadLogs
  /\ UNCHANGED <<page, saved, buffer, search, logs, scroll, range, clear, entryExpanded>>

\* A change of the search text or of the locale renders the entries again, that of the
\* text 300 milliseconds later, when the tab may have been left and the page hidden.
RenderAgain ==
  /\ Operation
  /\ search' \in {"any", "nothing"}
  /\ UNCHANGED logs
  /\ renderLogs
  /\ UNCHANGED <<page, saved, buffer, scroll, loads, clear, entryExpanded>>

\* updateVisibleRange: the rows go into the last long list, shown or not.
Scroll ==
  /\ InRealtime
  /\ list \in {"entries", "virtual", "blank"}
  /\ scroll' = 1 - scroll
  /\ IF range = None
       THEN UNCHANGED <<range, list>>
       ELSE range' = scroll' /\ list' = IF list = "blank" THEN "virtual" ELSE list
  /\ UNCHANGED <<page, saved, buffer, search, logs, loads, clear, entryExpanded>>

\* A spinner or a message has nothing to scroll: the browser goes to the top.
ScrollReset ==
  /\ list \in {"loading", "empty", "error"} /\ scroll = 1
  /\ scroll' = 0
  /\ range' = IF range = None THEN None ELSE 0
  /\ UNCHANGED <<page, saved, buffer, search, logs, list, loads, clear, entryExpanded, ops>>

-----------------------------------------------------------------------------
(* Polling                                                                 *)

\* An interval that runs is replaced; the entries are loaded at once.
startPolling ==
  /\ polling' = [polling EXCEPT !.autoRefresh = TRUE, !.timer = TRUE,
                                !.intervals = (IF polling.timer THEN @ - 1 ELSE @) + 1]
  /\ restored' = FALSE
  /\ loadLogs

stopPolling ==
  /\ polling' = [autoRefresh |-> FALSE, timer |-> FALSE, was |-> FALSE,
                 intervals |-> IF polling.timer THEN polling.intervals - 1
                                                ELSE polling.intervals]
  /\ restored' = FALSE

togglePolling ==
  /\ InRealtime
  /\ IF polling.autoRefresh
       THEN stopPolling /\ UNCHANGED <<loads, list>>
       ELSE startPolling
  /\ UNCHANGED <<tab, hidden, saved, buffer, search, logs, scroll, range, clear,
                 entryExpanded>>

PollTick ==
  /\ polling.intervals > 0
  /\ loadLogs
  /\ UNCHANGED <<page, saved, buffer, search, logs, scroll, range, clear, entryExpanded, ops>>

\* Expanding an entry stops the polling that would replace it.
toggleLogEntryDirect ==
  /\ InRealtime /\ list \in {"entries", "virtual"}
  /\ entryExpanded' = ~entryExpanded
  /\ IF ~entryExpanded /\ polling.autoRefresh
       THEN stopPolling
       ELSE UNCHANGED <<polling, restored>>
  /\ UNCHANGED <<tab, hidden, saved, buffer, search, logs, list, scroll, range,
                 loads, clear>>

\* Mutant of Hide: the page polls on in the background.
Hide_Polls ==
  /\ StreamUser
  /\ hidden' = TRUE
  /\ UNCHANGED <<tab, polling, restored, saved, buffer, view, loads, clear>>

\* The flag that polling was active is taken back by stopPolling at once.
Hide ==
  /\ StreamUser
  /\ hidden' = TRUE
  /\ IF polling.timer THEN stopPolling ELSE UNCHANGED <<polling, restored>>
  /\ UNCHANGED <<tab, saved, buffer, view, loads, clear>>

ShowAgain ==
  /\ hidden
  /\ hidden' = FALSE
  /\ IF polling.was
       THEN startPolling
       ELSE UNCHANGED <<polling, restored, loads, list>>
  /\ UNCHANGED <<tab, saved, buffer, search, logs, scroll, range, clear, entryExpanded, ops>>

\* The history tab is opened; what it does is in LogHistory.
LeaveRealtime ==
  /\ InRealtime
  /\ tab' = "history"
  /\ stopPolling
  /\ UNCHANGED <<hidden, saved, buffer, view, loads, clear>>

OpenRealtime ==
  /\ StreamUser /\ tab = "history"
  /\ tab' = "realtime"
  /\ IF polling.autoRefresh
       THEN startPolling
       ELSE UNCHANGED <<polling, restored, loads, list>>
  /\ UNCHANGED <<hidden, saved, buffer, search, logs, scroll, range, clear, entryExpanded>>

-----------------------------------------------------------------------------
(* Clearing the buffer                                                     *)

clearLogs ==
  /\ InRealtime
  /\ clear = "none"
  /\ clear' = "sent"
  /\ UNCHANGED <<page, saved, buffer, view, loads>>

BufferCleared ==
  /\ clear = "sent"
  /\ clear' = "done"
  /\ buffer' = [buffer EXCEPT !.cleared = buffer.written]
  /\ UNCHANGED <<page, saved, view, loads, ops>>

ClearAnswered ==
  /\ clear = "done"
  /\ clear' = "none"
  /\ logs' = [written |-> 0, cleared |-> 0]
  /\ UNCHANGED search
  /\ renderLogs
  /\ UNCHANGED <<page, saved, buffer, scroll, loads, entryExpanded, ops>>

ClearFails ==
  /\ clear # "none"
  /\ clear' = "none"
  /\ UNCHANGED <<page, saved, buffer, view, loads, ops>>

LogWritten ==
  /\ buffer.written < MaxWritten
  /\ buffer' = [buffer EXCEPT !.written = @ + 1]
  /\ UNCHANGED <<page, saved, view, loads, clear, ops>>

-----------------------------------------------------------------------------
(* Saving the state and reloading the page                                 *)

saveState ==
  /\ saved' = [autoRefresh |-> polling.autoRefresh, search |-> search]
  /\ saved' # saved
  /\ UNCHANGED <<page, buffer, view, loads, clear, ops>>

OneLoad == [[i \in Loads |-> Idle] EXCEPT ![1] = [phase |-> "sent"]]
NoLogs == [written |-> 0, cleared |-> 0]
NotPolling(auto) == [autoRefresh |-> auto, timer |-> FALSE, intervals |-> 0, was |-> FALSE]

\* The page starts again from what was saved: the flag comes back, the interval
\* does not.  What a request that is under way still does to the server is done.
Reload ==
  /\ StreamUser
  /\ polling' = NotPolling(saved.autoRefresh) /\ restored' = saved.autoRefresh
  /\ search' = saved.search
  /\ tab' = "realtime" /\ list' = "loading" /\ scroll' = 0 /\ range' = None
  /\ logs' = NoLogs /\ loads' = OneLoad /\ clear' = "none" /\ entryExpanded' = FALSE
  /\ buffer' \in {buffer} \cup
       (IF clear = "sent" THEN {[buffer EXCEPT !.cleared = buffer.written]} ELSE {})
  /\ UNCHANGED <<hidden, saved>>

\* A page that is opened loads the entries once.
StreamInit ==
  /\ polling = NotPolling(FALSE) /\ restored = FALSE
  /\ saved = [autoRefresh |-> FALSE, search |-> "any"]
  /\ search = "any" /\ buffer = NoLogs
  /\ tab = "realtime" /\ hidden = FALSE
  /\ list = "loading" /\ scroll = 0 /\ range = None
  /\ logs = NoLogs /\ loads = OneLoad /\ clear = "none" /\ entryExpanded = FALSE
  /\ ops = 0

Load(i) == ReadBuffer(i) \/ LogsArrive(i) \/ LoadFails(i)

\* What happens while the tab that is open stays open.
StreamStep ==
  \/ \E i \in Loads : Load(i)
  \/ Refresh \/ RenderAgain \/ Scroll \/ ScrollReset
  \/ togglePolling \/ PollTick \/ toggleLogEntryDirect
  \/ Hide \/ ShowAgain
  \/ clearLogs \/ BufferCleared \/ ClearAnswered \/ ClearFails \/ LogWritten
  \/ saveState

-----------------------------------------------------------------------------
(* What the tab promises                                                   *)

Snapshots == {b \in [written : 0..MaxWritten, cleared : 0..MaxWritten] : b.cleared <= b.written}

StreamTypeOK ==
  /\ tab \in {"realtime", "history"}
  /\ hidden \in BOOLEAN /\ entryExpanded \in BOOLEAN
  /\ restored \in BOOLEAN
  /\ polling \in [autoRefresh : BOOLEAN, timer : BOOLEAN, intervals : 0..1, was : BOOLEAN]
  /\ saved \in [autoRefresh : BOOLEAN, search : {"any", "nothing"}]
  /\ search \in {"any", "nothing"}
  /\ buffer \in Snapshots /\ logs \in Snapshots
  /\ list \in {"loading", "entries", "virtual", "blank", "empty", "error"}
  /\ range \in {None, 0, 1} /\ scroll \in 0..1
  /\ loads \in [Loads -> [phase : {"idle", "sent"}] \cup [phase : {"read"}, at : Snapshots]]
  /\ clear \in {"none", "sent", "done"}
  /\ ops \in 0..MaxOps

\* Through tabs, hiding, reloads and entries that stop it, an interval runs only
\* while the tab is looked at, never two, and the button that says so is right
\* unless its flag was restored by a reload.
PollsAreWatched ==
  /\ polling.intervals = IF polling.timer THEN 1 ELSE 0
  /\ polling.timer => polling.autoRefresh /\ tab = "realtime" /\ ~hidden
  /\ polling.autoRefresh => polling.timer \/ restored

=============================================================================
