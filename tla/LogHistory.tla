----------------------------- MODULE LogHistory -----------------------------
(***************************************************************************)
(* The history tab of the logs page: it asks once whether the server       *)
(* stores entries, searches the stored ones page by page and loads the     *)
(* detail of a row when the row is expanded.  Searches and loads overlap,  *)
(* are answered in any order, fail, and end after their row is gone.       *)
(***************************************************************************)
EXTENDS LogTabs

CONSTANTS
  Queries,      \* filters of the search form
  PagesOf,      \* pages the server has for each of them
  MaxRequests   \* bound: requests of a kind under way

ASSUME HistoryAssumption ==
  /\ PagesOf \in [Queries -> Nat]
  /\ MaxRequests \in Nat

Slots == 1..MaxRequests
Pages == 1..(MaxOps + 1)
Results == Queries \X Pages

VARIABLES
  history,   \* historySearch, the form, what the container shows; in history.failed:
             \* the last search that ended has failed (history)
  row,       \* a row of the page that is shown: its arrow, its detail
  checks,    \* calls of checkPersistenceStatus under way
  searches,  \* calls of searchHistory under way
  details,   \* calls of loadHistoryDetail under way
  cache,     \* detailCache
  expanded   \* ui.expandedLogs

historyVars == <<tab, history, row, checks, searches, details, cache, expanded, ops>>

NoRow == [expanded |-> FALSE, loaded |-> FALSE, content |-> "hint"]

Send(slots, request) ==
  {[slots EXCEPT ![i] = request] :
     i \in {k \in Slots : /\ slots[k].phase = "idle"
                          /\ \A j \in 1..(k - 1) : slots[j].phase # "idle"}}

InHistory == Operation /\ tab = "history"

-----------------------------------------------------------------------------
(* Searching                                                               *)

\* Rows are made anew: a load under way fills a detail that is no longer shown.
DetachRows ==
  /\ row' = NoRow
  /\ details' = [i \in Slots |-> IF details[i].phase = "idle" THEN Idle
                                 ELSE [details[i] EXCEPT !.attached = FALSE]]

\* The spinner replaces the rows; the page and the form are read at once.
searchHistory(h) ==
  /\ IF h.persistence = "on"
       THEN /\ history' = [h EXCEPT !.view = "loading"]
            /\ searches' \in Send(searches,
                               [phase |-> "sent", query |-> h.query, page |-> h.page])
       ELSE /\ history' = [h EXCEPT !.view = "banner", !.pager = FALSE]
            /\ UNCHANGED searches
  /\ DetachRows

View(items) == IF items # None /\ items[2] <= PagesOf[items[1]] THEN "items" ELSE "empty"

\* A search without hits hides the pager.
Hits(items) == items # None /\ PagesOf[items[1]] > 0

\* Mutant of SearchArrives: the page asked for last is kept.
SearchArrives_KeepsPage(i) ==
  /\ searches[i].phase = "sent"
  /\ searches' = [searches EXCEPT ![i] = Idle]
  /\ LET q == searches[i].query
         p == searches[i].page
     IN  history' = [history EXCEPT !.hasMore = p < PagesOf[q], !.items = <<q, p>>,
                                    !.failed = FALSE, !.pager = Hits(<<q, p>>),
                                    !.view = View(<<q, p>>)]
  /\ DetachRows
  /\ UNCHANGED <<tab, checks, cache, expanded, ops>>

\* The server answers for any page; one behind the last has no items.
SearchArrives(i) ==
  /\ searches[i].phase = "sent"
  /\ searches' = [searches EXCEPT ![i] = Idle]
  /\ LET q == searches[i].query
         p == searches[i].page
     IN  history' = [history EXCEPT !.page = p, !.hasMore = p < PagesOf[q],
                                    !.items = <<q, p>>, !.failed = FALSE, !.pager = Hits(<<q, p>>),
                                    !.view = View(<<q, p>>)]
  /\ DetachRows
  /\ UNCHANGED <<tab, checks, cache, expanded, ops>>

\* The page asked for stays the current one.
SearchFails(i) ==
  /\ searches[i].phase = "sent"
  /\ searches' = [searches EXCEPT ![i] = Idle]
  /\ history' = [history EXCEPT !.view = "error", !.failed = TRUE]
  /\ DetachRows
  /\ UNCHANGED <<tab, checks, cache, expanded, ops>>

Search(h) ==
  /\ InHistory
  /\ searchHistory(h)
  /\ UNCHANGED <<tab, checks, cache, expanded>>

\* The button searches for the page that is current, whatever the form says now.
SearchClicked ==
  \E q \in Queries : Search([history EXCEPT !.query = q])

\* Enter in the form, and the refresh shortcut, go back to the first page.
SearchEntered ==
  \E q \in Queries : Search([history EXCEPT !.query = q, !.page = 1])

prevHistoryPage ==
  history.pager /\ history.page > 1 /\ Search([history EXCEPT !.page = @ - 1])

\* Allowed by the last answer: a page asked for meanwhile is not counted.
nextHistoryPage ==
  history.pager /\ history.hasMore /\ Search([history EXCEPT !.page = @ + 1])

\* A change of the locale renders the items of the last answer.
RenderHistoryAgain ==
  /\ InHistory
  /\ history' = [history EXCEPT !.view = View(history.items),
                                !.pager = Hits(history.items)]
  /\ DetachRows
  /\ UNCHANGED <<tab, checks, searches, cache, expanded>>

-----------------------------------------------------------------------------
(* Opening the tab                                                         *)

\* The first visit asks whether entries are stored; a visit while that question
\* is under way asks again.
OpenHistory ==
  /\ Operation /\ tab = "realtime"
  /\ tab' = "history"
  /\ CASE history.persistence = "unknown" ->
            /\ checks' \in Send(checks, [phase |-> "sent"])
            /\ UNCHANGED <<history, row, searches, details>>
       [] history.persistence = "on" -> searchHistory(history) /\ UNCHANGED checks
       [] OTHER -> UNCHANGED <<history, row, checks, searches, details>>
  /\ UNCHANGED <<cache, expanded>>

\* Entries are stored.  The tab may have been left meanwhile.
CheckAnswered(i) ==
  /\ checks[i].phase = "sent"
  /\ checks' = [checks EXCEPT ![i] = Idle]
  /\ searchHistory([history EXCEPT !.persistence = "on"])
  /\ UNCHANGED <<tab, cache, expanded, ops>>

\* They are not, or the question has failed: the page takes both for a no.
CheckDenied(i) ==
  /\ checks[i].phase = "sent"
  /\ checks' = [checks EXCEPT ![i] = Idle]
  /\ history' = [history EXCEPT !.persistence = "off", !.view = "banner", !.pager = FALSE]
  /\ DetachRows
  /\ UNCHANGED <<tab, searches, cache, expanded, ops>>

LeaveHistory ==
  /\ Operation /\ tab = "history"
  /\ tab' = "realtime"
  /\ UNCHANGED <<history, row, checks, searches, details, cache, expanded>>

-----------------------------------------------------------------------------
(* The detail of a row                                                     *)

\* Expanding loads the detail unless the row has it or the cache does.
ExpandRow(r) ==
  CASE row.loaded ->
         row' = [row EXCEPT !.expanded = TRUE] /\ UNCHANGED details
    [] ~row.loaded /\ r \in cache ->
         /\ row' = [expanded |-> TRUE, loaded |-> TRUE, content |-> "detail"]
         /\ UNCHANGED details
    [] OTHER ->
         /\ row' = [row EXCEPT !.expanded = TRUE, !.content = "loading"]
         /\ details' \in Send(details, [phase |-> "sent", row |-> r, attached |-> TRUE])

\* The click follows ui.expandedLogs, whatever the row shows.
toggleHistoryEntry ==
  /\ InHistory /\ history.view = "items"
  /\ LET r == history.items
     IN  IF r \in expanded
           THEN /\ expanded' = expanded \ {r}
                /\ row' = [row EXCEPT !.expanded = FALSE]
                /\ UNCHANGED details
           ELSE /\ expanded' = expanded \cup {r}
                /\ ExpandRow(r)
  /\ UNCHANGED <<tab, history, checks, searches, cache>>

\* Mutant of DetailArrives: the detail goes to the row that is shown now.
DetailArrives_AnyRow(i) ==
  /\ details[i].phase = "sent"
  /\ details' = [details EXCEPT ![i] = Idle]
  /\ cache' = cache \cup {details[i].row}
  /\ row' = [row EXCEPT !.loaded = TRUE, !.content = "detail"]
  /\ UNCHANGED <<tab, history, checks, searches, expanded, ops>>

DetailArrives(i) ==
  /\ details[i].phase = "sent"
  /\ details' = [details EXCEPT ![i] = Idle]
  /\ cache' = cache \cup {details[i].row}
  /\ row' = IF details[i].attached
              THEN [row EXCEPT !.loaded = TRUE, !.content = "detail"] ELSE row
  /\ UNCHANGED <<tab, history, checks, searches, expanded, ops>>

\* Mutant of DetailFails: the error is only logged.
DetailFails_Silently(i) ==
  /\ details[i].phase = "sent"
  /\ details' = [details EXCEPT ![i] = Idle]
  /\ UNCHANGED <<tab, history, row, checks, searches, cache, expanded, ops>>

\* A row that another load has filled stays marked as loaded.
DetailFails(i) ==
  /\ details[i].phase = "sent"
  /\ details' = [details EXCEPT ![i] = Idle]
  /\ row' = IF details[i].attached THEN [row EXCEPT !.content = "error"] ELSE row
  /\ UNCHANGED <<tab, history, checks, searches, cache, expanded, ops>>

-----------------------------------------------------------------------------
NewHistory(q) ==
  [persistence |-> "unknown", query |-> q, page |-> 1, hasMore |-> FALSE,
   items |-> None, failed |-> FALSE, pager |-> FALSE, view |-> "empty"]
NoRequests == [i \in Slots |-> Idle]

HistoryInit ==
  /\ tab = "realtime"
  /\ \E q \in Queries : history = NewHistory(q)
  /\ row = NoRow
  /\ checks = NoRequests /\ searches = NoRequests /\ details = NoRequests
  /\ cache = {} /\ expanded = {}
  /\ ops = 0

\* Nothing of this tab is saved, and nobody waits for the answers any more.
ReloadHistory ==
  /\ Operation
  /\ tab' = "realtime"
  /\ \E q \in Queries : history' = NewHistory(q)
  /\ row' = NoRow
  /\ checks' = NoRequests /\ searches' = NoRequests /\ details' = NoRequests
  /\ cache' = {} /\ expanded' = {}

Answer(i) == SearchArrives(i) \/ SearchFails(i)
DetailAnswer(i) == DetailArrives(i) \/ DetailFails(i)

HistoryOperation ==
  \/ SearchClicked \/ SearchEntered \/ prevHistoryPage \/ nextHistoryPage
  \/ RenderHistoryAgain \/ toggleHistoryEntry

HistoryAnswer ==
  \E i \in Slots : CheckAnswered(i) \/ CheckDenied(i) \/ Answer(i) \/ DetailAnswer(i)

\* Every request is answered or runs into the client's timeout of 30 seconds.
HistoryFairness == \A i \in Slots : WF_historyVars(Answer(i)) /\ WF_historyVars(DetailAnswer(i))

-----------------------------------------------------------------------------
(* What the tab promises                                                   *)

Requests(fields) == [phase : {"idle"}] \cup fields

\* The shapes of the state; a page number comes from a button, Enter or an answer.
HistoryTypeOK ==
  /\ tab \in {"realtime", "history"}
  /\ history \in [persistence : {"unknown", "on", "off"}, query : Queries, page : Pages,
                  hasMore : BOOLEAN, items : Results \cup {None}, failed : BOOLEAN,
                  pager : BOOLEAN, view : {"loading", "items", "empty", "error", "banner"}]
  /\ row \in [expanded : BOOLEAN, loaded : BOOLEAN,
              content : {"hint", "loading", "detail", "error"}]
  /\ checks \in [Slots -> Requests([phase : {"sent"}])]
  /\ searches \in [Slots -> Requests([phase : {"sent"}, query : Queries, page : Pages])]
  /\ details \in [Slots -> Requests([phase : {"sent"}, row : Results, attached : BOOLEAN])]
  /\ cache \subseteq Results /\ expanded \subseteq Results
  /\ ops \in 0..MaxOps

\* Whatever order the answers of overlapping searches arrive in: when the last one
\* has arrived, the page number is that of the items, and the next and the
\* previous page are counted from what is shown.  (A page that was taken to be off
\* counts pages without a search.)
PageNumbersItems ==
  /\ history.persistence = "on" /\ history.view = "items" /\ ~history.failed
  /\ \A i \in Slots : searches[i].phase = "idle"
  => history.items[2] = history.page

\* A detail is shown in its own row only, however late it arrives: what a row shows
\* is in the cache under that row's id.
ShownDetailIsCached == row.content = "detail" => history.items \in cache

\* No spinner stays, neither that of the list nor that of a row.
SpinnersEnd ==
  /\ history.view = "loading" ~> history.view # "loading"
  /\ row.content = "loading" ~> row.content # "loading"
=============================================================================
