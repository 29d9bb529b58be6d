------------------------------ MODULE LogsPage ------------------------------
(***************************************************************************)
(* The logs page: its two tabs side by side.  Switching is one step of     *)
(* both, and so is a reload; otherwise each goes on by itself, and answers *)
(* to the one arrive while the other is open or the page is hidden.        *)
(***************************************************************************)
EXTENDS LogStream, LogHistory

streamOwn ==
  <<hidden, polling, restored, saved, buffer, view, loads, clear>>
historyOwn ==
  <<history, row, checks, searches, details, cache, expanded>>

switchTab ==
  \/ LeaveRealtime /\ OpenHistory
  \/ OpenRealtime /\ LeaveHistory

ReloadPage == Reload /\ ReloadHistory

StreamAlone == StreamStep /\ UNCHANGED historyOwn

\* The user of a hidden page does nothing; answers arrive all the same.
HistoryAlone ==
  /\ HistoryAnswer \/ (~hidden /\ HistoryOperation)
  /\ UNCHANGED streamOwn

LogsInit == StreamInit /\ HistoryInit

LogsNext == switchTab \/ ReloadPage \/ StreamAlone \/ HistoryAlone

LogsSafety == LogsInit /\ [][LogsNext]_<<streamVars, historyVars>>
LogsSpec == LogsSafety /\ HistoryFairness
=============================================================================
