----------------------------- MODULE MCLogsPage -----------------------------
\* Two queries, one whose entries fill two pages and one without hits.
EXTENDS LogsPage

CONSTANTS q1, q2

TwoQueries == {q1, q2}
TwoAndNone == [q \in TwoQueries |-> IF q = q1 THEN 2 ELSE 0]
=============================================================================
