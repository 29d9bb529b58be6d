----------------------- MODULE MCNotificationSettings -----------------------
\* Two platforms, the first with one endpoint.
EXTENDS NotificationSettings

CONSTANTS slack, feishu, u1, u2, plain, keyed, waf

MCPlatforms == {slack, feishu}
MCUrls == {u1, u2}
MCSecrets == {plain, keyed}
MCEvents == {waf}
MCGlobalEvents == {waf}
MCTunings == {0, 1}
MCInitialSettings ==
  [endpoints |-> [p \in MCPlatforms |->
                    IF p = slack THEN <<[url |-> u1, secret |-> plain]>> ELSE <<>>],
   events |-> [p \in MCPlatforms |-> FollowGlobal], tuning |-> 0]
=============================================================================
