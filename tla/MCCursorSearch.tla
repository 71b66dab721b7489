--------------------------- MODULE MCCursorSearch ---------------------------
EXTENDS CursorSearch

Of(s, f) == [search : {s}, field : {f}, direction : Direction, size : {0, 1}]

AllQueries ==
    UNION {Of(s, "value") : s \in Search}
      \cup Of("autoSyncConfig", "enabled") \cup Of("syncJob", "targetDate")

JobQueries == Of("syncJob", "value") \cup Of("syncJob", "targetDate")
=============================================================================
