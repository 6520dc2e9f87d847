SPECIFICATION FairSpec
CONSTANTS
    Kids = {k1, k2, k3}
    MaxCancels = 2
INVARIANTS ScopeOutlivesKids FailuresReported OutcomeExact NoLateTouch
PROPERTIES Drains Settles
CHECK_DEADLOCK FALSE
