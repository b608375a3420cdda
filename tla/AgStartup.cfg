\* Four instances, every mix of mtload, any of them may fail to open.
CONSTANTS
    N = 4
SPECIFICATION FairSpec
INVARIANTS TypeOK ReadyMeansLoaded CounterCountsLoading StopFindsStorage
PROPERTIES GetsReady
\* A service with a failed instance may wait for it forever.
CHECK_DEADLOCK FALSE
