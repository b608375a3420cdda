\* One caller, orderly restarts, collection of stale keys: the ids of collected
\* keys come back while their points are still there.
CONSTANTS
    Names = {n1, n2}
    NoName = NoName
    Threads = {t1}
    Windows = {w1}
    MaxId = 3
    Kept = {}
    Environments = {{"del", "gc", "close"}}
SPECIFICATION Spec
INVARIANTS OwnPoints
SYMMETRY Symmetries
