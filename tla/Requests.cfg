\* Two threads, two instances behind rt_domain, a map with room for one name.
CONSTANTS
    Names = {n1, n2}
    Threads = {t1, t2}
    N = 2
    Limit = 1
    MaxItems = 2
    MaxRequests = 3
SPECIFICATION Spec
INVARIANTS TypeOK EachComesOnce StatusTruthful
SYMMETRY Symmetries
\* Clients may stop sending requests.
CHECK_DEADLOCK FALSE
