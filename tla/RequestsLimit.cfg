\* multi_add of rt_domain beyond the limit of names.
CONSTANTS
    Names = {n1, n2}
    Threads = {t1, t2}
    N = 2
    Limit = 1
    MaxItems = 2
    MaxRequests = 2
SPECIFICATION Spec
INVARIANTS MultiAddTellsLimit
SYMMETRY Symmetries
\* Clients may stop sending requests.
CHECK_DEADLOCK FALSE
