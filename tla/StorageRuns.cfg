\* One run; orderly restarts; concurrent calls that only save.
CONSTANTS
    Names = {n1, n2}
    NoName = NoName
    Threads = {t1, t2}
    Windows = {w1, w2}
    MaxId = 3
    Kept = {n1}
    Environments = {{"del", "merge", "gc", "io", "setlate"},
                    {"alone", "del", "merge", "close"},
                    {"merge", "close"}}
SPECIFICATION Spec
INVARIANTS OwnPoints RecordsKept
PROPERTIES DeleteErases CountersSpec
SYMMETRY Symmetries
