\* Everything the environment can do, at once.
CONSTANTS
    Names = {kept, other}
    NoName = NoName
    Threads = {t1, t2}
    Windows = {w}
    MaxId = 2
    Kept = {kept}
    Environments = {{"del", "merge", "gc", "ttl", "close", "undrained", "crash", "io"}}
SPECIFICATION Spec
INVARIANTS TypeOK IdsInjective IdsDisjoint PointsSurvive
SYMMETRY Symmetries
