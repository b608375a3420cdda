\* Two names; no collection, an interval as long as the TTL and a longer one;
\* restored keys older and younger than the clock, and the gc timer's fairness.
\* No symmetry: one of the properties is about progress.
CONSTANTS
    Names = {n1, n2}
    TTL = 2
    GcIntervals = {0, 2, 3}
    Resolution = 2
    StoredTs = {0, 5, 8}
    MaxTime = 6
    MaxId = 4
SPECIFICATION FairSpec
INVARIANTS TypeOK IndexesAgree IdsUnique LagBounded
PROPERTIES DelAnswersItsId GcWindow RegistrySpec StaleKeysCollected
