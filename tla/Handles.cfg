\* Four data databases, batches of two, three storage objects one after the other.
CONSTANTS
    HashSize = 4
    Records = 5
    Step = 2
    MaxStarts = 3
SPECIFICATION Spec
INVARIANTS TypeOK NothingStaysLocked ServesWhole ReadIsRestored
PROPERTIES FaultsOutsideService
\* Nothing is started again beyond the bound, or after a fault.
CHECK_DEADLOCK FALSE
