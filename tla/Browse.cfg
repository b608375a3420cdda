\* Every request, every start, up to two changes during the reading.
CONSTANTS
    Sep = 3
    HashSize = 2
    ResultLimit = 2
    TTL = 1
    Names <- SmallNames
    Asked <- SmallAsked
    AskedSuffixes <- SmallSuffixes
    Depths = {1, 2}
    FirstWorth <- SmallWorth
    MaxWorth = 3
    Keys <- SmallKeys
    Limits = {0, 1, 2, 3}
    MaxNow = 2
    MaxChanges = 2
SPECIFICATION Spec
INVARIANTS NoneMissed NoneTwice WalkFindsAll GreatestFirst OnlyListed
\* The client stops when it has come to the end.
CHECK_DEADLOCK FALSE
