\* One call at a time with stops and crashes; concurrent calls with failing
\* databases, with disable_merge and without; concurrent calls that merge, with
\* stops and crashes; compactions of values, some of which cannot be read.
CONSTANTS
    Threads = {t1, t2}
    Unreadable = Unreadable
    MaxWindow = 3
    MaxSamples = 4
    Environments = {{"alone", "close", "crash"}, {"close", "crash", "io"},
                    {"close", "crash", "io", "setlate"}, {"merge", "close", "crash"},
                    {"alone", "compact", "spoil"}}
SPECIFICATION Spec
INVARIANTS TypeOK WindowsComplete RecordKnowsPoints NeverInvents RecordTruthful
PROPERTIES CompactionKeepsReads
SYMMETRY ThreadSymmetry
\* Clients may stop sending samples.
CHECK_DEADLOCK FALSE
