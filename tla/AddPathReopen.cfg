\* One caller and a stop: the counts after it.
CONSTANTS
    Threads = {t1}
    Unreadable = Unreadable
    MaxWindow = 2
    MaxSamples = 4
    Environments = {{"alone", "close"}}
SPECIFICATION Spec
INVARIANTS RestartContinues
SYMMETRY ThreadSymmetry
\* Clients may stop sending samples.
CHECK_DEADLOCK FALSE
