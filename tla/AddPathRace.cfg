\* Two callers of the same counter: windows already closed.
CONSTANTS
    Threads = {t1, t2}
    Unreadable = Unreadable
    MaxWindow = 2
    MaxSamples = 4
    Environments = {{}}
SPECIFICATION Spec
INVARIANTS ClosedComplete
SYMMETRY ThreadSymmetry
\* Clients may stop sending samples.
CHECK_DEADLOCK FALSE
