CONSTANTS
    Timers = {t1, t2, t3}
    NoTimer = NoTimer
    Main = Main
    MaxVersions = 3
    LoadsBeatDebounce = TRUE
SPECIFICATION Spec
SYMMETRY TimerSymmetry
INVARIANTS
    TypeOK
    Converged
    ServesAccepted
PROPERTIES
    ImplementsStore
    ClosedStaysQuiet
CHECK_DEADLOCK FALSE
