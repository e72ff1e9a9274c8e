CONSTANTS
    Timers = {t1, t2, t3}
    NoTimer = NoTimer
    Main = Main
    MaxVersions = 3
    LoadsBeatDebounce = FALSE
SPECIFICATION Spec
SYMMETRY TimerSymmetry
INVARIANT Converged
CHECK_DEADLOCK FALSE
