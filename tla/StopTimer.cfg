CONSTANTS
    Timers = {t1, t2}
    NoTimer = NoTimer
    Main = Main
    MaxVersions = 2
    LoadsBeatDebounce = TRUE
SPECIFICATION Spec
INVARIANT NoTimerAfterStop
CHECK_DEADLOCK FALSE
