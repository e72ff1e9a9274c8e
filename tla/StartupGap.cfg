CONSTANTS
    Timers = {t1, t2}
    NoTimer = NoTimer
    Main = Main
    MaxVersions = 2
    LoadsBeatDebounce = TRUE
SPECIFICATION Spec
INVARIANT CaughtUp
CHECK_DEADLOCK FALSE
