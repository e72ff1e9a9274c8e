CONSTANTS
    Timers = {t1, t2}
    NoTimer = NoTimer
    Main = Main
    MaxVersions = 3
    LoadsBeatDebounce = TRUE
SPECIFICATION FairSpec
PROPERTY EventuallyServed
CHECK_DEADLOCK FALSE
