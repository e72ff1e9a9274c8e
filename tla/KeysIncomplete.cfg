SPECIFICATION Spec
CONSTANTS
    CpcIds = {"1", "2"}
    Accounts = {"launchlayer"}
    Invocations <- MCInvocations
    MaxRuns = 2
    MaxInterrupts = 0
    MaxFailures = 1
CHECK_DEADLOCK FALSE
INVARIANT CompletedIsComplete
