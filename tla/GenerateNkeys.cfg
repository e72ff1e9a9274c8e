SPECIFICATION Spec
CONSTANTS
    CpcIds = {"1", "2"}
    Accounts = {"launchlayer"}
    Invocations <- MCInvocations
    MaxRuns = 2
    MaxInterrupts = 1
    MaxFailures = 1
CHECK_DEADLOCK FALSE
INVARIANTS
    TypeOK
    CompletedLeavesAgree
    CopiesAgree
    CompleteUnlessStruck
PROPERTY
    Additive
