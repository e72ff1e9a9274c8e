SPECIFICATION FairSpec
CONSTANTS
    Text <- MCText
    Lists <- MCLists
    StateTables <- MCStateTables
    Flags <- MCFlags
    Wholes <- MCWholes
    Decimals <- MCDecimals
    Null <- MCNull
    Templates <- MCTemplates
    Placeholder <- MCPlaceholder
    Rendering <- MCRendering
    Epoch <- MCEpoch
    Now <- MCNow
    Scenarios <- MCScenarios
    Editions <- MCEditions
    MaxRuns = 2
    MaxPasses = 2
    MaxElapsed = 1
CHECK_DEADLOCK FALSE
INVARIANTS
    TypeOK
    ReplayInOrder
    NotBefore
    AllRowsOrNone
    ValueUnderItsMetadata
    RetainedIsMetadata
    AtMostOneAfterCancel
    InterruptIsClean
PROPERTIES
    SteadyRowsRender
    CancelledStops
    OnceEnds
