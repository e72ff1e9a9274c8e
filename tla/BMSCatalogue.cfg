SPECIFICATION LoadSpec
CONSTANTS
    Text <- MCText
    Lists <- MCLists
    StateTables <- MCStateTables
    Flags <- MCFlags
    Wholes <- MCWholes
    Decimals <- MCDecimals
    Null <- MCNull
    Templates <- MCTemplates
    Placeholder <- MCPlaceholder
    Rendering <- MCRendering
    Epoch <- MCEpoch
    Now <- MCNow
    Scenarios <- MCScenarios
    Editions <- MCEditions
    MaxRuns = 1
    MaxPasses = 1
    MaxElapsed = 1
CHECK_DEADLOCK FALSE
INVARIANTS
    Unambiguous
    NamesItsPoint
    ValueHasMetadata
    MetadataHasValue
