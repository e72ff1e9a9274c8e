CONSTANTS
    Profiles <- MCProfiles
    Grantable <- MCGrantable
    Requests <- MCRequests
    Build <- MCBuild
    Deployments <- AllDeployments
    MaxVersions = 2
    NotFound = NotFound
    NoToken = NoToken
    NoScope = NoScope
    NoChain = NoChain
    EmptyChain = EmptyChain
    NoRequest = NoRequest
    Undecided = Undecided
    Rejected = Rejected
    CAPool = TRUE
SPECIFICATION FairSpec
INVARIANTS
    TypeOK
    ErrorsMatchAnswers
    NoDowngrade
PROPERTIES
    ImplementsDecision
    EveryRequestEnds
