SPECIFICATION Spec
CONSTANTS
    Primary = primary
    Failover = failover
    None = none
    MessageTask = {"message"}
    Listening <- PrimaryOnly
    MaxTokens = 2
    MaxMessages = 1
    MaxFaults = 1
INVARIANTS
    TypeOK
    TokenIsKey
PROPERTIES
    KeepsPromise
    StreamReturns
