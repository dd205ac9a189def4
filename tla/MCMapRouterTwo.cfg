SPECIFICATION Spec
CONSTANTS
    c1 = c1
    c2 = c2
    NoClient = NoClient
    Clients <- MCClients
    Honest = {c1}
    IdSpace = 3
    Sizes <- MCSizes
    MaxPayload = 2
    MaxQueued <- MCMaxQueued
    MaxFailures = 1
INVARIANTS
    TypeOK
    NothingLost
    InOrder
    NoSkippedId
    OnceWithoutFailure
