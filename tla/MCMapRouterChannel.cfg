SPECIFICATION FairSpec
CONSTANTS
    c1 = c1
    c2 = c2
    NoClient = NoClient
    Clients <- MCClients
    Honest = {c1, c2}
    IdSpace = 2
    Sizes <- MCMixedSizes
    MaxPayload = 2
    MaxQueued <- MCFewQueued
    MaxFailures = 1
PROPERTIES
    ImplementsChannel
    EverythingDelivered
