SPECIFICATION FairSpec
CONSTANTS
    c1 = c1
    c2 = c2
    Clients = {c1, c2}
    NoClient = NoClient
    Burst <- MCBurst
    MaxLogins = 2
    MaxFailures = 2
INVARIANTS
    TypeOK
    BurstsInOrder
    
    
PROPERTIES
    LoginAnswered
    ShutdownReturns
