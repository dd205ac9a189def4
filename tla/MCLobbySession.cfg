\* A visit ends when every client has been sent to the router, or has used its
\* selections: no deadlock check.
SPECIFICATION FairSpec
CONSTANTS
    a1 = a1
    l1 = l1
    l2 = l2
    c1 = c1
    c2 = c2
    c3 = c3
    NoAccount = NoAccount
    NoCharacter = NoCharacter
    NoSession = NoSession
    Accounts <- MCAccounts
    Logins <- MCLogins
    AccountOf <- MCAccountOf
    Characters <- MCCharacters
    OwnerOf <- MCOwnerOf
    Visitors <- MCVisitors
    MaxSelections = 2
    MaxPending = 1
    MaxFaults = 1
INVARIANTS
    TypeOK
    AdmittedWithMagicKey
PROPERTIES
    ImplementsSessions
    ToldIsAdmitted
CHECK_DEADLOCK FALSE
