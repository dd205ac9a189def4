\* A visit ends when every client has been sent to the router, or has used its
\* selections: no deadlock check.
SPECIFICATION Spec
CONSTANTS
    a1 = a1
    l1 = l1
    l2 = l2
    c1 = c1
    c2 = c2
    c3 = c3
    NoAccount = NoAccount
    NoCharacter = NoCharacter
    NoSession = NoSession
    Accounts <- MCAccounts
    Logins <- MCLogins
    AccountOf <- MCAccountOf
    Characters <- MCCharacters
    OwnerOf <- MCOwnerOf
    Visitors <- MCVisitors
    MaxSelections = 1
    MaxPending = 1
    MaxFaults = 0
PROPERTIES
    PreviousLoginsCleared
CHECK_DEADLOCK FALSE
