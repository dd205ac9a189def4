\* The bound on rows ends the model where the tables would go on growing.
SPECIFICATION Spec
CONSTANTS
    a1 = a1
    a2 = a2
    v1 = v1
    v2 = v2
    d1 = d1
    NoAccount = NoAccount
    NoName = NoName
    Accounts = {a1}
    Viewers = {v1}
    Selectors = {d1}
    AccountOf <- OneAccountAndData
    Names = {n1, n2}
    MaxContentIDsPerAccount = 2
    MaxCharacters = 3
SYMMETRY Symmetry
PROPERTIES
    DeletedStaysDeleted
CHECK_DEADLOCK FALSE
