SPECIFICATION Spec
CONSTANTS
    c1 = c1
    c2 = c2
    name = name
    spacedName = spacedName
    old = old
    spacedOld = spacedOld
    Connections = {c1, c2}
    Names = {name, spacedName}
    Passwords = {old, spacedOld}
    NoPassword = NoPassword
    TrimSpace <- Trim
    LongEnough = {name, old}
    AccountCreationEnabled = TRUE
    MaxCodes = 4
SYMMETRY Symmetry
INVARIANTS
    TypeOK
    PasswordProven
    SecondFactorProven
    BanRespected
    ValidatedIsUsable
    CreatedOnce
PROPERTIES
    ProtectionStays
