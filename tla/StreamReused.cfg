SPECIFICATION Spec
CONSTANTS
    MaxConnects = 2
    MaxTx = 3
    MaxForeign = 2
    RetiredCapacity = 2
    TokenCapacity = 2
INVARIANTS GrantsAreNew
CHECK_DEADLOCK FALSE
