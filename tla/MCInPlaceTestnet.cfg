SPECIFICATION Spec
CONSTANTS
    Operators = {"v1", "v2"}
    NewOperators = {"v1", "new"}
    FundFlags <- SomeFlags
    Accounts = {"alice", "bob"}
    MintHardCapAmount = 9
    FundAmount = 1
    Supplies = {1}
INVARIANTS NewValidatorTakesOver FundedAsListed
CHECK_DEADLOCK FALSE
