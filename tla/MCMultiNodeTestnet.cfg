SPECIFICATION Spec
CONSTANTS
    MaxValidators = 3
    MaxInvocations = 3
    StakeFlags <- SomeStakes
    PortFlags <- DefaultAndShortPorts
    DefaultStake = 1
    Balance = 5
    DefaultPorts <- CodePorts
INVARIANTS NetworkConsistent RetryNotRefused PortsApart
CHECK_DEADLOCK FALSE
