SPECIFICATION Spec
CONSTANTS
    MaxValidators = 3
    MaxInvocations = 3
    StakeFlags <- InvalidFirst
    PortFlags <- DefaultPortsOnly
    DefaultStake = 1
    Balance = 5
    DefaultPorts <- CodePorts
INVARIANTS InvalidStakeIsDefault
CHECK_DEADLOCK FALSE
