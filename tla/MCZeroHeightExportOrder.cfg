SPECIFICATION Spec
CONSTANTS
    NVal = 2
    Delegations <- ThreeDelegations
    Dust = {}
    MaxValidators = 2
    Scale = 2
    RewardChoices = {0}
    CommissionChoices = {0}
    Period = 1
INVARIANTS ByPowerDescending
CHECK_DEADLOCK FALSE
