SPECIFICATION Spec
CONSTANTS
    NVal = 3
    Delegations <- FourDelegations
    Dust <- SmallDelegation
    MaxValidators = 2
    Scale = 2
    RewardChoices = {0}
    CommissionChoices = {0}
    Period = 1
INVARIANTS OnlyAllowedValidate PanicsOnlyIfLeftOut
CHECK_DEADLOCK FALSE
