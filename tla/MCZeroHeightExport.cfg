SPECIFICATION Spec
CONSTANTS
    NVal = 2
    Delegations <- ThreeDelegations
    Dust = {}
    MaxValidators = 1
    Scale = 2
    RewardChoices = {0, 4}
    CommissionChoices = {0, 3}
    Period = 2
INVARIANTS HoldingsMatch ReferencesExact NoOldHeights
CHECK_DEADLOCK FALSE
