SPECIFICATION FairSpec
CONSTANTS
    Denoms = {"ubps", "voucher"}
    Vouchers = {"voucher"}
    MintHardCapDenom = "ubps"
    MintHardCapAmount = 4
    BondDenom = "ubps"
    Scale = 10
    MintParamsChoices <- TwoDenoms
    GenesisCapSupplies = {3, 5}
    MaxTransfer = 1
    MaxTxs = 1
    MaxUncapped = 1
INVARIANTS TypeOK SupplyBacked NoStrandedMint ProvisionAllocatedAtOnce
PROPERTIES SupplyCap OneProvisionPerBlock ImplementsCappedSupply GrowthWithinCap CapIsReached
CHECK_DEADLOCK FALSE
