SPECIFICATION FairSpec
CONSTANTS
    TryGets = 1
    OperatorQueries = 1
    ChainQueries = 1
    RpcTimeout = 1
    CliTimeout = 1
    RefreshInterval = 6
    MenuIds = {"dashboard", "logs"}
    MaxHeight = 1
INVARIANTS TypeOK OverlapBounded NeverSilent LoadingMeansFetching ModulesNotBehindStatus
PROPERTIES OfflineAfterTwoFailures NothingAfterDispose RecoversFromOutage
CHECK_DEADLOCK FALSE
