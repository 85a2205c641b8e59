CONSTANTS
    MaxConnectAttempts <- MCMaxConnectAttempts
    NFds <- MCNFds
    InheritedFds <- MCInheritedFds
SPECIFICATION RCFairSpec
INVARIANTS
    RCTypeOK
    ConnectAttemptsCapped
    UpgradeAllOrNothing
    ResultOnlyForRequestedTest
PROPERTIES
    ConnectReturns
    RemoteClientEnds
