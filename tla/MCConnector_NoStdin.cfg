CONSTANTS
    MaxConnectAttempts <- MCMaxConnectAttempts
    NFds <- MCNFds
    InheritedFds <- MCInheritedFdsNoStdin
SPECIFICATION Spec
INVARIANTS
    ConnectedSocketUpgraded
