CONSTANTS
    MaxConnectAttempts <- MCMaxConnectAttempts
    NFds <- MCNFds
    InheritedFds <- MCInheritedFds
SPECIFICATION Spec
INVARIANTS
    NoLeakOnConnectFailure
