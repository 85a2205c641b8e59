CONSTANTS
    FirstPort <- MCFirstPort
    MaxPort <- MCMaxPort
    NFds <- MCNFds
    InheritedFds <- MCInheritedFds

SPECIFICATION FairSpec

INVARIANTS
    TypeOK
    InUseReturnLeavesNoSocket
    ReturnedSocketsServing
    RetryScansInOrder

PROPERTIES
    LoopTerminates
