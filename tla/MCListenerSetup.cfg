CONSTANTS
    FirstPort <- MCFirstPort
    MaxPort <- MCMaxPort
    NFds <- MCNFds
    InheritedFds <- MCInheritedFds
    BufMax <- MCBufMax
    MinRcvBuf <- MCMinRcvBuf
    MinSndBuf <- MCMinSndBuf
    MinMss <- MCMinMss
    MaxMss <- MCMaxMss
    Tunings <- MCTunings

SPECIFICATION LSFairSpec

INVARIANTS
    LSTypeOK
    InUseReturnLeavesNoSocket
    ReturnedSocketsServing
    RetryScansInOrder
    SetupNeverSilentlyWrong
    PrivilegedBuffersExact

PROPERTIES
    LoopTerminates
