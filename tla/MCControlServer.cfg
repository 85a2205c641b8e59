CONSTANTS
    FirstPort <- MCFirstPort
    MaxPort <- MCMaxPort
    NFds <- MCNFds
    InheritedFds <- MCInheritedFds

SPECIFICATION CSFairSpec

INVARIANTS
    CSTypeOK
    ControlLeavesOnlyControlSocket

PROPERTIES
    TimeoutOnlyWhenIdle
