CONSTANTS
    FirstPort <- MCFirstPort
    MaxPort <- MCMaxPort
    NFds <- MCNFds
    InheritedFds <- MCInheritedFdsNoStdin

SPECIFICATION CSSpec

PROPERTY
    TimeoutOnlyWhenIdle
