CONSTANTS
    FirstPort <- MCFirstPort
    MaxPort <- MCMaxPort
    NFds <- MCNFds
    InheritedFds <- MCInheritedFds

SPECIFICATION Spec

INVARIANTS
    NoLeakOnError
