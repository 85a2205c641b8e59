CONSTANTS
    FirstPort <- MCFirstPort
    MaxPort <- MCMaxPort
    NFds <- MCNFds
    InheritedFds <- MCInheritedFds

SPECIFICATION CSSpec

INVARIANT
    NoLeakAfterListen
