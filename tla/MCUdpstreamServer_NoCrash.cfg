CONSTANTS
    ReservedPort <- MCReservedPort
    DefaultTestPort <- MCDefaultTestPort
    MaxTestPort <- MCMaxTestPort
    HelloPorts <- MCHelloPorts
    MaxCommands <- MCMaxCommands
    NFds <- MCNFds
    InheritedFds <- MCInheritedFds
    CtrlFd <- MCCtrlFd
SPECIFICATION Spec
INVARIANTS
    MalformedPacketNoCrash
