--------------------------- MODULE MCUdpstreamServer ---------------------------
EXTENDS UdpstreamServer

\* ports scaled down, their order kept: a HELLO may ask for a reserved
\* port, the default port (scan of two ports) or a fixed port above it
MCReservedPort == 3
MCDefaultTestPort == 4
MCMaxTestPort == 5
MCHelloPorts == {2, 4, 6}
\* enough for a SEND and a RECEIVE in either order
MCMaxCommands == 2
\* stdin, stdout, stderr, the control socket, the test socket
MCNFds == 5
MCInheritedFds == {0, 1, 2, 3}
MCCtrlFd == 3

=============================================================================
