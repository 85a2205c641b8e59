----------------------------- MODULE MCConnector -----------------------------
EXTENDS Connector

\* three attempts: the peer can come up after one or two refusals, or never
MCMaxConnectAttempts == 3
\* stdin, stdout, stderr and the one socket
MCNFds == 4
MCInheritedFds == {0, 1, 2}
\* the program was started with stdin closed
MCInheritedFdsNoStdin == {1, 2}

=============================================================================
