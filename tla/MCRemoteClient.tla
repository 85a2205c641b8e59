---------------------------- MODULE MCRemoteClient ----------------------------
EXTENDS RemoteClient

\* three attempts: the peer can come up after one or two refusals, or never
MCMaxConnectAttempts == 3
\* stdin, stdout, stderr and the control socket
MCNFds == 4
MCInheritedFds == {0, 1, 2}

=============================================================================
