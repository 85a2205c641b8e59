--------------------------- MODULE MCControlServer ---------------------------
(* Two ports; six descriptors: stdin, stdout, stderr, one listening socket *)
(* per family and the control socket.  MCInheritedFdsNoStdin is a server   *)
(* started with stdin closed.                                              *)
EXTENDS ControlServer

MCFirstPort == 1
MCMaxPort == 2
MCNFds == 6
MCInheritedFds == {0, 1, 2}
MCInheritedFdsNoStdin == {1, 2}

=============================================================================
