------------------------- MODULE MCDualStackListener -------------------------
(* Two ports, so that a retry happens and the range is exhausted; five     *)
(* descriptors: stdin, stdout, stderr and one socket per family.           *)
EXTENDS DualStackListener

MCFirstPort == 1
MCMaxPort == 2
MCNFds == 5
MCInheritedFds == {0, 1, 2}

=============================================================================
