--------------------------- MODULE MCListenerSetup ---------------------------
(* The listener instance of MCDualStackListener with the socket options of *)
(* three callers: the control connection (SO_REUSEADDR only), a test that   *)
(* asks for a valid MSS, Nagle off, a receive buffer within rmem_max, a    *)
(* send buffer above it and DSCP, and one whose MSS and buffer sizes are   *)
(* below the kernel's minima.  Sizes are in abstract units.                *)
EXTENDS ListenerSetup

MCFirstPort == 1
MCMaxPort == 2
MCNFds == 5
MCInheritedFds == {0, 1, 2}

MCBufMax == 4
MCMinRcvBuf == 4
MCMinSndBuf == 6
MCMinMss == 2
MCMaxMss == 5

MCTunings ==
    { [mss |-> 0, nagle |-> 0, rcvbuf |-> 0, sndbuf |-> 0, dscp |-> 0],
      [mss |-> 3, nagle |-> 1, rcvbuf |-> 3, sndbuf |-> 5, dscp |-> 46],
      [mss |-> 1, nagle |-> 0, rcvbuf |-> 1, sndbuf |-> 2, dscp |-> 0] }

=============================================================================
