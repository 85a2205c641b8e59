---------------------------- MODULE SocketOptions ----------------------------
(***************************************************************************)
(* The socket option applier (spec 4.1): set_and_verify_sockopt() and     *)
(* do_socket_setup() of src/common/serverlib.c (the copy start_listening() *)
(* and connect_to_server() call), and set_dscp_socket_options() of         *)
(* src/common/testlib.c, which do_socket_setup() calls for DSCP.           *)
(*                                                                         *)
(* These run on a socket nothing else can reach yet, so each call is a     *)
(* function of the socket's option fields; a caller applies it in one      *)
(* step.  The kernel side is Linux's: setsockopt() validates and stores,   *)
(* buffer sizes are stored doubled and clamped to [minimum, 2 * rmem_max]  *)
(* (the FORCE variants skip rmem_max but need CAP_NET_ADMIN), TCP options  *)
(* fail on a datagram socket, boolean options read back as 0 or 1.  Sizes  *)
(* are in abstract units.                                                  *)
(***************************************************************************)
EXTENDS Integers

CONSTANTS
    BufMax,     \* net.core.rmem_max = wmem_max
    MinRcvBuf,  \* SOCK_MIN_RCVBUF: the smallest receive buffer stored
    MinSndBuf,  \* SOCK_MIN_SNDBUF
    MinMss,     \* TCP_MIN_MSS
    MaxMss      \* MAX_TCP_WINDOW, the largest TCP_MAXSEG accepted

\* The kernel minima are even (twice or a cache-aligned size), so a
\* stored buffer size is always even.
ASSUME SockoptAssumption ==
    /\ BufMax \in Nat /\ MinMss \in Nat /\ MaxMss \in Nat
    /\ MinRcvBuf \in Nat /\ MinRcvBuf % 2 = 0
    /\ MinSndBuf \in Nat /\ MinSndBuf % 2 = 0

\* the option names set_and_verify_sockopt() is called with
Opts == {"TCP_MAXSEG", "TCP_NODELAY", "SO_RCVBUF", "SO_RCVBUFFORCE",
         "SO_SNDBUF", "SO_SNDBUFFORCE", "SO_REUSEADDR"}
\* the options that read back doubled (the #ifdef SO_SNDBUF list)
BufferOpts == {"SO_RCVBUF", "SO_RCVBUFFORCE", "SO_SNDBUF", "SO_SNDBUFFORCE"}
TcpOpts == {"TCP_MAXSEG", "TCP_NODELAY"}

\* the option fields of a socket these calls change; 0 is the kernel's
\* default, which no request (always > 0) asks for
KOpts == [maxseg : Nat, nodelay : Nat, rcvbuf : Nat, sndbuf : Nat,
          reuseaddr : Nat, tos : Nat]
KDefault == [maxseg |-> 0, nodelay |-> 0, rcvbuf |-> 0, sndbuf |-> 0,
             reuseaddr |-> 0, tos |-> 0]

\* the field each option writes (a FORCE variant writes the plain buffer)
Field(o) ==
    CASE o = "TCP_MAXSEG" -> "maxseg"
      [] o = "TCP_NODELAY" -> "nodelay"
      [] o \in {"SO_RCVBUF", "SO_RCVBUFFORCE"} -> "rcvbuf"
      [] o \in {"SO_SNDBUF", "SO_SNDBUFFORCE"} -> "sndbuf"
      [] o = "SO_REUSEADDR" -> "reuseaddr"

Clamp(lo, v) == IF v < lo THEN lo ELSE v
Cap(v, hi) == IF v > hi THEN hi ELSE v

\* what setsockopt(o, v) stores, or -1 when it fails (ENOPROTOOPT for a
\* TCP option on a datagram socket, EINVAL, EPERM without CAP_NET_ADMIN)
KernelStores(o, v, stream, priv) ==
    CASE o \in TcpOpts /\ ~stream -> -1
      [] o = "TCP_MAXSEG" /\ stream -> IF v \in MinMss..MaxMss THEN v ELSE -1
      [] (o = "TCP_NODELAY" /\ stream) \/ o = "SO_REUSEADDR" ->
            IF v # 0 THEN 1 ELSE 0
      [] o = "SO_RCVBUF" -> Clamp(MinRcvBuf, 2 * Cap(v, BufMax))
      [] o = "SO_SNDBUF" -> Clamp(MinSndBuf, 2 * Cap(v, BufMax))
      [] o = "SO_RCVBUFFORCE" -> IF priv THEN Clamp(MinRcvBuf, 2 * v) ELSE -1
      [] o = "SO_SNDBUFFORCE" -> IF priv THEN Clamp(MinSndBuf, 2 * v) ELSE -1

\* the read-back check: buffers must read back as twice the request
\* (compared as value != verify / 2), everything else as the request
ReadsBackAsSet(o, v, verify) ==
    IF o \in BufferOpts THEN v = verify \div 2 ELSE v = verify

\* Mutation of SetAndVerify: getsockopt() is not compared with the request.
SetAndVerifyNoCheck(k, o, v, stream, priv) ==
    LET s == KernelStores(o, v, stream, priv)
    IN  IF s = -1 THEN [k |-> k, rc |-> -1]
        ELSE [k |-> [k EXCEPT ![Field(o)] = s], rc |-> 0]

\* set_and_verify_sockopt(): setsockopt(), getsockopt(), compare
SetAndVerify(k, o, v, stream, priv) ==
    LET s == KernelStores(o, v, stream, priv)
        k2 == [k EXCEPT ![Field(o)] = s]
    IN  IF s = -1 THEN [k |-> k, rc |-> -1]
        ELSE [k |-> k2, rc |-> IF ReadsBackAsSet(o, v, k2[Field(o)]) THEN 0
                                                                   ELSE -1]

\* one call whose failure do_socket_setup only logs: st is the socket's
\* fields, the options that logged a warning, and whether we aborted
Try(st, o, v, stream, priv) ==
    LET r == SetAndVerify(st.k, o, v, stream, priv)
    IN  [st EXCEPT !.k = r.k,
                   !.warned = IF r.rc < 0 THEN @ \cup {o} ELSE @]

\* Mutation of TryBuffer: no FORCE fallback.
TryBufferNoForce(st, o, force, v, stream, priv) == Try(st, o, v, stream, priv)

\* a buffer size: on failure retry with the FORCE variant
TryBuffer(st, o, force, v, stream, priv) ==
    LET s == Try(st, o, v, stream, priv)
    IN  IF o \in s.warned THEN Try(s, force, v, stream, priv) ELSE s

\* set_dscp_socket_options() on a socket_t holding only sock: the value is
\* dscp << 2 into IP_TOS or IPV6_TCLASS (both accept 0..255); the
\* assertion that one descriptor is > 0 aborts when sock is 0
SetDscp(st, sock, dscp) ==
    IF sock > 0 THEN [st EXCEPT !.k.tos = dscp * 4]
                ELSE [st EXCEPT !.abort = TRUE]

\* do_socket_setup(sock, family, options): each option that was asked
\* for, in the code's order; reuse is 0 or 1, dscp is 0..63
DoSocketSetup(sock, t, reuse, stream, priv, k0) ==
    LET s0 == [k |-> k0, warned |-> {}, abort |-> FALSE]
        s1 == IF t.mss > 0
              THEN Try(s0, "TCP_MAXSEG", t.mss, stream, priv) ELSE s0
        s2 == IF t.nagle # 0
              THEN Try(s1, "TCP_NODELAY", t.nagle, stream, priv) ELSE s1
        s3 == IF t.rcvbuf > 0
              THEN TryBuffer(s2, "SO_RCVBUF", "SO_RCVBUFFORCE", t.rcvbuf,
                             stream, priv)
              ELSE s2
        s4 == IF t.sndbuf > 0
              THEN TryBuffer(s3, "SO_SNDBUF", "SO_SNDBUFFORCE", t.sndbuf,
                             stream, priv)
              ELSE s3
        s5 == IF reuse # 0
              THEN Try(s4, "SO_REUSEADDR", reuse, stream, priv) ELSE s4
    IN  IF t.dscp # 0 THEN SetDscp(s5, sock, t.dscp) ELSE s5

=============================================================================
