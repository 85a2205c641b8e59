---------------------------- MODULE ListenerSetup ----------------------------
(***************************************************************************)
(* start_listening() (DualStackListener) with the socket options it       *)
(* applies: once the sockets are opened, do_socket_setup() runs on the     *)
(* IPv4 socket and then on the IPv6 socket (serverlib.c 281-299), with the *)
(* options the caller put in its struct sockopt_t.  The callers under src/ *)
(* ask only for SO_REUSEADDR; the test programs that share                 *)
(* start_listening() also ask for TCP_MAXSEG, TCP_NODELAY, buffer sizes    *)
(* and DSCP, which Tunings lists.                                          *)
(***************************************************************************)
EXTENDS DualStackListener, SocketOptions

CONSTANT Tunings  \* the mss, nagle, rcvbuf, sndbuf and dscp fields asked for

ASSUME TuningAssumption ==
    Tunings \subseteq [mss : Nat, nagle : {0, 1}, rcvbuf : Nat, sndbuf : Nat,
                       dscp : 0..63]

VARIABLES
    tuning,   \* the option fields of sockopts beyond DualStackListener's
    priv,     \* the process has CAP_NET_ADMIN
    kopt,     \* the option fields of the socket of each family
    warned,   \* history: the options that logged a warning, per family
    setUp,    \* history: the families do_socket_setup ran on in this call
    aborted   \* an assertion aborted the process

setupVars == <<tuning, priv, kopt, warned, setUp, aborted>>
lsVars == <<vars, setupVars>>

\* sockopts->reuse_addr
ReuseAddr == IF sockopts.reuse THEN 1 ELSE 0

\* do_socket_setup() on our socket of family f, as the sockets now stand
SetupOf(f) ==
    DoSocketSetup(sockets'[f], tuning, ReuseAddr, sockopts.stream, priv,
                  KDefault)

-----------------------------------------------------------------------------
LSInit ==
    /\ Init
    /\ tuning \in Tunings
    /\ priv \in BOOLEAN
    /\ kopt = [f \in Families |-> KDefault]
    /\ warned = [f \in Families |-> {}]
    /\ setUp = {}
    /\ aborted = FALSE

\* each call of start_listening opens fresh sockets
OpenV4Setup ==
    /\ OpenV4
    /\ kopt' = [f \in Families |-> KDefault]
    /\ warned' = [f \in Families |-> {}]
    /\ setUp' = {}
    /\ UNCHANGED <<tuning, priv, aborted>>

\* the IPv6 socket(); if a socket is open, do_socket_setup() on each
OpenV6Setup ==
    /\ OpenV6
    /\ IF pc' = "device"
       THEN LET on == {f \in Families : sockets'[f] # NoSock}
            IN  /\ kopt' = [f \in Families |->
                              IF f \in on THEN SetupOf(f).k ELSE kopt[f]]
                /\ warned' = [f \in Families |->
                              IF f \in on THEN SetupOf(f).warned ELSE warned[f]]
                /\ setUp' = on
                /\ aborted' = \E f \in on : SetupOf(f).abort
       ELSE UNCHANGED <<kopt, warned, setUp, aborted>>
    /\ UNCHANGED <<tuning, priv>>

\* the other steps of start_listening and of the retry loop
OtherListenerStep ==
    /\ \/ BindDevice \/ BindV4 \/ BindV6 \/ ListenV4 \/ ListenV6
       \/ CheckListening \/ Retry
    /\ UNCHANGED setupVars

ListenerWithSetup ==
    /\ ~aborted
    /\ OpenV4Setup \/ OpenV6Setup \/ OtherListenerStep

LSNext ==
    \/ ListenerWithSetup
    \/ OtherProcess /\ UNCHANGED setupVars

LSSpec == LSInit /\ [][LSNext]_lsVars

\* the caller is a single thread that runs each system call to completion
\* unless an assertion has aborted it; every <<~aborted /\ Listener>>_vars
\* step of LSNext is a ListenerWithSetup step
LSFairSpec == LSSpec /\ WF_vars(~aborted /\ Listener)

-----------------------------------------------------------------------------
LSTypeOK ==
    /\ TypeOK
    /\ tuning \in Tunings
    /\ priv \in BOOLEAN
    /\ kopt \in [Families -> KOpts]
    /\ warned \in [Families -> SUBSET Opts]
    /\ setUp \subseteq Families
    /\ aborted \in BOOLEAN

\* the value the caller asked for with option o
Asked(o) ==
    CASE o = "TCP_MAXSEG" -> tuning.mss
      [] o = "TCP_NODELAY" -> tuning.nagle
      [] o = "SO_RCVBUF" -> tuning.rcvbuf
      [] o = "SO_SNDBUF" -> tuning.sndbuf
      [] o = "SO_REUSEADDR" -> ReuseAddr

\* what spec 4.1 says re-reading must give: the request, doubled for buffers
Wanted(o) == IF o \in BufferOpts THEN 2 * Asked(o) ELSE Asked(o)

\* the attempt whose result stands, given the options w that warned: the
\* FORCE variant once tried
Last(o, w) ==
    CASE o = "SO_RCVBUF" /\ o \in w -> "SO_RCVBUFFORCE"
      [] o = "SO_SNDBUF" /\ o \in w -> "SO_SNDBUFFORCE"
      [] OTHER -> o

\* the options the caller asked for (a FORCE variant is never asked for)
Requested ==
    {p \in Opts \ {"SO_RCVBUFFORCE", "SO_SNDBUFFORCE"} : Asked(p) # 0}

\* option fields k, with warnings w, hold every requested value or warned
SetupRight(k, w) ==
    \A o \in Requested : k[Field(o)] = Wanted(o) \/ Last(o, w) \in w

\* option fields k hold every buffer size that CAP_NET_ADMIN lets us force
PrivilegedExact(k) ==
    /\ tuning.rcvbuf > 0 /\ 2 * tuning.rcvbuf >= MinRcvBuf
           => k.rcvbuf = 2 * tuning.rcvbuf
    /\ tuning.sndbuf > 0 /\ 2 * tuning.sndbuf >= MinSndBuf
           => k.sndbuf = 2 * tuning.sndbuf

\* No option is silently wrong: after do_socket_setup, every option the
\* caller asked for holds the value spec 4.1 requires (the request, twice
\* the request for buffer sizes), or the attempt that decided it (the FORCE
\* variant after a failed buffer size) logged a warning (serverlib.c
\* 90-138, 146-242): a kernel clamp is never mistaken for success.
SetupNeverSilentlyWrong ==
    \A f \in setUp : SetupRight(kopt[f], warned[f])

\* With CAP_NET_ADMIN, a buffer size at least half the kernel minimum ends
\* exactly at twice the request even above rmem_max: the FORCE fallback
\* runs after the plain option is clamped (serverlib.c 168-208).
PrivilegedBuffersExact ==
    priv => \A f \in setUp : PrivilegedExact(kopt[f])

=============================================================================
