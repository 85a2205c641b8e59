------------------------------ MODULE Connector ------------------------------
(***************************************************************************)
(* connect_control_server() of src/common/serverlib.c: connect_to_server() *)
(* (socket, device bind, source-address bind, and connect() retried up to  *)
(* MAX_CONNECT_ATTEMPTS times with a fixed sleep between attempts), then   *)
(* upgrade_control_server_ssl() (the secure handshake, the peer            *)
(* certificate and the host-name check).                                   *)
(*                                                                         *)
(* The remote server starts and stops listening while we sleep between     *)
(* attempts: connect() succeeds when it is listening and is refused when   *)
(* it is not.  establish_control_socket() and the freeing of the BIO are   *)
(* outside src/ and are modelled from spec 4.4: a failed upgrade tears     *)
(* the session down and closes the socket.                                 *)
(***************************************************************************)
EXTENDS Integers

CONSTANTS
    MaxConnectAttempts,  \* MAX_CONNECT_ATTEMPTS
    NFds,                \* size of the process's descriptor table
    InheritedFds         \* descriptors open when the program starts

ASSUME ConnectAssumption ==
    /\ MaxConnectAttempts \in Nat \ {0}
    /\ NFds \in Nat
    /\ InheritedFds \subseteq 0..(NFds - 1)

Fds == 0..(NFds - 1)
NoSock == -1
Families == {"v4", "v6"}
\* dest->ai_family: AF_INET, AF_INET6 or anything else
DestFamilies == Families \cup {"other"}
\* what the peer presents: no certificate, one for dest's name, another one
Certs == {"none", "match", "mismatch"}
Pcs == {"setport", "socket", "device", "bind", "connect", "upgrade", "ret"}
\* history: which return path connect_control_server took
Whys == {"none", "family", "nosocket", "device", "bind", "cap", "zero",
         "noupgrade", "nocert", "badname", "ok"}

VARIABLES
    dest,       \* dest->ai_family
    cfg,        \* sockopts: device set, source families set; ssl_ctx set
    cert,       \* the certificate the peer will present
    peerUp,     \* the remote server is listening
    fds,        \* descriptors the process holds open
    sock,       \* sock
    connected,  \* the kernel has connected sock to the peer
    attempts,   \* attempts
    pc,         \* where connect_control_server is
    why,        \* history: which return path was taken
    session,    \* history: connect_control_server returned a BIO
    fdsAtCall   \* history: fds when connect_control_server was called

vars == <<dest, cfg, cert, peerUp, fds, sock, connected, attempts, pc, why,
          session, fdsAtCall>>
client == <<dest, cfg, cert, fds, sock, connected, attempts, pc, why,
            session, fdsAtCall>>

\* socket() hands out the lowest-numbered free descriptor
IsLowestFree(d) == d \in Fds \ fds /\ \A e \in Fds \ fds : d <= e

\* return -1 from connect_to_server, or NULL from the upgrade, leaving fds
Fail(w) == pc' = "ret" /\ why' = w /\ UNCHANGED session

-----------------------------------------------------------------------------
Init ==
    /\ dest \in DestFamilies
    /\ cfg \in [device : BOOLEAN, source : SUBSET Families, ssl : BOOLEAN]
    /\ cert \in Certs
    /\ peerUp \in BOOLEAN
    /\ fds = InheritedFds
    /\ sock = NoSock
    /\ connected = FALSE
    /\ attempts = 0
    /\ pc = "setport"
    /\ why = "none"
    /\ session = FALSE
    /\ fdsAtCall = fds

\* the port goes into dest->ai_addr; an unknown family returns -1
SetPort ==
    /\ pc = "setport"
    /\ \/ dest \in Families /\ pc' = "socket" /\ UNCHANGED why
       \/ dest = "other" /\ Fail("family")
    /\ UNCHANGED <<dest, cfg, cert, peerUp, fds, sock, connected, attempts,
                   session, fdsAtCall>>

\* socket(); do_socket_setup() changes nothing this model tells apart
Socket ==
    /\ pc = "socket"
    /\ \/ \E d \in Fds : IsLowestFree(d) /\ sock' = d /\ fds' = fds \cup {d}
                          /\ pc' = "device" /\ UNCHANGED why
       \/ Fail("nosocket") /\ UNCHANGED <<sock, fds>>
    /\ UNCHANGED <<dest, cfg, cert, peerUp, connected, attempts, session,
                   fdsAtCall>>

\* bind_socket_to_device() if a device is configured; failure returns -1
BindDevice ==
    /\ pc = "device"
    /\ \/ pc' = "bind" /\ UNCHANGED why
       \/ cfg.device /\ Fail("device")
    /\ UNCHANGED <<dest, cfg, cert, peerUp, fds, sock, connected, attempts,
                   session, fdsAtCall>>

\* bind_socket_to_address() only when a source of dest's family is set;
\* failure returns -1
BindSource ==
    /\ pc = "bind"
    /\ \/ pc' = "connect" /\ UNCHANGED why
       \/ dest \in cfg.source /\ Fail("bind")
    /\ UNCHANGED <<dest, cfg, cert, peerUp, fds, sock, connected, attempts,
                   session, fdsAtCall>>

\* Mutation of Connect: a refused connect() is not counted.
ConnectNoCount ==
    /\ pc = "connect"
    /\ \/ /\ peerUp
          /\ connected' = TRUE
          /\ pc' = "upgrade" /\ UNCHANGED <<attempts, why>>
       \/ /\ ~peerUp
          /\ UNCHANGED <<pc, why, attempts, connected>>
    /\ UNCHANGED <<dest, cfg, cert, peerUp, fds, sock, session, fdsAtCall>>

\* Mutation of Connect: the cap is tested after one more attempt (>).
ConnectPastCap ==
    /\ pc = "connect"
    /\ \/ /\ peerUp
          /\ connected' = TRUE
          /\ pc' = "upgrade" /\ UNCHANGED <<attempts, why>>
       \/ /\ ~peerUp
          /\ attempts' = attempts + 1
          /\ IF attempts' > MaxConnectAttempts THEN Fail("cap")
                                              ELSE UNCHANGED <<pc, why>>
          /\ UNCHANGED connected
    /\ UNCHANGED <<dest, cfg, cert, peerUp, fds, sock, session, fdsAtCall>>

\* one connect(): refused unless the peer listens; a failure counts an
\* attempt and returns -1 at MAX_CONNECT_ATTEMPTS, otherwise sleeps
\* CONTROL_CONNECT_DELAY (the peer may change meanwhile) and tries again.
\* On success connect_control_server goes on only if sock > 0.
Connect ==
    /\ pc = "connect"
    /\ \/ /\ peerUp
          /\ connected' = TRUE
          /\ pc' = "upgrade" /\ UNCHANGED <<attempts, why>>
       \/ /\ ~peerUp
          /\ attempts' = attempts + 1
          /\ IF attempts' >= MaxConnectAttempts THEN Fail("cap")
                                               ELSE UNCHANGED <<pc, why>>
          /\ UNCHANGED connected
    /\ UNCHANGED <<dest, cfg, cert, peerUp, fds, sock, session, fdsAtCall>>

\* Mutation of Upgrade: the host name is not checked.
UpgradeNoNameCheck ==
    /\ pc = "upgrade"
    /\ \/ sock <= 0 /\ Fail("zero") /\ UNCHANGED fds
       \/ /\ sock > 0
          /\ \/ Fail("noupgrade") /\ fds' = fds \ {sock}
             \/ /\ cfg.ssl /\ cert = "none"
                /\ Fail("nocert") /\ fds' = fds \ {sock}
             \/ /\ ~cfg.ssl \/ cert # "none"
                /\ pc' = "ret" /\ why' = "ok" /\ session' = TRUE
                /\ UNCHANGED fds
    /\ UNCHANGED <<dest, cfg, cert, peerUp, sock, connected, attempts,
                   fdsAtCall>>

\* connect_control_server: only sock > 0 is upgraded.
\* establish_control_socket() may fail (and closes the socket); with an
\* SSL context the peer must present a certificate whose common name
\* matches dest->ai_canonname, else BIO_free_all() closes the connection.
Upgrade ==
    /\ pc = "upgrade"
    /\ \/ sock <= 0 /\ Fail("zero") /\ UNCHANGED fds
       \/ /\ sock > 0
          /\ \/ Fail("noupgrade") /\ fds' = fds \ {sock}
             \/ /\ cfg.ssl /\ cert = "none"
                /\ Fail("nocert") /\ fds' = fds \ {sock}
             \/ /\ cfg.ssl /\ cert = "mismatch"
                /\ Fail("badname") /\ fds' = fds \ {sock}
             \/ /\ ~cfg.ssl \/ cert = "match"
                /\ pc' = "ret" /\ why' = "ok" /\ session' = TRUE
                /\ UNCHANGED fds
    /\ UNCHANGED <<dest, cfg, cert, peerUp, sock, connected, attempts,
                   fdsAtCall>>

\* the remote server starts or stops listening
PeerChange ==
    /\ peerUp' = ~peerUp
    /\ UNCHANGED client

Client == SetPort \/ Socket \/ BindDevice \/ BindSource \/ Connect \/ Upgrade

Next == Client \/ PeerChange

Spec == Init /\ [][Next]_vars

\* the caller is one thread that runs connect_control_server to the end
FairSpec == Spec /\ WF_vars(Client)

-----------------------------------------------------------------------------
ConnTypeOK ==
    /\ dest \in DestFamilies
    /\ cfg \in [device : BOOLEAN, source : SUBSET Families, ssl : BOOLEAN]
    /\ cert \in Certs
    /\ peerUp \in BOOLEAN
    /\ fds \subseteq Fds
    /\ sock \in Fds \cup {NoSock}
    /\ connected \in BOOLEAN
    /\ attempts \in 0..MaxConnectAttempts
    /\ pc \in Pcs
    /\ why \in Whys
    /\ session \in BOOLEAN
    /\ fdsAtCall \subseteq Fds

\* connect_to_server makes at most MAX_CONNECT_ATTEMPTS failed connect()
\* calls; it gives up exactly when the last of them has failed, and a
\* control session is only ever built on a socket the kernel connected
\* before the cap was reached (spec section 8; serverlib.c 587-625).
ConnectAttemptsCapped ==
    /\ attempts <= MaxConnectAttempts
    /\ why = "cap" => attempts = MaxConnectAttempts /\ ~connected
    /\ session => connected /\ attempts < MaxConnectAttempts

\* Once connect_control_server hands a connected socket to the upgrade, the
\* result is all or nothing: a session is returned only if there is no SSL
\* context or the peer's certificate names the destination, and then the
\* socket is the one new descriptor; otherwise no session is returned and
\* the socket is closed (spec section 8, mismatched certificate scenario;
\* serverlib.c 638-679).
UpgradeAllOrNothing ==
    pc = "ret" /\ why \in {"ok", "noupgrade", "nocert", "badname"} =>
        IF session
        THEN (~cfg.ssl \/ cert = "match") /\ fds = fdsAtCall \cup {sock}
                /\ sock \notin fdsAtCall
        ELSE fds = fdsAtCall

\* connect_control_server always returns: the attempt cap ends the retry
\* loop however long the peer stays away.
ConnectReturns == <>(pc = "ret")

\* the refinement mapping: what the call has returned so far, and whether
\* the peer would pass the upgrade
Verdict ==
    IF pc # "ret" THEN "pending" ELSE IF session THEN "session" ELSE "error"

Abs == INSTANCE ConnectorAbstract
           WITH refused <- attempts, verdict <- Verdict,
                acceptable <- (~cfg.ssl \/ cert = "match")

\* Every -1 or NULL return of connect_control_server leaves the process's
\* descriptor table as it found it: the socket opened for the attempt is
\* closed on each failure path (serverlib.c 561-609, 692-696).
NoLeakOnConnectFailure ==
    pc = "ret" /\ ~session => fds = fdsAtCall

\* A socket that connect_to_server connected is upgraded to a control
\* session attempt: connect_control_server does not drop a live connection
\* as if the connect had failed (serverlib.c 690-696).
ConnectedSocketUpgraded ==
    pc = "ret" /\ connected => why # "zero"

=============================================================================
