---------------------------- MODULE ControlServer ----------------------------
(***************************************************************************)
(* listen_control_server() of src/common/serverlib.c: the port-retry loop *)
(* of DualStackListener, then wait_for_data() (testlib.c) on the two       *)
(* listening sockets, accept() on the family that became readable, the     *)
(* swap of the configured source addresses to the accepted connection's    *)
(* family, the closing of the listening sockets and the secure upgrade.    *)
(*                                                                         *)
(* Clients connect to whichever of our sockets is listening; a connection  *)
(* waits in the socket's accept queue (backlog 1) and is lost when the     *)
(* socket is closed.  select() reports a socket readable when a connection *)
(* is queued on it, and the wait ends by timeout only when none is.        *)
(* establish_control_socket() is not under src/: it is modelled from spec  *)
(* 4.4, which says a failed upgrade closes the socket.                     *)
(***************************************************************************)
EXTENDS DualStackListener

VARIABLES
    pending,    \* a client connection is queued on our socket of each family
    family,     \* the family wait_for_data() reported (AF_INET or AF_INET6)
    csock,      \* control_sock: what accept() returned
    lcs,        \* where listen_control_server is once the retry loop is left
    outcome,    \* history: how listen_control_server returned
    fdsAtStart  \* history: descriptors open when listen_control_server began

csVars == <<vars, pending, family, csock, lcs, outcome, fdsAtStart>>
server == <<pending, family, csock, lcs, outcome, fdsAtStart>>

Lcs == {"loop", "wait", "accept", "establish", "ret", "aborted"}
\* "ctrl": a BIO was returned; the other values name the path that returned NULL
Outcomes == {"none", "ctrl", "failed", "timeout", "selecterror", "noaccept",
             "noupgrade"}

\* select() only watches descriptors > 0 (testlib.c 446-456)
Watched(f) == sockets[f] > 0

\* the sockets select() finds readable: watched, listening, a connection queued
Readable == {f \in Families : Watched(f) /\ st[f] = "listening" /\ pending[f]}

-----------------------------------------------------------------------------
CSInit ==
    /\ Init
    /\ sockopts.stream      \* the control connection is always TCP
    /\ pending = [f \in Families |-> FALSE]
    /\ family = "none"
    /\ csock = NoSock
    /\ lcs = "loop"
    /\ outcome = "none"
    /\ fdsAtStart = fds

\* a step of start_listening or of the retry loop; a queued connection is
\* lost when the socket it waits on stops listening
LoopStep ==
    /\ lcs = "loop"
    /\ Listener
    /\ pending' = [f \in Families |-> pending[f] /\ st'[f] = "listening"]
    /\ UNCHANGED <<family, csock, lcs, outcome, fdsAtStart>>

\* if ( res != 0 ) return NULL
LoopExit ==
    /\ lcs = "loop" /\ pc = "done"
    /\ \/ res = "ok" /\ lcs' = "wait" /\ UNCHANGED outcome
       \/ res # "ok" /\ lcs' = "ret" /\ outcome' = "failed"
    /\ UNCHANGED <<vars, pending, family, csock, fdsAtStart>>

\* Mutation of WaitForData: only the IPv4 socket is looked at.
WaitForDataV4Only ==
    /\ lcs = "wait"
    /\ \/ /\ "v4" \in Readable
          /\ family' = "v4" /\ lcs' = "accept" /\ UNCHANGED outcome
       \/ /\ "v4" \notin Readable
          /\ lcs' = "ret" /\ outcome' = "timeout" /\ UNCHANGED family
       \/ /\ lcs' = "ret" /\ outcome' = "selecterror" /\ UNCHANGED family
    /\ UNCHANGED <<vars, pending, csock, fdsAtStart>>

\* wait_for_data(): the IPv4 socket wins when both are readable; with
\* nothing readable select() times out; a select() error returns -1 too.
\* Either -1 returns NULL with the listening sockets still open.
WaitForData ==
    /\ lcs = "wait"
    /\ \/ /\ "v4" \in Readable
          /\ family' = "v4" /\ lcs' = "accept" /\ UNCHANGED outcome
       \/ /\ Readable = {"v6"}
          /\ family' = "v6" /\ lcs' = "accept" /\ UNCHANGED outcome
       \/ /\ Readable = {}
          /\ lcs' = "ret" /\ outcome' = "timeout" /\ UNCHANGED family
       \/ /\ lcs' = "ret" /\ outcome' = "selecterror" /\ UNCHANGED family
    /\ UNCHANGED <<vars, pending, csock, fdsAtStart>>

\* Mutation of ClosedListeners: only the family not accepted on is closed.
ClosedListenersUnused == {f \in Families : sockets[f] > 0 /\ f # family}

\* the listening sockets listen_control_server closes: those with descriptor > 0
ClosedListeners == {f \in Families : sockets[f] > 0}

\* accept() on the readable socket: the lowest free descriptor, or -1.
\* get_socket_address(control_sock) asserts control_sock > 0: a debug build
\* aborts, a build without assertions goes on with getsockname() failing.
\* Then the listening sockets with descriptor > 0 are closed and an accept
\* failure returns NULL.
Accept ==
    /\ lcs = "accept"
    /\ \E c \in {d \in Fds : IsLowestFree(d)} \cup {NoSock} :
         /\ csock' = c
         /\ sockopts' = [sockopts EXCEPT !.source = {family}]
         /\ \/ /\ c <= 0
               /\ lcs' = "aborted"
               /\ UNCHANGED <<fds, st, pending, outcome>>
            \/ /\ fds' = (fds \cup ({c} \ {NoSock}))
                           \ {sockets[f] : f \in ClosedListeners}
               /\ st' = [f \in Families |->
                           IF f \in ClosedListeners THEN "none" ELSE st[f]]
               /\ pending' = [f \in Families |->
                           pending[f] /\ f # family /\ f \notin ClosedListeners]
               /\ IF c = NoSock THEN lcs' = "ret" /\ outcome' = "noaccept"
                                ELSE lcs' = "establish" /\ UNCHANGED outcome
    /\ UNCHANGED <<sockets, others, port, pc, res, fdsAtCall, tried,
                   family, fdsAtStart>>

\* establish_control_socket(ssl_ctx, control_sock, 0) (spec 4.4): a BIO, or
\* NULL after closing the socket
Establish ==
    /\ lcs = "establish"
    /\ lcs' = "ret"
    /\ \/ outcome' = "ctrl" /\ UNCHANGED fds
       \/ outcome' = "noupgrade" /\ fds' = fds \ {csock}
    /\ UNCHANGED <<sockopts, sockets, st, others, port, pc, res, fdsAtCall,
                   tried, pending, family, csock, fdsAtStart>>

\* a client connects to one of our listening sockets (backlog 1)
ClientConnect ==
    /\ lcs \in {"loop", "wait"}
    /\ \E f \in Families :
         /\ st[f] = "listening" /\ ~pending[f]
         /\ pending' = [pending EXCEPT ![f] = TRUE]
    /\ UNCHANGED <<vars, family, csock, lcs, outcome, fdsAtStart>>

Server == LoopStep \/ LoopExit \/ WaitForData \/ Accept \/ Establish

CSNext ==
    \/ Server
    \/ OtherProcess /\ UNCHANGED server
    \/ ClientConnect

CSSpec == CSInit /\ [][CSNext]_csVars

\* listen_control_server runs each call to completion on one thread
CSFairSpec == CSSpec /\ WF_csVars(Server)

-----------------------------------------------------------------------------
CSTypeOK ==
    /\ TypeOK
    /\ pending \in [Families -> BOOLEAN]
    /\ family \in Families \cup {"none"}
    /\ csock \in Fds \cup {NoSock}
    /\ lcs \in Lcs
    /\ outcome \in Outcomes
    /\ fdsAtStart \subseteq Fds

\* When listen_control_server returns a control connection, the only
\* descriptor it has left open is the accepted control socket: every
\* socket opened on every port the retry loop tried, and both listening
\* sockets, have been closed (serverlib.c 456-517).
ControlLeavesOnlyControlSocket ==
    outcome = "ctrl" => fds = fdsAtStart \cup {csock}

\* wait_for_data() gives up on the control connection only when no client
\* connection is queued on any of our listening sockets: a client that
\* connected in time is never turned away by the timeout (testlib.c 418-500).
TimeoutOnlyWhenIdle ==
    [][lcs = "wait" /\ outcome' = "timeout"
         => \A f \in Families : ~(st[f] = "listening" /\ pending[f])]_csVars

\* Every NULL return of listen_control_server after the sockets were
\* listening leaves no descriptor behind (spec section 3: sockets are
\* closed on error).
NoLeakAfterListen ==
    outcome \in {"timeout", "selecterror", "noaccept", "noupgrade"}
        => fds = fdsAtStart

\* A failed accept() is reported as NULL (serverlib.c 507-510), not by
\* aborting the process.
AcceptFailureReported ==
    lcs # "aborted"

=============================================================================
