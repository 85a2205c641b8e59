---------------------------- MODULE UdpstreamServer ----------------------------
(***************************************************************************)
(* serve_test(), do_send() and do_receive() of                             *)
(* src/tests/udpstream/udpstream_server.c, as run_udpstream_server() runs  *)
(* them standalone: listen_control_server() (module ControlServer) has     *)
(* accepted the control connection on one family and left only that       *)
(* family's source address configured.                                    *)
(*                                                                         *)
(* The client sends the HELLO, then commands, one at a time, or closes the *)
(* connection.  start_listening() for the UDP test socket is one step with *)
(* the outcomes DualStackListener establishes: EADDRINUSE when the port is *)
(* taken, leaving nothing open (InUseReturnClean), or a socket for each    *)
(* configured family that socket() opened (ReturnedSocketsCorrect), or     *)
(* another error.  The test traffic itself (send_udp_stream,               *)
(* receive_udp_stream) is not under src/ and is left out: a command's      *)
(* effect here is the control messages it sends.                           *)
(***************************************************************************)
EXTENDS Integers, SequencesExt

CONSTANTS
    ReservedPort,     \* IPPORT_RESERVED
    DefaultTestPort,  \* DEFAULT_TEST_PORT
    MaxTestPort,      \* MAX_TEST_PORT
    HelloPorts,       \* test ports a HELLO may ask for
    MaxCommands,      \* bound on the commands a client sends
    NFds,             \* size of the process's descriptor table
    InheritedFds,     \* descriptors open when serve_test is called
    CtrlFd            \* the control connection's descriptor, one of them

ASSUME UdpAssumption ==
    /\ {ReservedPort, DefaultTestPort, MaxTestPort, MaxCommands, NFds} \subseteq Nat
    /\ HelloPorts \subseteq Nat /\ DefaultTestPort \in HelloPorts
    /\ DefaultTestPort <= MaxTestPort
    /\ InheritedFds \subseteq 0..(NFds - 1) /\ CtrlFd \in InheritedFds

Families == {"v4", "v6"}
Fds == 0..(NFds - 1)
NoSock == -1
\* the ports tport can hold: from the HELLO's port to one past portmax
TestPorts == UNION {h..((IF h = DefaultTestPort THEN MaxTestPort ELSE h) + 1) :
                       h \in HelloPorts}
\* what a control packet from the client unpacks to; "bad" fails to parse
CmdKinds == {"SEND", "SENDbad", "RECEIVE", "RECEIVEbad", "OTHER", "MALFORMED"}
Cmds == {[kind |-> k, port |-> 0] : k \in CmdKinds}
Hellos == {[kind |-> "HELLO", port |-> p] : p \in HelloPorts}
            \cup {[kind |-> "HELLObad", port |-> 0]}
Replies == {[type |-> "RESULT", port |-> 0]}
             \cup {[type |-> "READY", port |-> p] : p \in TestPorts}
NoMsg == [kind |-> "none", port |-> 0]
Spcs == {"peer", "hello", "listen", "loop", "ret", "done", "crash"}

VARIABLES
    ctrlFamily,  \* remote.ss_family: the family the control connection uses
    fds,         \* descriptors the process holds open
    others,      \* the test ports other processes hold
    tport,       \* options->tport
    portmax,     \* portmax
    sockets,     \* the struct socket_t of the test server
    testSock,    \* test_sock
    spc,         \* where serve_test is
    result,      \* what serve_test returned
    inbox,       \* the HELLO or command the client sent and we have not read
    closed,      \* the client has closed the control connection
    nsent,       \* how many packets the client has sent
    outbox,      \* the control messages we sent the client, in order
    handled,     \* history: the commands serve_test acted on, in order
    hport,       \* history: the test port the HELLO asked for
    bound        \* history: the port our test socket is bound to

vars == <<ctrlFamily, fds, others, tport, portmax, sockets, testSock, spc,
          result, inbox, closed, nsent, outbox, handled, hport, bound>>

\* socket() hands out the lowest-numbered free descriptor
IsLowestFree(d) == d \in Fds \ fds /\ \A e \in Fds \ fds : d <= e

Return(r) == spc' = "ret" /\ result' = r

-----------------------------------------------------------------------------
Init ==
    /\ ctrlFamily \in Families
    /\ fds = InheritedFds
    /\ others \in [TestPorts -> BOOLEAN]
    /\ tport = 0 /\ portmax = 0
    /\ sockets = [f \in Families |-> NoSock]
    /\ testSock = NoSock
    /\ spc = "peer"
    /\ result = 0
    /\ inbox = NoMsg /\ closed = FALSE /\ nsent = 0
    /\ outbox = <<>> /\ handled = <<>>
    /\ hport = 0 /\ bound = 0

\* getpeername() on the control socket; a failure returns -1
GetPeer ==
    /\ spc = "peer"
    /\ \/ spc' = "hello" /\ UNCHANGED result
       \/ Return(-1)
    /\ UNCHANGED <<ctrlFamily, fds, others, tport, portmax, sockets, testSock,
                   inbox, closed, nsent, outbox, handled, hport, bound>>

\* read_control_hello(): a bad HELLO or a closed connection returns -1.
\* The default test port scans up to MAX_TEST_PORT; any other port is the
\* only one tried, and below IPPORT_RESERVED it is refused.
ReadHello ==
    /\ spc = "hello" /\ (inbox # NoMsg \/ closed)
    /\ inbox' = NoMsg
    /\ IF inbox.kind # "HELLO"
       THEN Return(-1) /\ UNCHANGED <<tport, portmax, hport>>
       ELSE /\ tport' = inbox.port /\ hport' = inbox.port
            /\ IF inbox.port = DefaultTestPort
               THEN portmax' = MaxTestPort /\ spc' = "listen" /\ UNCHANGED result
               ELSE IF inbox.port < ReservedPort
               THEN Return(-1) /\ UNCHANGED portmax
               ELSE portmax' = inbox.port /\ spc' = "listen" /\ UNCHANGED result
    /\ UNCHANGED <<ctrlFamily, fds, others, sockets, testSock, closed, nsent,
                   outbox, handled, bound>>

\* Mutation of TestSockOf: the IPv4 socket is taken without a check.
TestSockOfV4Only(s) == s["v4"]

\* if ( sockets.socket > 0 ) test_sock = sockets.socket; else socket6
TestSockOf(s) == IF s["v4"] > 0 THEN s["v4"] ELSE s["v6"]

\* Mutation of KeepScanning: the last port is compared with <=.
KeepScanningPastMax == tport <= portmax

\* the comparison of options->tport++ < portmax (before the increment)
KeepScanning == tport < portmax

\* one start_listening(&sockets, options->tport, sockopts) on a UDP socket
\* of the control connection's family, and the loop condition
\*   while ( res == EADDRINUSE && options->tport++ < portmax )
\* which increments tport even when it stops the loop.  On success the
\* assert(socket > 0 || socket6 > 0) holds (the descriptor is > 2).
Listen ==
    /\ spc = "listen"
    /\ \/ /\ ~others[tport]
          /\ \E d \in Fds :
               /\ IsLowestFree(d)
               /\ sockets' = [f \in Families |-> IF f = ctrlFamily THEN d ELSE NoSock]
               /\ fds' = fds \cup {d}
               /\ testSock' = TestSockOf(sockets')
          /\ spc' = "loop" /\ bound' = tport
          /\ UNCHANGED <<tport, result>>
       \/ /\ others[tport]
          /\ tport' = tport + 1
          /\ IF KeepScanning THEN UNCHANGED <<spc, result>> ELSE Return(-1)
          /\ UNCHANGED <<sockets, fds, testSock, bound>>
       \/ /\ Return(-1)
          /\ UNCHANGED <<tport, sockets, fds, testSock, bound>>
    /\ UNCHANGED <<ctrlFamily, others, portmax, inbox, closed, nsent, outbox,
                   handled, hport>>

\* Mutation of ReadyPort: READY announces the port the HELLO asked for.
ReadyPortRequested == hport

\* do_receive(): send_control_ready(..., options->tport)
ReadyPort == tport

\* Mutation of Handle: the SEND case has no break and falls into RECEIVE.
HandleFallThrough(c) ==
    CASE c = "SEND" -> outbox' = outbox \o <<[type |-> "RESULT", port |-> 0],
                                             [type |-> "READY", port |-> ReadyPort],
                                             [type |-> "RESULT", port |-> 0]>>
      [] c = "RECEIVE" -> outbox' = outbox \o <<[type |-> "READY", port |-> ReadyPort],
                                                [type |-> "RESULT", port |-> 0]>>
      [] OTHER -> UNCHANGED outbox

\* the control messages one parsed command makes serve_test send:
\* do_send() sends a RESULT, do_receive() a READY and then a RESULT,
\* an unhandled type is only logged
Handle(c) ==
    CASE c = "SEND" -> outbox' = Append(outbox, [type |-> "RESULT", port |-> 0])
      [] c = "RECEIVE" -> outbox' = outbox \o <<[type |-> "READY", port |-> ReadyPort],
                                                [type |-> "RESULT", port |-> 0]>>
      [] OTHER -> UNCHANGED outbox

\* one iteration of the read_control_packet() loop.  The packet is unpacked
\* without a NULL check (msg->type of a packet that does not unpack is a
\* NULL dereference); a SEND or RECEIVE that fails to parse returns -1
\* without closing the test socket; the end of the connection closes
\* test_sock and returns 0.
Serve ==
    /\ spc = "loop" /\ (inbox # NoMsg \/ closed)
    /\ inbox' = NoMsg
    /\ CASE inbox = NoMsg ->
                /\ fds' = fds \ {testSock}
                /\ Return(0)
                /\ UNCHANGED <<outbox, handled>>
         [] inbox.kind = "MALFORMED" ->
                spc' = "crash" /\ UNCHANGED <<fds, result, outbox, handled>>
         [] inbox.kind \in {"SENDbad", "RECEIVEbad"} ->
                Return(-1) /\ UNCHANGED <<fds, outbox, handled>>
         [] OTHER ->
                /\ Handle(inbox.kind)
                /\ handled' = Append(handled, inbox.kind)
                /\ UNCHANGED <<fds, spc, result>>
    /\ UNCHANGED <<ctrlFamily, others, tport, portmax, sockets, testSock,
                   closed, nsent, hport, bound>>

\* run_udpstream_server(), standalone: close_control_connection(ctrl)
Finish ==
    /\ spc = "ret"
    /\ spc' = "done"
    /\ fds' = fds \ {CtrlFd}
    /\ UNCHANGED <<ctrlFamily, others, tport, portmax, sockets, testSock,
                   result, inbox, closed, nsent, outbox, handled, hport, bound>>

\* the client sends its HELLO, then a command, after reading our replies;
\* or it closes the connection
ClientSend ==
    /\ spc \in {"hello", "loop"} /\ inbox = NoMsg /\ ~closed
    /\ \/ /\ nsent < MaxCommands + 1
          /\ \E m \in IF nsent = 0 THEN Hellos ELSE Cmds : inbox' = m
          /\ nsent' = nsent + 1
          /\ UNCHANGED closed
       \/ closed' = TRUE /\ UNCHANGED <<inbox, nsent>>
    /\ UNCHANGED <<ctrlFamily, fds, others, tport, portmax, sockets, testSock,
                   spc, result, outbox, handled, hport, bound>>

\* other processes take and release test ports
OtherProcess ==
    /\ \E p \in TestPorts : others' = [others EXCEPT ![p] = ~others[p]]
    /\ UNCHANGED <<ctrlFamily, fds, tport, portmax, sockets, testSock, spc,
                   result, inbox, closed, nsent, outbox, handled, hport, bound>>

Server == GetPeer \/ ReadHello \/ Listen \/ Serve \/ Finish

Next == Server \/ ClientSend \/ OtherProcess

Spec == Init /\ [][Next]_vars

-----------------------------------------------------------------------------
UTypeOK ==
    /\ ctrlFamily \in Families
    /\ fds \subseteq Fds
    /\ others \in [TestPorts -> BOOLEAN]
    /\ tport \in TestPorts \cup {0}
    /\ portmax \in HelloPorts \cup {MaxTestPort, 0}
    /\ sockets \in [Families -> Fds \cup {NoSock}]
    /\ testSock \in Fds \cup {NoSock}
    /\ spc \in Spcs
    /\ result \in {0, -1}
    /\ inbox \in Hellos \cup Cmds \cup {NoMsg}
    /\ closed \in BOOLEAN
    /\ nsent \in 0..(MaxCommands + 1)
    /\ outbox \in Seq(Replies)
    /\ handled \in Seq(CmdKinds)
    /\ hport \in HelloPorts \cup {0}
    /\ bound \in TestPorts \cup {0}

\* Every READY that do_receive() sends tells the client the port our UDP
\* test socket is bound to, even when the port loop had to move past ports
\* other processes held (udpstream_server.c 80, 214-218).
ReadyAnnouncesTestPort ==
    \A i \in DOMAIN outbox :
        outbox[i].type = "READY" => outbox[i].port = bound

\* The control messages sent to the client are exactly the replies of the
\* commands serve_test acted on, in the order the commands arrived: one
\* RESULT per SEND, READY then RESULT per RECEIVE, nothing for an unhandled
\* type (udpstream_server.c 239-277).
RepliesFollowCommands ==
    LET replies(c) == CASE c = "SEND" -> <<"RESULT">>
                        [] c = "RECEIVE" -> <<"READY", "RESULT">>
                        [] OTHER -> <<>>
    IN  [i \in DOMAIN outbox |-> outbox[i].type]
          = FlattenSeq([i \in DOMAIN handled |-> replies(handled[i])])

\* A test session that ends normally (serve_test returns 0) leaves open only
\* what was open before it: the test socket it served on is closed, and
\* then run_udpstream_server closes the control connection too
\* (udpstream_server.c 226-235, 280-283, 388).
SessionEndReleasesTestSocket ==
    /\ spc = "ret" /\ result = 0 => fds = InheritedFds
    /\ spc = "done" /\ result = 0 => fds = InheritedFds \ {CtrlFd}

\* A control packet that does not unpack is a protocol violation: it ends
\* the session and does not crash the process (spec section 7 (c)).
MalformedPacketNoCrash == spc # "crash"

=============================================================================
