------------------------- MODULE UdpstreamServerProofs -------------------------
(***************************************************************************)
(* Proofs, for every port range, command bound and descriptor table, of   *)
(* the udpstream server's type invariant and of ReadyAnnouncesTestPort,    *)
(* and, for every descriptor table in which stdin is open, of              *)
(* SessionEndReleasesTestSocket.  RepliesFollowCommands is stated with     *)
(* FlattenSeq, a recursive function; what it computes cannot be proved     *)
(* here, so that invariant stays with TLC.                                  *)
(***************************************************************************)
EXTENDS UdpstreamServer, SequenceTheorems, TLAPS

\* the last port the loop may try for a HELLO that asked for port h
PortMaxFor(h) == IF h = DefaultTestPort THEN MaxTestPort ELSE h

\* where serve_test is fixes what it has read from the client, what it
\* holds open and what it has sent
UCtl ==
    /\ spc = "peer" => nsent = 0 /\ inbox = NoMsg
    /\ spc = "hello" => \/ nsent = 0 /\ inbox = NoMsg
                        \/ nsent = 1 /\ inbox \in Hellos
    /\ spc \in {"peer", "hello", "listen"} =>
          /\ fds = InheritedFds /\ result = 0 /\ outbox = <<>>
    /\ spc \in {"listen", "loop"} => nsent >= 1 /\ inbox \in Cmds \cup {NoMsg}
    /\ spc = "listen" =>
          /\ hport \in HelloPorts
          /\ portmax = PortMaxFor(hport)
          /\ tport \in hport..portmax
    /\ spc = "loop" =>
          /\ tport \in TestPorts /\ tport = bound /\ result = 0
          /\ sockets[ctrlFamily] \in Fds \ InheritedFds
          /\ \A f \in Families \ {ctrlFamily} : sockets[f] = NoSock
          /\ fds = InheritedFds \cup {sockets[ctrlFamily]}
          /\ testSock = TestSockOf(sockets)

\* the inductive invariant of serve_test
UInv == UTypeOK /\ UCtl /\ ReadyAnnouncesTestPort

\* the program starts with stdin open (descriptor 0 is inherited)
StdinOpen == 0 \in InheritedFds

USE UdpAssumption

\* the constants one by one
LEMMA ConstTypes ==
    /\ ReservedPort \in Nat /\ DefaultTestPort \in Nat /\ MaxTestPort \in Nat
    /\ MaxCommands \in Nat /\ NFds \in Nat /\ HelloPorts \subseteq Nat
    /\ InheritedFds \subseteq Fds /\ CtrlFd \in InheritedFds
BY Zenon DEF Fds

\* every port the scan from a HELLO's port can reach is a test port
LEMMA ScanPorts ==
    ASSUME NEW h \in HelloPorts, NEW p \in h..(PortMaxFor(h) + 1)
    PROVE  p \in TestPorts
<1>1. p \in h..((IF h = DefaultTestPort THEN MaxTestPort ELSE h) + 1)
  BY DEF PortMaxFor
<1>2. QED
  BY <1>1 DEF TestPorts

\* a HELLO's port is a test port
LEMMA HelloIsTestPort == HelloPorts \subseteq TestPorts
BY ConstTypes, ScanPorts DEF PortMaxFor

LEMMA UInvInit == Init => UInv
<1> SUFFICES ASSUME Init PROVE UInv
  OBVIOUS
<1>1. UTypeOK
  <2>1. inbox \in Hellos \cup Cmds \cup {NoMsg}
    BY DEF Init
  <2>2. outbox \in Seq(Replies) /\ handled \in Seq(CmdKinds)
    BY DEF Init
  <2>3. sockets \in [Families -> Fds \cup {NoSock}] /\ testSock \in Fds \cup {NoSock}
    BY DEF Init
  <2>4. tport \in TestPorts \cup {0} /\ bound \in TestPorts \cup {0}
        /\ portmax \in HelloPorts \cup {MaxTestPort, 0} /\ hport \in HelloPorts \cup {0}
    BY DEF Init
  <2>5. nsent \in 0..(MaxCommands + 1) /\ fds \subseteq Fds
    BY ConstTypes DEF Init
  <2>6. QED
    BY <2>1, <2>2, <2>3, <2>4, <2>5 DEF Init, UTypeOK, Spcs
<1>2. UCtl
  BY DEF Init, UCtl
<1>3. ReadyAnnouncesTestPort
  BY DEF Init, ReadyAnnouncesTestPort
<1>4. QED
  BY <1>1, <1>2, <1>3 DEF UInv

\* the steps that send nothing and leave the port record alone keep READY
\* right
LEMMA ReadyKept ==
    ReadyAnnouncesTestPort /\ UNCHANGED <<outbox, bound>>
        => ReadyAnnouncesTestPort'
BY DEF ReadyAnnouncesTestPort

LEMMA GetPeerInv == UInv /\ GetPeer => UInv'
<1> SUFFICES ASSUME UInv, GetPeer PROVE UInv'
  OBVIOUS
<1>0. UTypeOK
  BY DEF UInv
<1>1. UTypeOK'
  <2>1. spc' \in Spcs /\ result' \in {0, -1}
    BY <1>0 DEF GetPeer, Return, UTypeOK, Spcs
  <2>2. UNCHANGED <<ctrlFamily, fds, others, tport, portmax, sockets, testSock,
                    inbox, closed, nsent, outbox, handled, hport, bound>>
    BY DEF GetPeer
  <2>3. QED
    BY <1>0, <2>1, <2>2 DEF UTypeOK
<1>2. UCtl'
  BY DEF UInv, GetPeer, Return, UCtl
<1>3. QED
  BY <1>1, <1>2, ReadyKept DEF UInv, GetPeer

LEMMA ReadHelloInv == UInv /\ ReadHello => UInv'
<1> SUFFICES ASSUME UInv, ReadHello PROVE UInv'
  OBVIOUS
<1>0. UTypeOK /\ UCtl /\ spc = "hello" /\ inbox' = NoMsg
  BY DEF UInv, ReadHello
<1>1. CASE inbox.kind # "HELLO"
  <2>1. spc' = "ret" /\ result' = -1
        /\ UNCHANGED <<tport, portmax, hport, fds, outbox, bound, handled,
                       sockets, testSock, nsent, others, ctrlFamily, closed>>
    BY <1>1 DEF ReadHello, Return
  <2>2. UTypeOK'
    BY <1>0, <2>1 DEF UTypeOK, Spcs, NoMsg
  <2>3. UCtl'
    BY <2>1 DEF UCtl
  <2>4. QED
    BY <2>1, <2>2, <2>3, ReadyKept DEF UInv
<1>2. CASE inbox.kind = "HELLO"
  <2>1. inbox \in Hellos /\ nsent = 1
    BY <1>0, <1>2 DEF UCtl, NoMsg, Hellos
  <2>2. inbox.port \in HelloPorts /\ inbox.port \in TestPorts
    <3>1. \E q \in HelloPorts : inbox = [kind |-> "HELLO", port |-> q]
      BY <1>2, <2>1 DEF Hellos
    <3>2. inbox.port \in HelloPorts
      BY <3>1
    <3>3. QED
      BY <3>2, HelloIsTestPort
  <2>3. /\ tport' = inbox.port /\ hport' = inbox.port
        /\ UNCHANGED <<fds, outbox, bound, handled, sockets, testSock, nsent,
                       others, ctrlFamily, closed>>
    BY <1>2 DEF ReadHello
  <2>4. \/ /\ inbox.port = DefaultTestPort /\ portmax' = MaxTestPort
           /\ spc' = "listen" /\ UNCHANGED result
        \/ spc' = "ret" /\ result' = -1 /\ UNCHANGED portmax
        \/ /\ inbox.port # DefaultTestPort /\ portmax' = inbox.port
           /\ spc' = "listen" /\ UNCHANGED result
    BY <1>2 DEF ReadHello, Return
  <2>5. UTypeOK'
    BY <1>0, <2>2, <2>3, <2>4 DEF UTypeOK, Spcs, NoMsg
  <2>6. UCtl'
    <3>1. nsent' >= 1 /\ inbox' \in Cmds \cup {NoMsg}
      BY <1>0, <2>1, <2>3
    <3>2. CASE spc' = "ret"
      BY <3>2 DEF UCtl
    <3>3. CASE spc' = "listen" /\ inbox.port = DefaultTestPort
      <4>1. portmax' = MaxTestPort /\ UNCHANGED result
        BY <2>4, <3>3
      <4>2. tport' \in hport'..portmax'
        BY <2>2, <2>3, <3>3, <4>1, ConstTypes
      <4>3. QED
        BY <1>0, <2>2, <2>3, <3>1, <3>3, <4>1, <4>2 DEF UCtl, PortMaxFor
    <3>4. CASE spc' = "listen" /\ inbox.port # DefaultTestPort
      <4>1. portmax' = inbox.port /\ UNCHANGED result
        BY <2>4, <3>4
      <4>2. tport' \in hport'..portmax'
        BY <2>2, <2>3, <4>1, ConstTypes
      <4>3. QED
        BY <1>0, <2>2, <2>3, <3>1, <3>4, <4>1, <4>2 DEF UCtl, PortMaxFor
    <3>5. QED
      BY <2>4, <3>2, <3>3, <3>4
  <2>7. QED
    BY <2>3, <2>5, <2>6, ReadyKept DEF UInv
<1>3. QED
  BY <1>1, <1>2

LEMMA ListenInv == UInv /\ Listen => UInv'
<1> SUFFICES ASSUME UInv, Listen PROVE UInv'
  OBVIOUS
<1>0. /\ UTypeOK /\ spc = "listen" /\ ctrlFamily \in Families
      /\ hport \in HelloPorts /\ portmax = PortMaxFor(hport)
      /\ tport \in hport..portmax
      /\ fds = InheritedFds /\ result = 0 /\ outbox = <<>>
      /\ nsent >= 1 /\ inbox \in Cmds \cup {NoMsg}
  BY DEF UInv, UCtl, UTypeOK, Listen
<1>1. tport \in TestPorts /\ tport + 1 \in TestPorts
  <2>1. /\ tport \in hport..(PortMaxFor(hport) + 1)
        /\ tport + 1 \in hport..(PortMaxFor(hport) + 1)
    BY <1>0, ConstTypes DEF PortMaxFor
  <2>2. QED
    BY <1>0, <2>1, ScanPorts
<1>2. UNCHANGED <<ctrlFamily, others, portmax, inbox, closed, nsent, outbox,
                  handled, hport>>
  BY DEF Listen
<1>3. ReadyAnnouncesTestPort'
  BY <1>0, <1>2 DEF ReadyAnnouncesTestPort
<1>4. CASE spc' = "loop"
  <2>1. PICK d \in Fds :
          /\ IsLowestFree(d)
          /\ sockets' = [f \in Families |-> IF f = ctrlFamily THEN d ELSE NoSock]
          /\ fds' = fds \cup {d}
          /\ testSock' = TestSockOf(sockets')
    BY <1>4 DEF Listen, Return, KeepScanning
  <2>2. bound' = tport /\ UNCHANGED <<tport, result>>
    BY <1>4 DEF Listen, Return, KeepScanning
  <2>3. d \in Fds \ InheritedFds
    BY <1>0, <2>1 DEF IsLowestFree
  <2>4. testSock' \in Fds \cup {NoSock}
    BY <2>1 DEF TestSockOf, Families
  <2>5. UTypeOK'
    BY <1>0, <1>1, <1>2, <1>4, <2>1, <2>2, <2>4 DEF UTypeOK, Spcs
  <2>6. UCtl'
    <3>1. /\ sockets'[ctrlFamily] = d
          /\ \A f \in Families \ {ctrlFamily} : sockets'[f] = NoSock
      BY <1>0, <2>1
    <3>2. /\ tport' \in TestPorts /\ tport' = bound' /\ result' = 0
          /\ fds' = InheritedFds \cup {sockets'[ctrlFamily]}
          /\ nsent' >= 1 /\ inbox' \in Cmds \cup {NoMsg}
      BY <1>0, <1>1, <1>2, <2>1, <2>2, <3>1
    <3>3. QED
      BY <1>2, <1>4, <2>1, <2>3, <3>1, <3>2 DEF UCtl
  <2>7. QED
    BY <1>3, <2>5, <2>6 DEF UInv
<1>5. CASE spc' = "listen"
  <2>1. others[tport] /\ tport < portmax /\ tport' = tport + 1
        /\ UNCHANGED <<sockets, fds, testSock, bound, result>>
    BY <1>5 DEF Listen, Return, KeepScanning
  <2>2. UTypeOK'
    <3>1. tport' \in TestPorts \cup {0} /\ spc' \in Spcs
      BY <1>1, <1>5, <2>1 DEF Spcs
    <3>2. QED
      BY <1>0, <1>2, <2>1, <3>1 DEF UTypeOK
  <2>3. UCtl'
    <3>1. tport' \in hport'..portmax'
      BY <1>0, <1>2, <2>1, ConstTypes DEF PortMaxFor
    <3>2. /\ fds' = InheritedFds /\ result' = 0 /\ outbox' = <<>>
          /\ nsent' >= 1 /\ inbox' \in Cmds \cup {NoMsg}
          /\ hport' \in HelloPorts /\ portmax' = PortMaxFor(hport')
      BY <1>0, <1>2, <2>1
    <3>3. QED
      BY <1>5, <3>1, <3>2 DEF UCtl
  <2>4. QED
    BY <1>3, <2>2, <2>3 DEF UInv
<1>6. CASE spc' = "ret"
  <2>1. /\ result' = -1 /\ tport' \in {tport, tport + 1}
        /\ UNCHANGED <<sockets, fds, testSock, bound>>
    BY <1>6 DEF Listen, Return
  <2>2. UTypeOK'
    BY <1>0, <1>1, <1>2, <1>6, <2>1 DEF UTypeOK, Spcs
  <2>3. UCtl'
    BY <1>6 DEF UCtl
  <2>4. QED
    BY <1>3, <2>2, <2>3 DEF UInv
<1>7. QED
  BY <1>4, <1>5, <1>6 DEF Listen, Return

\* the READYs of o announce port b
ReadyOK(o, b) == \A i \in DOMAIN o : o[i].type = "READY" => o[i].port = b

\* do_send()'s RESULT keeps every READY right
LEMMA AppendResult ==
    ASSUME NEW o \in Seq(Replies), NEW b, ReadyOK(o, b)
    PROVE  /\ Append(o, [type |-> "RESULT", port |-> 0]) \in Seq(Replies)
           /\ ReadyOK(Append(o, [type |-> "RESULT", port |-> 0]), b)
<1> DEFINE x == [type |-> "RESULT", port |-> 0]
<1>1. x \in Replies
  BY DEF Replies
<1>2. /\ Append(o, x) \in Seq(Replies)
      /\ Len(Append(o, x)) = Len(o) + 1
      /\ \A i \in 1..Len(o) : Append(o, x)[i] = o[i]
      /\ Append(o, x)[Len(o) + 1] = x
  BY <1>1, AppendProperties
<1>3. ReadyOK(Append(o, x), b)
  BY <1>2 DEF ReadyOK
<1>4. QED
  BY <1>2, <1>3

\* do_receive()'s READY for port b and its RESULT keep every READY right
LEMMA AppendReadyResult ==
    ASSUME NEW o \in Seq(Replies), NEW b \in TestPorts, ReadyOK(o, b)
    PROVE  LET t == o \o <<[type |-> "READY", port |-> b],
                           [type |-> "RESULT", port |-> 0]>>
           IN  t \in Seq(Replies) /\ ReadyOK(t, b)
<1> DEFINE y == <<[type |-> "READY", port |-> b], [type |-> "RESULT", port |-> 0]>>
<1>1. y \in Seq(Replies)
  BY DEF Replies
<1>2. /\ o \o y \in Seq(Replies)
      /\ Len(o \o y) = Len(o) + 2
      /\ \A i \in 1..(Len(o) + 2) :
            (o \o y)[i] = IF i <= Len(o) THEN o[i] ELSE y[i - Len(o)]
  BY <1>1, ConcatProperties
<1>3. ReadyOK(o \o y, b)
  <2> SUFFICES ASSUME NEW i \in DOMAIN (o \o y), (o \o y)[i].type = "READY"
               PROVE  (o \o y)[i].port = b
    BY DEF ReadyOK
  <2>1. i \in 1..(Len(o) + 2) /\ Len(o) \in Nat
    BY <1>2
  <2>2. CASE i <= Len(o)
    <3>1. (o \o y)[i] = o[i] /\ i \in DOMAIN o
      BY <1>2, <2>1, <2>2
    <3>2. QED
      BY <3>1 DEF ReadyOK
  <2>3. CASE i = Len(o) + 1
    BY <1>2, <2>1, <2>3
  <2>4. CASE i = Len(o) + 2
    BY <1>2, <2>1, <2>4
  <2>5. QED
    BY <2>1, <2>2, <2>3, <2>4
<1>4. QED
  BY <1>2, <1>3

LEMMA ServeInv == UInv /\ Serve => UInv'
<1> SUFFICES ASSUME UInv, Serve PROVE UInv'
  OBVIOUS
<1>0. /\ UTypeOK /\ UCtl /\ ReadyAnnouncesTestPort /\ spc = "loop"
      /\ tport \in TestPorts /\ tport = bound /\ result = 0
      /\ inbox \in Cmds \cup {NoMsg} /\ inbox' = NoMsg
      /\ UNCHANGED <<ctrlFamily, others, tport, portmax, sockets, testSock,
                     closed, nsent, hport, bound>>
  BY DEF UInv, UCtl, Serve
<1>1. CASE inbox = NoMsg
  <2>1. fds' = fds \ {testSock} /\ spc' = "ret" /\ result' = 0
        /\ UNCHANGED <<outbox, handled>>
    BY <1>1 DEF Serve, Return, NoMsg
  <2>2. UTypeOK'
    BY <1>0, <2>1 DEF UTypeOK, Spcs
  <2>3. UCtl'
    BY <2>1 DEF UCtl
  <2>4. QED
    BY <1>0, <2>1, <2>2, <2>3, ReadyKept DEF UInv
<1>2. CASE inbox # NoMsg /\ inbox.kind \in {"MALFORMED", "SENDbad", "RECEIVEbad"}
  <2>1. spc' \in {"crash", "ret"} /\ result' \in {0, -1}
        /\ UNCHANGED <<fds, outbox, handled>>
    <3>1. CASE inbox.kind = "MALFORMED"
      BY <1>0, <1>2, <3>1 DEF Serve, NoMsg
    <3>2. CASE inbox.kind \in {"SENDbad", "RECEIVEbad"}
      BY <1>2, <3>2 DEF Serve, Return, NoMsg
    <3>3. QED
      BY <1>2, <3>1, <3>2
  <2>2. UTypeOK'
    BY <1>0, <2>1 DEF UTypeOK, Spcs
  <2>3. UCtl'
    BY <2>1 DEF UCtl
  <2>4. QED
    BY <1>0, <2>1, <2>2, <2>3, ReadyKept DEF UInv
<1>3. CASE inbox # NoMsg /\ inbox.kind \notin {"MALFORMED", "SENDbad", "RECEIVEbad"}
  <2>1. inbox.kind \in {"SEND", "RECEIVE", "OTHER"}
    BY <1>0, <1>3 DEF Cmds, CmdKinds
  <2>2. /\ Handle(inbox.kind) /\ handled' = Append(handled, inbox.kind)
        /\ UNCHANGED <<fds, spc, result>>
    BY <1>3 DEF Serve, NoMsg
  <2>3. outbox' \in Seq(Replies) /\ ReadyOK(outbox', bound)
    <3>1. outbox \in Seq(Replies) /\ ReadyOK(outbox, bound)
      BY <1>0 DEF UTypeOK, ReadyAnnouncesTestPort, ReadyOK
    <3>2. CASE inbox.kind = "SEND"
      <4>1. outbox' = Append(outbox, [type |-> "RESULT", port |-> 0])
        BY <2>2, <3>2 DEF Handle
      <4>2. QED
        BY <3>1, <4>1, AppendResult
    <3>3. CASE inbox.kind = "RECEIVE"
      <4>1. outbox' = outbox \o <<[type |-> "READY", port |-> bound],
                                  [type |-> "RESULT", port |-> 0]>>
        BY <1>0, <2>2, <3>3 DEF Handle, ReadyPort
      <4>2. QED
        BY <1>0, <3>1, <4>1, AppendReadyResult
    <3>4. CASE inbox.kind = "OTHER"
      BY <2>2, <3>1, <3>4 DEF Handle
    <3>5. QED
      BY <2>1, <3>2, <3>3, <3>4
  <2>4. handled' \in Seq(CmdKinds)
    BY <1>0, <2>1, <2>2 DEF UTypeOK, CmdKinds
  <2>5. UTypeOK'
    BY <1>0, <2>2, <2>3, <2>4 DEF UTypeOK
  <2>6. UCtl'
    BY <1>0, <2>2 DEF UCtl
  <2>7. QED
    BY <1>0, <2>3, <2>5, <2>6 DEF UInv, ReadyAnnouncesTestPort, ReadyOK
<1>4. QED
  BY <1>1, <1>2, <1>3

LEMMA FinishInv == UInv /\ Finish => UInv'
<1> SUFFICES ASSUME UInv, Finish PROVE UInv'
  OBVIOUS
<1>1. UTypeOK'
  BY DEF UInv, Finish, UTypeOK, Spcs
<1>2. UCtl'
  BY DEF Finish, UCtl
<1>3. QED
  BY <1>1, <1>2, ReadyKept DEF UInv, Finish

LEMMA ClientSendInv == UInv /\ ClientSend => UInv'
<1> SUFFICES ASSUME UInv, ClientSend PROVE UInv'
  OBVIOUS
<1>0. /\ UTypeOK /\ UCtl /\ spc \in {"hello", "loop"} /\ inbox = NoMsg
      /\ UNCHANGED <<ctrlFamily, fds, others, tport, portmax, sockets,
                     testSock, spc, result, outbox, handled, hport, bound>>
  BY DEF UInv, ClientSend
<1>1. \/ /\ nsent < MaxCommands + 1 /\ nsent' = nsent + 1
         /\ inbox' \in IF nsent = 0 THEN Hellos ELSE Cmds
      \/ closed' = TRUE /\ UNCHANGED <<inbox, nsent>>
  BY DEF ClientSend
<1>2. spc = "hello" => nsent = 0
  BY <1>0 DEF UCtl, NoMsg, Hellos
<1>3. UTypeOK'
  <2>1. /\ inbox' \in Hellos \cup Cmds \cup {NoMsg}
        /\ nsent' \in 0..(MaxCommands + 1) /\ closed' \in BOOLEAN
    <3>1. nsent \in 0..(MaxCommands + 1) /\ inbox = NoMsg
      BY <1>0 DEF UTypeOK
    <3>2. CASE closed' = TRUE /\ UNCHANGED <<inbox, nsent>>
      BY <3>1, <3>2
    <3>3. CASE /\ nsent < MaxCommands + 1 /\ nsent' = nsent + 1
               /\ inbox' \in IF nsent = 0 THEN Hellos ELSE Cmds
      <4>1. closed' = closed /\ closed \in BOOLEAN
        BY <1>0, <3>3 DEF ClientSend, UTypeOK
      <4>2. QED
        BY <3>1, <3>3, <4>1, ConstTypes
    <3>4. QED
      BY <1>1, <3>2, <3>3
  <2>2. QED
    BY <1>0, <2>1 DEF UTypeOK
<1>4. UCtl'
  BY <1>0, <1>1, <1>2 DEF UCtl, UTypeOK
<1>5. QED
  BY <1>0, <1>3, <1>4, ReadyKept DEF UInv

LEMMA OtherInv == UInv /\ OtherProcess => UInv'
<1> SUFFICES ASSUME UInv, OtherProcess PROVE UInv'
  OBVIOUS
<1>1. UTypeOK'
  BY DEF UInv, OtherProcess, UTypeOK
<1>2. UCtl'
  BY DEF UInv, OtherProcess, UCtl
<1>3. QED
  BY <1>1, <1>2, ReadyKept DEF UInv, OtherProcess

LEMMA StutterInv == UInv /\ UNCHANGED vars => UInv'
BY DEF vars, UInv, UTypeOK, UCtl, ReadyAnnouncesTestPort

LEMMA UInvStep == UInv /\ [Next]_vars => UInv'
BY GetPeerInv, ReadHelloInv, ListenInv, ServeInv, FinishInv, ClientSendInv,
   OtherInv, StutterInv DEF Next, Server

LEMMA UInvInvariant == Spec => []UInv
BY UInvInit, UInvStep, PTL DEF Spec

\* serve_test's variables always hold values of their types: among them,
\* the port loop never moves tport beyond one past portmax, and only
\* parsed commands are acted on (udpstream_server.c 200-277).
THEOREM UTypeCorrect == Spec => []UTypeOK
BY UInvInvariant, PTL DEF UInv

\* Every READY that do_receive() sends tells the client the port the test
\* socket is bound to, whatever ports the loop skipped because other
\* processes held them (udpstream_server.c 80, 214-218).
THEOREM ReadyPortCorrect == Spec => []ReadyAnnouncesTestPort
BY UInvInvariant, PTL DEF UInv

\* with stdin open, the socket start_listening opened gets a descriptor
\* > 0, so serve_test's "socket > 0" test picks it as test_sock
LEMMA TestSockIsOurs ==
    ASSUME StdinOpen, UInv, spc = "loop"
    PROVE  /\ testSock = sockets[ctrlFamily]
           /\ testSock \in Fds \ InheritedFds
           /\ fds = InheritedFds \cup {testSock}
<1>1. /\ ctrlFamily \in Families
      /\ sockets[ctrlFamily] \in Fds \ InheritedFds
      /\ \A f \in Families \ {ctrlFamily} : sockets[f] = NoSock
      /\ fds = InheritedFds \cup {sockets[ctrlFamily]}
      /\ testSock = TestSockOf(sockets)
  BY DEF UInv, UCtl, UTypeOK
<1>2. sockets[ctrlFamily] > 0
  BY <1>1, ConstTypes DEF StdinOpen, Fds
<1>3. testSock = sockets[ctrlFamily]
  BY <1>1, <1>2 DEF TestSockOf, Families, NoSock
<1>4. QED
  BY <1>1, <1>3

LEMMA SessionEndStep ==
    StdinOpen /\ UInv /\ SessionEndReleasesTestSocket /\ [Next]_vars
        => SessionEndReleasesTestSocket'
<1> SUFFICES ASSUME StdinOpen, UInv, SessionEndReleasesTestSocket, [Next]_vars
             PROVE  SessionEndReleasesTestSocket'
  OBVIOUS
<1>1. CASE GetPeer
  BY <1>1 DEF GetPeer, Return, SessionEndReleasesTestSocket
<1>2. CASE ReadHello
  BY <1>2 DEF ReadHello, Return, SessionEndReleasesTestSocket
<1>3. CASE Listen
  BY <1>3 DEF Listen, Return, SessionEndReleasesTestSocket
<1>4. CASE Serve
  <2>1. CASE inbox = NoMsg
    <3>1. fds' = fds \ {testSock} /\ spc' = "ret"
      BY <1>4, <2>1 DEF Serve, Return, NoMsg
    <3>2. fds' = InheritedFds
      BY <1>4, <3>1, TestSockIsOurs DEF Serve
    <3>3. QED
      BY <3>1, <3>2 DEF SessionEndReleasesTestSocket
  <2>5. CASE inbox # NoMsg
    BY <1>4, <2>5 DEF Serve, Return, SessionEndReleasesTestSocket
  <2>6. QED
    BY <2>1, <2>5
<1>5. CASE Finish
  BY <1>5 DEF Finish, SessionEndReleasesTestSocket
<1>6. CASE ClientSend
  BY <1>6 DEF ClientSend, SessionEndReleasesTestSocket
<1>7. CASE OtherProcess
  BY <1>7 DEF OtherProcess, SessionEndReleasesTestSocket
<1>8. CASE UNCHANGED vars
  BY <1>8 DEF vars, SessionEndReleasesTestSocket
<1>9. QED
  BY <1>1, <1>2, <1>3, <1>4, <1>5, <1>6, <1>7, <1>8 DEF Next, Server

\* A test session that serve_test ends normally leaves open only what was
\* open before it (the test socket is closed), and run_udpstream_server
\* then closes the control connection too, for every descriptor table in
\* which the server starts with stdin open (udpstream_server.c 226-235,
\* 280-283, 388).  With stdin closed the UDP socket can be descriptor 0,
\* which serve_test skips, and the hypothesis fails.
THEOREM SessionEndClean ==
    ASSUME StdinOpen
    PROVE  Spec => []SessionEndReleasesTestSocket
<1>1. Init => SessionEndReleasesTestSocket
  BY DEF Init, SessionEndReleasesTestSocket
<1>2. QED
  BY <1>1, UInvInvariant, SessionEndStep, PTL DEF Spec

=============================================================================
