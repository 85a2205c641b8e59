------------------------- MODULE ControlServerProofs -------------------------
(***************************************************************************)
(* Proof, for every port range and descriptor table in which the program   *)
(* starts with stdin open, that listen_control_server() returns a control  *)
(* connection only with every other socket it opened closed.  The retry    *)
(* loop is covered by the descriptor invariant of DualStackListenerProofs; *)
(* after it, the listening sockets are exactly the descriptors above the   *)
(* inherited ones, none of them 0, so closing those with a descriptor > 0   *)
(* closes them all.  With stdin closed the theorem's hypothesis fails, and *)
(* the control_no_stdin run shows what goes wrong.                          *)
(***************************************************************************)
EXTENDS ControlServer, DualStackListenerProofs

\* the descriptors of our live listening sockets
LiveFds == {sockets[f] : f \in Live}

\* after the retry loop, before accept(): the listening sockets are the
\* only descriptors added to the inherited ones, and none is 0
Listening ==
    /\ sockets \in [Families -> Fds \cup {NoSock}]
    /\ st \in [Families -> SockStates]
    /\ Consistent
    /\ fds = fdsAtStart \cup LiveFds
    /\ \A f \in Live : sockets[f] \in Fds \ fdsAtStart

\* the inductive invariant of listen_control_server
CSInv ==
    /\ fdsAtStart = InheritedFds
    /\ lcs \in Lcs
    /\ lcs \in {"loop", "wait", "accept"} => csock = NoSock
    /\ lcs # "ret" => outcome = "none"
    /\ lcs = "loop" =>
          /\ DescInv
          /\ fdsAtCall = fdsAtStart
          /\ pc = "done" /\ res = "ok" => Consistent
    /\ lcs \in {"wait", "accept"} => Listening
    /\ lcs = "establish" \/ outcome = "ctrl" =>
          /\ csock \in Fds \ fdsAtStart
          /\ fds = fdsAtStart \cup {csock}

\* the program starts with stdin open (descriptor 0 is inherited)
StdinOpen == 0 \in InheritedFds

LEMMA CSInvInit == CSInit => CSInv
<1> SUFFICES ASSUME CSInit PROVE CSInv
  OBVIOUS
<1>1. DescInv
  BY InitDesc DEF CSInit
<1>2. QED
  BY <1>1 DEF CSInit, Init, CSInv, Lcs

LEMMA LoopStepCS == CSInv /\ LoopStep => CSInv'
<1> SUFFICES ASSUME CSInv, LoopStep PROVE CSInv'
  OBVIOUS
<1>1. lcs = "loop" /\ DescInv /\ fdsAtCall = fdsAtStart
      /\ (pc = "done" /\ res = "ok" => Consistent)
  BY DEF LoopStep, CSInv
<1>2. DescInv'
  BY <1>1, OpenV4Desc, OpenV6Desc, BindDeviceDesc, BindV4Desc, BindV6Desc,
     ListenV4Desc, ListenV6Desc, CheckDesc, RetryDesc DEF LoopStep, Listener
<1>3. fdsAtCall' = fdsAtStart'
  <2>1. CASE OpenV4
    <3>1. Live = {}
      BY <1>1, <2>1 DEF OpenV4, DescInv, Stage
    <3>2. fds = fdsAtStart
      BY <1>1, <3>1 DEF DescInv
    <3>3. QED
      BY <2>1, <3>2 DEF OpenV4, LoopStep
  <2>2. CASE ~OpenV4
    BY <1>1, <2>2 DEF LoopStep, Listener, OpenV6, BindDevice, BindV4, BindV6,
                      ListenV4, ListenV6, CheckListening, Retry
  <2>3. QED
    BY <2>1, <2>2
<1>4. pc' = "done" /\ res' = "ok" => Consistent'
  <2> SUFFICES ASSUME pc' = "done", res' = "ok" PROVE Consistent'
    OBVIOUS
  <2>1. Retry
    <3>1. ~(OpenV4 \/ OpenV6 \/ BindDevice \/ CheckListening)
      BY DEF OpenV4, OpenV6, BindDevice, CheckListening, Return
    <3>2. ~(BindV4 \/ BindV6)
      BY DEF BindV4, BindV6, BindFamily, Return
    <3>3. ~(ListenV4 \/ ListenV6)
      BY DEF ListenV4, ListenV6, ListenFamily, Return
    <3>4. QED
      BY <3>1, <3>2, <3>3 DEF LoopStep, Listener
  <2>2. pc = "ret" /\ res = "ok" /\ UNCHANGED <<sockets, st>>
    BY <2>1 DEF Retry
  <2>3. Consistent
    BY <1>1, <2>2 DEF DescInv
  <2>4. QED
    BY <2>2, <2>3 DEF Consistent
<1>5. QED
  BY <1>1, <1>2, <1>3, <1>4 DEF CSInv, LoopStep

LEMMA LoopExitCS == CSInv /\ LoopExit => CSInv'
<1> SUFFICES ASSUME CSInv, LoopExit PROVE CSInv'
  OBVIOUS
<1>1. CASE res = "ok"
  <2>1. DescInv /\ fdsAtCall = fdsAtStart /\ Consistent
    BY <1>1 DEF LoopExit, CSInv
  <2>2. Listening
    BY <2>1 DEF Listening, DescInv, TypeOK, LiveFds
  <2>3. QED
    BY <1>1, <2>2 DEF LoopExit, CSInv, Listening, Consistent, Live, LiveFds,
                      vars, Lcs
<1>2. CASE res # "ok"
  BY <1>2 DEF LoopExit, CSInv, Lcs
<1>3. QED
  BY <1>1, <1>2

LEMMA WaitCS == CSInv /\ WaitForData => CSInv'
BY DEF WaitForData, CSInv, Listening, Consistent, Live, LiveFds, vars, Lcs

\* accept(): with stdin open the listening sockets are exactly those with
\* a descriptor > 0, so closing those leaves the accepted socket alone
LEMMA AcceptCS == StdinOpen /\ CSInv /\ Accept => CSInv'
<1> SUFFICES ASSUME StdinOpen, CSInv, Accept PROVE CSInv'
  OBVIOUS
<1>1. lcs = "accept" /\ Listening /\ csock = NoSock /\ outcome = "none"
      /\ fdsAtStart = InheritedFds
  BY DEF Accept, CSInv
<1>2. ClosedListeners = Live
  <2>1. 0 \in fdsAtStart
    BY <1>1 DEF StdinOpen
  <2>2. \A f \in Live : sockets[f] > 0
    BY <1>1, <2>1 DEF Listening, Fds
  <2>3. \A f \in Families \ Live : sockets[f] = NoSock
    BY <1>1 DEF Listening, Consistent, Live
  <2>4. QED
    BY <2>2, <2>3 DEF ClosedListeners, Live, NoSock
<1>3. PICK c \in {d \in Fds : IsLowestFree(d)} \cup {NoSock} :
        /\ csock' = c
        /\ \/ /\ c <= 0
              /\ lcs' = "aborted"
              /\ UNCHANGED <<fds, st, pending, outcome>>
           \/ /\ fds' = (fds \cup ({c} \ {NoSock}))
                          \ {sockets[f] : f \in ClosedListeners}
              /\ IF c = NoSock THEN lcs' = "ret" /\ outcome' = "noaccept"
                               ELSE lcs' = "establish" /\ UNCHANGED outcome
  BY DEF Accept
<1>4. UNCHANGED fdsAtStart
  BY DEF Accept
<1>5. CASE lcs' = "aborted" /\ UNCHANGED outcome
  BY <1>1, <1>3, <1>4, <1>5 DEF CSInv, Lcs
<1>6. CASE lcs' = "ret" /\ outcome' = "noaccept"
  BY <1>1, <1>3, <1>4, <1>6 DEF CSInv, Lcs
<1>7. CASE lcs' = "establish" /\ UNCHANGED outcome /\ c # NoSock
  <2>1. c \in Fds \ fds
    BY <1>3, <1>7 DEF IsLowestFree
  <2>2. fds' = (fds \cup {c}) \ LiveFds
    BY <1>2, <1>3, <1>7, <2>1 DEF NoSock, LiveFds, Fds
  <2>3. fdsAtStart \cap LiveFds = {} /\ c \notin LiveFds
    BY <1>1, <2>1 DEF Listening, LiveFds
  <2>4. fds' = fdsAtStart \cup {c} /\ c \in Fds \ fdsAtStart
    BY <1>1, <2>1, <2>2, <2>3 DEF Listening
  <2>5. QED
    BY <1>1, <1>3, <1>4, <1>7, <2>4 DEF CSInv, Lcs
<1>8. QED
  BY <1>3, <1>5, <1>6, <1>7

LEMMA EstablishCS == CSInv /\ Establish => CSInv'
BY DEF Establish, CSInv, Lcs

LEMMA ClientCS == CSInv /\ ClientConnect => CSInv'
BY DEF ClientConnect, CSInv, Listening, Consistent, Live, LiveFds, vars,
       DescInv, TypeOK, Stage, Target, Opened

LEMMA OtherCS == CSInv /\ OtherProcess /\ UNCHANGED server => CSInv'
<1> SUFFICES ASSUME CSInv, OtherProcess, UNCHANGED server PROVE CSInv'
  OBVIOUS
<1>1. lcs = "loop" => DescInv'
  BY OtherDesc DEF CSInv
<1>2. QED
  BY <1>1 DEF OtherProcess, CSInv, server, Listening, Consistent, Live,
              LiveFds

LEMMA StutterCS == CSInv /\ UNCHANGED csVars => CSInv'
BY DEF csVars, vars, CSInv, Listening, Consistent, Live, LiveFds, DescInv,
       TypeOK, Stage, Target, Opened

\* When listen_control_server returns a control connection, every socket
\* it opened on the way (on every port the loop tried, and both listening
\* sockets) has been closed, for every port range and descriptor table in
\* which the server starts with stdin open (serverlib.c 446-517).
THEOREM OnlyControlSocketLeft ==
    ASSUME StdinOpen
    PROVE  CSSpec => []ControlLeavesOnlyControlSocket
<1>1. CSInv /\ [CSNext]_csVars => CSInv'
  BY LoopStepCS, LoopExitCS, WaitCS, AcceptCS, EstablishCS, ClientCS, OtherCS,
     StutterCS DEF CSNext, Server
<1>2. CSInv => ControlLeavesOnlyControlSocket
  BY DEF CSInv, ControlLeavesOnlyControlSocket
<1>3. QED
  BY <1>1, <1>2, CSInvInit, PTL DEF CSSpec

-----------------------------------------------------------------------------
(* Type correctness needs no hypothesis on stdin: inside the retry loop    *)
(* the descriptor invariant keeps the listener's variables typed, and      *)
(* accept() restricts the address to the family wait_for_data() reported.  *)

\* the inductive strengthening of CSTypeOK
CSTInv ==
    /\ CSTypeOK
    /\ lcs = "loop" => DescInv
    /\ lcs = "accept" => family \in Families

LEMMA CSTInvInit == CSInit => CSTInv
<1> SUFFICES ASSUME CSInit PROVE CSTInv
  OBVIOUS
<1>1. DescInv
  BY InitDesc DEF CSInit
<1>2. TypeOK /\ fdsAtStart \subseteq Fds
  BY <1>1 DEF CSInit, DescInv, TypeOK
<1>3. /\ pending \in [Families -> BOOLEAN] /\ family \in Families \cup {"none"}
      /\ csock \in Fds \cup {NoSock} /\ lcs = "loop" /\ outcome \in Outcomes
  BY DEF CSInit, Outcomes
<1>4. QED
  BY <1>1, <1>2, <1>3 DEF CSTInv, CSTypeOK, Lcs

LEMMA LoopStepT == CSTInv /\ LoopStep => CSTInv'
<1> SUFFICES ASSUME CSTInv, LoopStep PROVE CSTInv'
  OBVIOUS
<1>1. DescInv'
  BY OpenV4Desc, OpenV6Desc, BindDeviceDesc, BindV4Desc, BindV6Desc,
     ListenV4Desc, ListenV6Desc, CheckDesc, RetryDesc
  DEF LoopStep, Listener, CSTInv
<1>2. pending' \in [Families -> BOOLEAN]
  BY DEF LoopStep
<1>3. QED
  BY <1>1, <1>2 DEF LoopStep, CSTInv, CSTypeOK, DescInv

LEMMA LoopExitT == CSTInv /\ LoopExit => CSTInv'
<1> SUFFICES ASSUME CSTInv, LoopExit PROVE CSTInv'
  OBVIOUS
<1>1. DescInv /\ TypeOK
  BY DEF LoopExit, CSTInv, DescInv
<1>2. TypeOK' /\ lcs' \in {"wait", "ret"} /\ outcome' \in Outcomes
  BY <1>1 DEF LoopExit, vars, TypeOK, CSTInv, CSTypeOK, Outcomes
<1>3. QED
  BY <1>2 DEF LoopExit, CSTInv, CSTypeOK, Lcs

LEMMA WaitT == CSTInv /\ WaitForData => CSTInv'
<1> SUFFICES ASSUME CSTInv, WaitForData PROVE CSTInv'
  OBVIOUS
<1>1. TypeOK'
  BY DEF WaitForData, vars, TypeOK, CSTInv, CSTypeOK
<1>2. \/ lcs' = "accept" /\ family' \in Families /\ UNCHANGED outcome
      \/ lcs' = "ret" /\ outcome' \in Outcomes /\ UNCHANGED family
  BY DEF WaitForData, Outcomes, Families
<1>3. QED
  BY <1>1, <1>2 DEF WaitForData, CSTInv, CSTypeOK, Lcs

LEMMA AcceptT == CSTInv /\ Accept => CSTInv'
<1> SUFFICES ASSUME CSTInv, Accept PROVE CSTInv'
  OBVIOUS
<1>1. TypeOK /\ family \in Families /\ pending \in [Families -> BOOLEAN]
  BY DEF Accept, CSTInv, CSTypeOK
<1>2. PICK c \in {d \in Fds : IsLowestFree(d)} \cup {NoSock} :
        /\ csock' = c
        /\ \/ /\ lcs' = "aborted"
              /\ UNCHANGED <<fds, st, pending, outcome>>
           \/ /\ fds' = (fds \cup ({c} \ {NoSock}))
                          \ {sockets[f] : f \in ClosedListeners}
              /\ st' = [f \in Families |->
                          IF f \in ClosedListeners THEN "none" ELSE st[f]]
              /\ pending' = [f \in Families |->
                          pending[f] /\ f # family /\ f \notin ClosedListeners]
              /\ IF c = NoSock THEN lcs' = "ret" /\ outcome' = "noaccept"
                               ELSE lcs' = "establish" /\ UNCHANGED outcome
  BY DEF Accept
<1>3. sockopts' \in SockOpts
  BY <1>1 DEF Accept, TypeOK, SockOpts
<1>4. /\ fds' \subseteq Fds /\ st' \in [Families -> SockStates]
      /\ pending' \in [Families -> BOOLEAN]
      /\ lcs' \in Lcs \ {"loop", "accept"} /\ outcome' \in Outcomes
  <2>1. CASE lcs' = "aborted" /\ UNCHANGED <<fds, st, pending, outcome>>
    BY <1>1, <2>1 DEF CSTInv, CSTypeOK, TypeOK, Lcs
  <2>2. CASE /\ fds' = (fds \cup ({c} \ {NoSock}))
                       \ {sockets[f] : f \in ClosedListeners}
             /\ st' = [f \in Families |->
                         IF f \in ClosedListeners THEN "none" ELSE st[f]]
             /\ pending' = [f \in Families |->
                         pending[f] /\ f # family /\ f \notin ClosedListeners]
             /\ IF c = NoSock THEN lcs' = "ret" /\ outcome' = "noaccept"
                              ELSE lcs' = "establish" /\ UNCHANGED outcome
    <3>1. fds' \subseteq Fds
      BY <1>1, <1>2, <2>2 DEF TypeOK
    <3>2. st' \in [Families -> SockStates] /\ pending' \in [Families -> BOOLEAN]
      BY <1>1, <2>2 DEF TypeOK, SockStates
    <3>3. lcs' \in {"ret", "establish"} /\ outcome' \in Outcomes
      BY <2>2 DEF CSTInv, CSTypeOK, Outcomes
    <3>4. QED
      BY <3>1, <3>2, <3>3 DEF Lcs
  <2>3. QED
    BY <1>2, <2>1, <2>2
<1>5. QED
  BY <1>1, <1>2, <1>3, <1>4 DEF Accept, CSTInv, CSTypeOK, TypeOK

LEMMA EstablishT == CSTInv /\ Establish => CSTInv'
BY DEF Establish, CSTInv, CSTypeOK, TypeOK, Lcs, Outcomes

LEMMA ClientT == CSTInv /\ ClientConnect => CSTInv'
BY DEF ClientConnect, CSTInv, CSTypeOK, vars, DescInv, TypeOK, Stage, Target,
       Opened, Consistent, Live

LEMMA OtherT == CSTInv /\ OtherProcess /\ UNCHANGED server => CSTInv'
<1> SUFFICES ASSUME CSTInv, OtherProcess, UNCHANGED server PROVE CSTInv'
  OBVIOUS
<1>1. others' \in [Ports -> [Families -> Occupancy]]
  BY DEF OtherProcess, CSTInv, CSTypeOK, TypeOK, Occupancy
<1>2. lcs = "loop" => DescInv'
  BY OtherDesc DEF CSTInv
<1>3. QED
  BY <1>1, <1>2 DEF OtherProcess, CSTInv, CSTypeOK, TypeOK, server

LEMMA StutterT == CSTInv /\ UNCHANGED csVars => CSTInv'
BY DEF csVars, vars, CSTInv, CSTypeOK, TypeOK, DescInv, Stage, Target,
       Opened, Consistent, Live

\* listen_control_server keeps every variable of its model typed, for every
\* port range and descriptor table, stdin open or not (serverlib.c 446-517).
THEOREM CSTypeCorrect == CSSpec => []CSTypeOK
<1>1. CSTInv /\ [CSNext]_csVars => CSTInv'
  BY LoopStepT, LoopExitT, WaitT, AcceptT, EstablishT, ClientT, OtherT,
     StutterT DEF CSNext, Server
<1>2. QED
  BY <1>1, CSTInvInit, PTL DEF CSSpec, CSTInv

-----------------------------------------------------------------------------
\* with stdin open every live listening socket is watched by select()
LEMMA ListeningWatched ==
    ASSUME StdinOpen, CSInv, lcs = "wait"
    PROVE  \A f \in Families : st[f] = "listening" => Watched(f)
<1> SUFFICES ASSUME NEW f \in Families, st[f] = "listening" PROVE sockets[f] > 0
  BY DEF Watched
<1>1. Listening /\ fdsAtStart = InheritedFds
  BY DEF CSInv
<1>2. f \in Live
  BY DEF Live
<1>3. sockets[f] \in Fds \ fdsAtStart /\ 0 \in fdsAtStart
  BY <1>1, <1>2 DEF Listening, StdinOpen
<1>4. QED
  BY <1>3 DEF Fds

\* wait_for_data() times out only when no client connection is queued on a
\* listening socket, for every port range and descriptor table in which the
\* server starts with stdin open (testlib.c 418-500); the control_no_stdin
\* run shows a queued client turned away when stdin is closed.
THEOREM TimeoutIdle ==
    ASSUME StdinOpen
    PROVE  CSSpec => TimeoutOnlyWhenIdle
<1> DEFINE TO == lcs = "wait" /\ outcome' = "timeout"
                   => \A f \in Families : ~(st[f] = "listening" /\ pending[f])
<1>1. CSInv /\ [CSNext]_csVars => TO
  <2> SUFFICES ASSUME CSInv, [CSNext]_csVars, lcs = "wait", outcome' = "timeout"
               PROVE  \A f \in Families : ~(st[f] = "listening" /\ pending[f])
    OBVIOUS
  <2>1. outcome = "none"
    BY DEF CSInv
  <2>2. WaitForData /\ Readable = {}
    BY <2>1 DEF CSNext, Server, LoopStep, LoopExit, Accept, Establish,
                ClientConnect, server, csVars, WaitForData
  <2>3. QED
    BY <2>2, ListeningWatched DEF Readable
<1>2. CSInv /\ [CSNext]_csVars => CSInv'
  BY LoopStepCS, LoopExitCS, WaitCS, AcceptCS, EstablishCS, ClientCS, OtherCS,
     StutterCS DEF CSNext, Server
<1>3. QED
  BY <1>1, <1>2, CSInvInit, PTL DEF CSSpec, TimeoutOnlyWhenIdle

=============================================================================
