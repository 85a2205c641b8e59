--------------------------- MODULE ConnectorProofs ---------------------------
(***************************************************************************)
(* Proofs, for every MAX_CONNECT_ATTEMPTS and descriptor table, of the     *)
(* safety properties of connect_control_server that the remote_client run *)
(* checks on a small instance.                                             *)
(***************************************************************************)
EXTENDS Connector, TLAPS

USE ConnectAssumption

\* the socket connect_to_server opened is fresh and the only descriptor it
\* added to the table
Fresh == sock \in Fds /\ sock \notin fdsAtCall /\ fds = fdsAtCall \cup {sock}

\* what each return path of connect_control_server leaves behind
RetInv ==
    /\ why # "none"
    /\ session <=> why = "ok"
    /\ why = "ok" => /\ connected /\ attempts < MaxConnectAttempts
                     /\ (~cfg.ssl \/ cert = "match")
                     /\ Fresh
    /\ why \in {"noupgrade", "nocert", "badname"} => fds = fdsAtCall
    /\ why = "cap" => attempts = MaxConnectAttempts /\ ~connected

\* the inductive invariant: the state at each point of the code
CInv ==
    /\ ConnTypeOK
    /\ pc # "ret" => why = "none" /\ ~session
    /\ pc \in {"setport", "socket"} =>
           sock = NoSock /\ fds = fdsAtCall /\ attempts = 0 /\ ~connected
    /\ pc \in {"device", "bind", "connect", "upgrade"} => Fresh
    /\ pc \in {"device", "bind"} => attempts = 0 /\ ~connected
    /\ pc = "connect" => attempts < MaxConnectAttempts /\ ~connected
    /\ pc = "upgrade" => attempts < MaxConnectAttempts /\ connected
    /\ pc = "ret" => RetInv

-----------------------------------------------------------------------------
LEMMA InitCInv == Init => CInv
<1> SUFFICES ASSUME Init PROVE CInv
    OBVIOUS
<1>1. ConnTypeOK
  <2>1. dest \in DestFamilies /\ cert \in Certs /\ peerUp \in BOOLEAN
        /\ cfg \in [device : BOOLEAN, source : SUBSET Families, ssl : BOOLEAN]
    BY Zenon DEF Init
  <2>2. fds \subseteq Fds /\ fdsAtCall \subseteq Fds /\ sock \in Fds \cup {NoSock}
    BY DEF Init, Fds, NoSock
  <2>3. attempts \in 0..MaxConnectAttempts
    BY DEF Init
  <2>4. pc \in Pcs /\ why \in Whys /\ connected \in BOOLEAN /\ session \in BOOLEAN
    BY Zenon DEF Init, Pcs, Whys
  <2> QED
    BY <2>1, <2>2, <2>3, <2>4 DEF ConnTypeOK
<1>2. pc = "setport" /\ why = "none" /\ ~session /\ sock = NoSock
      /\ fds = fdsAtCall /\ attempts = 0 /\ ~connected
  BY DEF Init
<1> QED
  BY <1>1, <1>2 DEF CInv

LEMMA SetPortCInv == CInv /\ SetPort => CInv'
BY DEF CInv, SetPort, Fail, ConnTypeOK, RetInv, Fresh, DestFamilies, Pcs, Whys

LEMMA SocketCInv == CInv /\ Socket => CInv'
<1> SUFFICES ASSUME CInv, Socket PROVE CInv'
    OBVIOUS
<1>1. CASE \E d \in Fds : IsLowestFree(d) /\ sock' = d /\ fds' = fds \cup {d}
                          /\ pc' = "device" /\ UNCHANGED why
  <2>1. PICK d \in Fds : IsLowestFree(d) /\ sock' = d /\ fds' = fds \cup {d}
                         /\ pc' = "device" /\ UNCHANGED why
    BY <1>1
  <2>2. d \notin fdsAtCall
    BY <2>1 DEF IsLowestFree, CInv, Socket
  <2> QED
    BY <2>1, <2>2 DEF CInv, Socket, ConnTypeOK, Fresh, Pcs
<1>2. CASE Fail("nosocket") /\ UNCHANGED <<sock, fds>>
  BY <1>2 DEF CInv, Socket, Fail, ConnTypeOK, RetInv, Pcs, Whys
<1> QED
  BY <1>1, <1>2 DEF Socket

LEMMA BindDeviceCInv == CInv /\ BindDevice => CInv'
BY DEF CInv, BindDevice, Fail, ConnTypeOK, RetInv, Fresh, Pcs, Whys

LEMMA BindSourceCInv == CInv /\ BindSource => CInv'
BY DEF CInv, BindSource, Fail, ConnTypeOK, RetInv, Fresh, Pcs, Whys

LEMMA ConnectCInv == CInv /\ Connect => CInv'
<1> SUFFICES ASSUME CInv, Connect PROVE CInv'
    OBVIOUS
<1>1. CASE peerUp
  BY <1>1 DEF CInv, Connect, ConnTypeOK, Fresh, Pcs
<1>2. CASE ~peerUp /\ attempts + 1 >= MaxConnectAttempts
  BY <1>2 DEF CInv, Connect, Fail, ConnTypeOK, RetInv, Fresh, Pcs, Whys
<1>3. CASE ~peerUp /\ attempts + 1 < MaxConnectAttempts
  BY <1>3 DEF CInv, Connect, ConnTypeOK, Fresh, Pcs
<1> QED
  BY <1>1, <1>2, <1>3 DEF CInv, ConnTypeOK

LEMMA UpgradeCInv == CInv /\ Upgrade => CInv'
<1> SUFFICES ASSUME CInv, Upgrade PROVE CInv'
    OBVIOUS
<1>1. pc = "upgrade" /\ Fresh /\ connected /\ attempts < MaxConnectAttempts
  BY DEF CInv, Upgrade
<1>2. CASE sock <= 0 /\ Fail("zero") /\ UNCHANGED fds
  BY <1>1, <1>2 DEF CInv, Upgrade, Fail, ConnTypeOK, RetInv, Fresh, Pcs, Whys
<1>3. CASE sock > 0 /\ fds' = fds \ {sock} /\ pc' = "ret"
                    /\ why' \in {"noupgrade", "nocert", "badname"}
                    /\ UNCHANGED session
  BY <1>1, <1>3 DEF CInv, Upgrade, ConnTypeOK, RetInv, Fresh, Pcs, Whys
<1>4. CASE sock > 0 /\ (~cfg.ssl \/ cert = "match")
           /\ pc' = "ret" /\ why' = "ok" /\ session' = TRUE /\ UNCHANGED fds
  BY <1>1, <1>4 DEF CInv, Upgrade, ConnTypeOK, RetInv, Fresh, Pcs, Whys
<1> QED
  BY <1>2, <1>3, <1>4 DEF Upgrade, Fail

LEMMA PeerChangeCInv == CInv /\ PeerChange => CInv'
BY DEF CInv, PeerChange, client, ConnTypeOK, RetInv, Fresh

LEMMA StutterCInv == CInv /\ UNCHANGED vars => CInv'
BY DEF CInv, vars, ConnTypeOK, RetInv, Fresh

\* The invariant holds in every state of every behaviour.
THEOREM CInvInvariant == Spec => []CInv
<1>1. CInv /\ [Next]_vars => CInv'
  BY SetPortCInv, SocketCInv, BindDeviceCInv, BindSourceCInv, ConnectCInv,
     UpgradeCInv, PeerChangeCInv, StutterCInv DEF Next, Client
<1> QED
  BY <1>1, InitCInv, PTL DEF Spec

\* Every variable of connect_control_server keeps its type.
THEOREM ConnTypeCorrect == Spec => []ConnTypeOK
<1>1. CInv => ConnTypeOK
  BY DEF CInv
<1> QED
  BY <1>1, CInvInvariant, PTL

\* connect_to_server makes at most MAX_CONNECT_ATTEMPTS failed connects,
\* gives up exactly at the cap, and a session is only returned on a socket
\* connected before the cap, for every MAX_CONNECT_ATTEMPTS.
THEOREM AttemptsCapped == Spec => []ConnectAttemptsCapped
<1>1. CInv => ConnectAttemptsCapped
  BY DEF CInv, RetInv, ConnTypeOK, ConnectAttemptsCapped
<1> QED
  BY <1>1, CInvInvariant, PTL

\* The secure upgrade is all or nothing: a verified session holding the one
\* new descriptor, or no session and the socket closed.
THEOREM UpgradeAtomic == Spec => []UpgradeAllOrNothing
<1>1. CInv => UpgradeAllOrNothing
  BY DEF CInv, RetInv, Fresh, UpgradeAllOrNothing
<1> QED
  BY <1>1, CInvInvariant, PTL


-----------------------------------------------------------------------------
(* Refinement: every step of connect_control_server is a step of its       *)
(* contract ConnectorAbstract, or leaves the contract's state unchanged.   *)

LEMMA RefineInit == Init => Abs!AbsInit
BY DEF Init, Abs!AbsInit, Verdict

\* a step that leaves the call running and the configuration alone is
\* invisible to the contract
LEMMA RunningStutters ==
    ASSUME pc # "ret", pc' # "ret", UNCHANGED <<attempts, cfg, cert>>
    PROVE  UNCHANGED Abs!absVars
BY DEF Abs!absVars, Verdict

\* a step that returns NULL from a running call is the contract's Abort
LEMMA FailAborts ==
    ASSUME pc # "ret", ~session, pc' = "ret", ~session',
           UNCHANGED <<attempts, cfg, cert>>
    PROVE  Abs!Abort
BY DEF Abs!Abort, Verdict

LEMMA RefineStep == CInv /\ [Next]_vars => [Abs!AbsNext]_Abs!absVars
<1> SUFFICES ASSUME CInv, [Next]_vars PROVE [Abs!AbsNext]_Abs!absVars
    OBVIOUS
<1>0. pc # "ret" => ~session
  BY DEF CInv
<1>1. CASE SetPort \/ Socket \/ BindDevice \/ BindSource
  <2>1. pc # "ret" /\ UNCHANGED <<attempts, cfg, cert, session>>
    BY <1>1 DEF SetPort, Socket, BindDevice, BindSource, Fail
  <2>2. pc' # "ret" \/ pc' = "ret"
    OBVIOUS
  <2> QED
    BY <2>1, <2>2, <1>0, RunningStutters, FailAborts DEF Abs!AbsNext
<1>2. CASE Connect
  <2>1. pc = "connect" /\ attempts < MaxConnectAttempts /\ ~session
        /\ attempts \in Nat
    BY <1>2 DEF Connect, CInv, ConnTypeOK
  <2>2. CASE peerUp
    BY <1>2, <2>1, <2>2, RunningStutters DEF Connect
  <2>3. CASE ~peerUp /\ attempts + 1 >= MaxConnectAttempts
    <3>1. Abs!Exhaust
      BY <1>2, <2>1, <2>3 DEF Connect, Fail, Abs!Exhaust, Verdict
    <3> QED
      BY <3>1 DEF Abs!AbsNext
  <2>4. CASE ~peerUp /\ attempts + 1 < MaxConnectAttempts
    <3>1. Abs!Refuse
      BY <1>2, <2>1, <2>4 DEF Connect, Abs!Refuse, Verdict
    <3> QED
      BY <3>1 DEF Abs!AbsNext
  <2> QED
    BY <2>1, <2>2, <2>3, <2>4
<1>3. CASE Upgrade
  <2>1. pc = "upgrade" /\ ~session /\ pc' = "ret"
        /\ UNCHANGED <<attempts, cfg, cert>>
    BY <1>3 DEF Upgrade, Fail, CInv
  <2>2. CASE session'
    <3>1. ~cfg.ssl \/ cert = "match"
      BY <1>3, <2>1, <2>2 DEF Upgrade, Fail
    <3>2. Abs!Establish
      BY <2>1, <2>2, <3>1 DEF Abs!Establish, Verdict
    <3> QED
      BY <3>2 DEF Abs!AbsNext
  <2>3. CASE ~session'
    BY <2>1, <2>3, FailAborts DEF Abs!AbsNext
  <2> QED
    BY <2>2, <2>3
<1>4. CASE PeerChange \/ UNCHANGED vars
  BY <1>4 DEF PeerChange, client, vars, Abs!absVars, Verdict
<1> QED
  BY <1>1, <1>2, <1>3, <1>4 DEF Next, Client

\* connect_control_server implements its contract: refused attempts below
\* the cap have no visible effect, the cap is reached exactly at the last
\* attempt, and a session is returned only for an acceptable peer.
THEOREM Refinement == Spec => Abs!AbsSpec
<1>1. CInv /\ [Next]_vars => [Abs!AbsNext]_Abs!absVars
  BY RefineStep
<1> QED
  BY <1>1, RefineInit, InitCInv, CInvInvariant, PTL DEF Spec, Abs!AbsSpec


=============================================================================
