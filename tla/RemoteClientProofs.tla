-------------------------- MODULE RemoteClientProofs --------------------------
(***************************************************************************)
(* Proofs, for every MAX_CONNECT_ATTEMPTS and descriptor table, that       *)
(* amp-remote's variables keep their types and that it prints a test       *)
(* result only for the test it asked for, after the server accepted it.    *)
(* The connect phase reuses the invariant CInv of ConnectorProofs.          *)
(***************************************************************************)
EXTENDS RemoteClient, ConnectorProofs, SequenceTheorems

\* what main() has read at each point after connect_control_server
RCtl ==
    /\ rc \in {"connect", "write", "readresp"} =>
          received = <<>> /\ printed = "none"
    /\ rc = "readresult" =>
          /\ Len(received) = 1 /\ ParseOutcome(received[1]) = "ok"
          /\ printed = "none"

\* the inductive invariant of amp-remote
RInv == CInv /\ RCTypeOK /\ RCtl /\ ResultOnlyForRequestedTest

-----------------------------------------------------------------------------
\* the fields of a control packet
LEMMA MsgFields ==
    ASSUME NEW m \in Msgs
    PROVE  /\ m.type \in {"RESPONSE", "RESULT", "OTHER", "MALFORMED"}
           /\ m.code \in {"ok", "fail", "none"} /\ m.text \in BOOLEAN
           /\ m.ttype \in {"match", "other", "none"} /\ m.data \in BOOLEAN
<1>1. CASE \E c \in {"ok", "fail", "none"}, t \in BOOLEAN :
              m = [type |-> "RESPONSE", code |-> c, text |-> t, ttype |-> "none",
                   data |-> FALSE]
  BY <1>1
<1>2. CASE \E tt \in {"match", "other", "none"}, d \in BOOLEAN :
              m = [type |-> "RESULT", code |-> "none", text |-> FALSE, ttype |-> tt,
                   data |-> d]
  BY <1>2
<1>3. CASE \E ty \in {"OTHER", "MALFORMED"} :
              m = [type |-> ty, code |-> "none", text |-> FALSE, ttype |-> "none",
                   data |-> FALSE]
  BY <1>3
<1>4. QED
  BY <1>1, <1>2, <1>3 DEF Msgs

\* main() prints a result only for a RESULT with data for its test type
LEMMA ResultMeans ==
    ASSUME NEW m \in Msgs, ResultOutcome(m) = "result"
    PROVE  m.type = "RESULT" /\ m.ttype = "match" /\ m.data
<1>1. m.type \in {"RESPONSE", "RESULT", "OTHER", "MALFORMED"}
      /\ m.ttype \in {"match", "other", "none"} /\ m.data \in BOOLEAN
  BY MsgFields
<1>2. m.type = "RESULT"
  BY <1>1 DEF ResultOutcome
<1>3. QED
  BY <1>1, <1>2 DEF ResultOutcome

\* a step of the connector is a step of Connector's own specification
LEMMA CInvStep == CInv /\ [Next]_vars => CInv'
BY SetPortCInv, SocketCInv, BindDeviceCInv, BindSourceCInv, ConnectCInv,
   UpgradeCInv, PeerChangeCInv, StutterCInv DEF Next, Client

LEMMA RInvInit == RCInit => RInv
<1> SUFFICES ASSUME RCInit PROVE RInv
  OBVIOUS
<1>1. CInv
  BY InitCInv DEF RCInit
<1>2. RCTypeOK
  <2>1. ConnTypeOK
    BY <1>1 DEF CInv
  <2>2. inbox \in Msgs \cup {NoMsg} /\ received \in Seq(Msgs)
    BY DEF RCInit
  <2>3. QED
    BY <2>1, <2>2 DEF RCInit, RCTypeOK, RcStates, Printed
<1>3. QED
  BY <1>1, <1>2 DEF RCInit, RInv, RCtl, ResultOnlyForRequestedTest

\* the steps after connect_control_server leave the connector alone
LEMMA ConnectorStill == CInv /\ UNCHANGED vars => CInv' /\ ConnTypeOK'
BY StutterCInv DEF CInv

LEMMA ConnectingInv == RInv /\ Connecting => RInv'
<1> SUFFICES ASSUME RInv, Connecting PROVE RInv'
  OBVIOUS
<1>1. CInv'
  BY CInvStep DEF RInv, Connecting, Next
<1>2. QED
  BY <1>1 DEF RInv, Connecting, rcVars, RCTypeOK, CInv, RCtl,
              ResultOnlyForRequestedTest

LEMMA ConnectedInv == RInv /\ Connected => RInv'
<1> SUFFICES ASSUME RInv, Connected PROVE RInv'
  OBVIOUS
<1>1. CInv' /\ ConnTypeOK'
  BY ConnectorStill DEF RInv, Connected
<1>2. QED
  BY <1>1 DEF RInv, Connected, RCTypeOK, RCtl, ResultOnlyForRequestedTest,
              RcStates

LEMMA WriteTestInv == RInv /\ WriteTest => RInv'
<1> SUFFICES ASSUME RInv, WriteTest PROVE RInv'
  OBVIOUS
<1>1. CInv' /\ ConnTypeOK'
  BY ConnectorStill DEF RInv, WriteTest
<1>2. QED
  BY <1>1 DEF RInv, WriteTest, RCTypeOK, RCtl, ResultOnlyForRequestedTest,
              RcStates

LEMMA ReadResponseInv == RInv /\ ReadResponse => RInv'
<1> SUFFICES ASSUME RInv, ReadResponse PROVE RInv'
  OBVIOUS
<1>0. /\ RCTypeOK /\ rc = "readresp" /\ received = <<>> /\ printed = "none"
      /\ CInv' /\ ConnTypeOK' /\ inbox' = NoMsg /\ UNCHANGED <<closed, sent>>
  BY ConnectorStill DEF RInv, RCtl, ReadResponse, Consume
<1>1. CASE inbox = NoMsg
  BY <1>0, <1>1 DEF ReadResponse, Consume, RInv, RCTypeOK, RCtl,
                    ResultOnlyForRequestedTest, RcStates
<1>2. CASE inbox # NoMsg
  <2>1. inbox \in Msgs /\ received' = <<inbox>>
    BY <1>0, <1>2 DEF ReadResponse, Consume, RCTypeOK
  <2>2. received' \in Seq(Msgs) /\ Len(received') = 1 /\ received'[1] = inbox
    BY <2>1
  <2>3. \/ rc' \in {"exitfail", "crash"} /\ printed' = "none"
        \/ rc' = "readresult" /\ printed' = "none" /\ ParseOutcome(inbox) = "ok"
        \/ rc' = "done" /\ printed' = "starterror"
    <3>1. ParseOutcome(inbox) \in {"invalid", "crash", "ok", "fail"}
      BY <2>1, MsgFields DEF ParseOutcome
    <3>2. QED
      BY <1>0, <1>2, <3>1 DEF ReadResponse
  <2>4. QED
    BY <1>0, <2>2, <2>3 DEF RInv, RCTypeOK, RCtl, ResultOnlyForRequestedTest,
                            RcStates, Printed
<1>3. QED
  BY <1>1, <1>2

LEMMA ReadResultInv == RInv /\ ReadResult => RInv'
<1> SUFFICES ASSUME RInv, ReadResult PROVE RInv'
  OBVIOUS
<1>0. /\ RCTypeOK /\ rc = "readresult" /\ printed = "none"
      /\ Len(received) = 1 /\ ParseOutcome(received[1]) = "ok"
      /\ CInv' /\ ConnTypeOK' /\ inbox' = NoMsg /\ UNCHANGED <<closed, sent>>
  BY ConnectorStill DEF RInv, RCtl, ReadResult, Consume
<1>1. CASE inbox = NoMsg
  BY <1>0, <1>1 DEF ReadResult, Consume, RInv, RCTypeOK, RCtl,
                    ResultOnlyForRequestedTest, RcStates
<1>2. CASE inbox # NoMsg
  <2>1. inbox \in Msgs /\ received' = Append(received, inbox)
    BY <1>0, <1>2 DEF ReadResult, Consume, RCTypeOK
  <2>2. /\ received' \in Seq(Msgs) /\ Len(received') = 2
        /\ received'[1] = received[1] /\ received'[2] = inbox
    <3>1. received \in Seq(Msgs)
      BY <1>0 DEF RCTypeOK
    <3>2. /\ Append(received, inbox) \in Seq(Msgs)
          /\ Len(Append(received, inbox)) = Len(received) + 1
          /\ \A i \in 1..Len(received) : Append(received, inbox)[i] = received[i]
          /\ Append(received, inbox)[Len(received) + 1] = inbox
      BY <2>1, <3>1, AppendProperties
    <3>3. 1 \in 1..Len(received) /\ Len(received) + 1 = 2
      BY <1>0
    <3>4. QED
      BY <2>1, <3>2, <3>3
  <2>3. ResultOutcome(inbox) \in Printed \cup {"crash"}
    BY <2>1 DEF ResultOutcome, Printed, Msgs
  <2>4. \/ rc' = "crash" /\ printed' = "none"
        \/ rc' = "done" /\ printed' = ResultOutcome(inbox)
                       /\ ResultOutcome(inbox) # "crash"
    BY <1>0, <1>2 DEF ReadResult
  <2>5. printed' = "result" =>
           inbox.type = "RESULT" /\ inbox.ttype = "match" /\ inbox.data
    BY <2>1, <2>4, ResultMeans
  <2>6. QED
    BY <1>0, <2>2, <2>3, <2>4, <2>5
    DEF RInv, RCTypeOK, RCtl, ResultOnlyForRequestedTest, RcStates, Printed
<1>3. QED
  BY <1>1, <1>2

LEMMA ServerReplyInv == RInv /\ ServerReply => RInv'
<1> SUFFICES ASSUME RInv, ServerReply PROVE RInv'
  OBVIOUS
<1>1. CInv' /\ ConnTypeOK'
  BY ConnectorStill DEF RInv, ServerReply
<1>2. QED
  BY <1>1 DEF RInv, ServerReply, RCTypeOK, RCtl, ResultOnlyForRequestedTest

LEMMA PeerInv == RInv /\ PeerChange /\ UNCHANGED rcVars => RInv'
<1> SUFFICES ASSUME RInv, PeerChange, UNCHANGED rcVars PROVE RInv'
  OBVIOUS
<1>1. CInv'
  BY PeerChangeCInv DEF RInv
<1>2. QED
  BY <1>1 DEF RInv, rcVars, RCTypeOK, CInv, RCtl, ResultOnlyForRequestedTest

LEMMA RStutterInv == RInv /\ UNCHANGED allVars => RInv'
<1> SUFFICES ASSUME RInv, UNCHANGED allVars PROVE RInv'
  OBVIOUS
<1>1. CInv' /\ ConnTypeOK'
  BY ConnectorStill DEF RInv, allVars
<1>2. QED
  BY <1>1 DEF RInv, allVars, rcVars, RCTypeOK, RCtl, ResultOnlyForRequestedTest

LEMMA RInvInvariant == RCSpec => []RInv
<1>1. RInv /\ [RCNext]_allVars => RInv'
  BY ConnectingInv, ConnectedInv, WriteTestInv, ReadResponseInv,
     ReadResultInv, ServerReplyInv, PeerInv, RStutterInv DEF RCNext, RemoteClient
<1>2. QED
  BY <1>1, RInvInit, PTL DEF RCSpec

\* Every variable of amp-remote's main() keeps its type from the connect to
\* the exit, the connector's included (remote-client.c 216-313).
THEOREM RCTypeCorrect == RCSpec => []RCTypeOK
BY RInvInvariant, PTL DEF RInv

\* amp-remote prints a test result only when the server first accepted the
\* test with MEASURED_CONTROL_OK and then sent a RESULT with result data
\* for the test type asked for, for every connect cap and descriptor table
\* (remote-client.c 233-275).
THEOREM RequestedResultOnly == RCSpec => []ResultOnlyForRequestedTest
BY RInvInvariant, PTL DEF RInv

=============================================================================
