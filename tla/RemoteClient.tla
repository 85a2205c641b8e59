----------------------------- MODULE RemoteClient -----------------------------
(***************************************************************************)
(* main() of src/measured/remote-client.c (amp-remote): connect with       *)
(* connect_control_server() (module Connector), write the TEST message,    *)
(* read the RESPONSE with read_measured_response() and, if the test        *)
(* started, read one more message: a RESULT to print or a RESPONSE         *)
(* describing a failure (serverlib.c 725-785 for the RESPONSE parsing).    *)
(*                                                                         *)
(* The peer is the remote measured control server.  It answers each read   *)
(* with one message of a small set that covers every field the client      *)
(* tests (type, code, message text, test type, result data, bytes that do  *)
(* not unpack), or closes the connection.                                  *)
(* Undefined behaviour (strdup(NULL), a NULL message dereferenced) is the  *)
(* crash it produces on Linux: rc = "crash".                               *)
(***************************************************************************)
EXTENDS Connector, Sequences

\* what one control packet unpacks to
Msgs ==
    {[type |-> "RESPONSE", code |-> c, text |-> t, ttype |-> "none", data |-> FALSE] :
        c \in {"ok", "fail", "none"}, t \in BOOLEAN}
    \cup
    {[type |-> "RESULT", code |-> "none", text |-> FALSE, ttype |-> tt, data |-> d] :
        tt \in {"match", "other", "none"}, d \in BOOLEAN}
    \cup
    {[type |-> ty, code |-> "none", text |-> FALSE, ttype |-> "none", data |-> FALSE] :
        ty \in {"OTHER", "MALFORMED"}}

NoMsg == [type |-> "NONE"]

RcStates == {"connect", "write", "readresp", "readresult", "exitfail", "done",
             "crash"}
\* the line printed before the client exits successfully
Printed == {"none", "result", "starterror", "runerror", "typemismatch",
            "unexpected"}

VARIABLES
    rc,        \* where main() is after connect_control_server
    inbox,     \* the packet the server has sent and the client not yet read
    closed,    \* the server has closed the connection
    sent,      \* the TEST message has been written
    printed,   \* what main() printed
    received   \* history: the messages main() read, in order

rcVars == <<rc, inbox, closed, sent, printed, received>>
allVars == <<vars, rcVars>>

-----------------------------------------------------------------------------
\* parse_measured_response(): -1 unless a RESPONSE with a code; the message
\* text is strdup()ed, which crashes when the optional text is absent
ParseOutcome(m) ==
    IF m.type # "RESPONSE" \/ m.code = "none" THEN "invalid"
    ELSE IF ~m.text THEN "crash"
    ELSE m.code

\* read_control_packet() blocks until a packet arrives or the peer closes
CanRead == inbox # NoMsg \/ closed

\* consume the packet (or see the close) in the same step
Consume ==
    /\ inbox' = NoMsg
    /\ received' = IF inbox # NoMsg THEN Append(received, inbox) ELSE received

RCInit ==
    /\ Init
    /\ rc = "connect"
    /\ inbox = NoMsg
    /\ closed = FALSE
    /\ sent = FALSE
    /\ printed = "none"
    /\ received = <<>>

\* connect_control_server() (Connector) until it returns
Connecting ==
    /\ rc = "connect"
    /\ Client
    /\ UNCHANGED rcVars

\* a NULL BIO exits with failure
Connected ==
    /\ rc = "connect" /\ pc = "ret"
    /\ rc' = IF session THEN "write" ELSE "exitfail"
    /\ UNCHANGED <<vars, inbox, closed, sent, printed, received>>

\* Mutation of WriteTest: the TEST message is never flushed to the server.
WriteTestUnsent ==
    /\ rc = "write"
    /\ \/ rc' = "readresp" /\ UNCHANGED sent
       \/ rc' = "exitfail" /\ UNCHANGED sent
    /\ UNCHANGED <<vars, inbox, closed, printed, received>>

\* write_control_packet() of the TEST message
WriteTest ==
    /\ rc = "write"
    /\ \/ rc' = "readresp" /\ sent' = TRUE
       \/ rc' = "exitfail" /\ UNCHANGED sent
    /\ UNCHANGED <<vars, inbox, closed, printed, received>>

\* read_measured_response(): a read or parse failure exits with failure;
\* MEASURED_CONTROL_OK goes on to the result, any other code is printed
ReadResponse ==
    /\ rc = "readresp" /\ CanRead
    /\ Consume
    /\ IF inbox = NoMsg THEN rc' = "exitfail" /\ UNCHANGED printed
       ELSE CASE ParseOutcome(inbox) = "invalid" -> rc' = "exitfail" /\ UNCHANGED printed
              [] ParseOutcome(inbox) = "crash"   -> rc' = "crash" /\ UNCHANGED printed
              [] ParseOutcome(inbox) = "ok"      -> rc' = "readresult" /\ UNCHANGED printed
              [] ParseOutcome(inbox) = "fail"    -> rc' = "done" /\ printed' = "starterror"
    /\ UNCHANGED <<vars, closed, sent>>

\* Mutation of ResultOutcome: the test type of the RESULT is not compared.
ResultOutcomeNoTypeCheck(m) ==
    CASE m.type = "MALFORMED" -> "crash"
      [] m.type = "RESULT" ->
            IF ~m.data \/ m.ttype = "none" THEN "none" ELSE "result"
      [] m.type = "RESPONSE" ->
            IF ParseOutcome(m) = "invalid" THEN "none"
            ELSE IF ParseOutcome(m) = "crash" THEN "crash" ELSE "runerror"
      [] m.type \notin {"MALFORMED", "RESULT", "RESPONSE"} -> "unexpected"

\* what main() prints for the second packet (remote-client.c 248-303)
ResultOutcome(m) ==
    CASE m.type = "MALFORMED" -> "crash"
      [] m.type = "RESULT" ->
            IF ~m.data \/ m.ttype = "none" THEN "none"
            ELSE IF m.ttype = "other" THEN "typemismatch" ELSE "result"
      [] m.type = "RESPONSE" ->
            IF ParseOutcome(m) = "invalid" THEN "none"
            ELSE IF ParseOutcome(m) = "crash" THEN "crash" ELSE "runerror"
      [] m.type \notin {"MALFORMED", "RESULT", "RESPONSE"} -> "unexpected"

\* read_control_packet() failing exits with failure; otherwise the packet is
\* unpacked (not checked for NULL) and dispatched on its type, and main()
\* exits successfully whatever it printed
ReadResult ==
    /\ rc = "readresult" /\ CanRead
    /\ Consume
    /\ IF inbox = NoMsg THEN rc' = "exitfail" /\ UNCHANGED printed
       ELSE IF ResultOutcome(inbox) = "crash" THEN rc' = "crash" /\ UNCHANGED printed
       ELSE rc' = "done" /\ printed' = ResultOutcome(inbox)
    /\ UNCHANGED <<vars, closed, sent>>

\* the server answers a pending read with one packet, or closes
ServerReply ==
    /\ sent /\ rc \in {"readresp", "readresult"} /\ inbox = NoMsg /\ ~closed
    /\ \/ \E m \in Msgs : inbox' = m /\ UNCHANGED closed
       \/ closed' = TRUE /\ UNCHANGED inbox
    /\ UNCHANGED <<vars, rc, sent, printed, received>>

RemoteClient == Connecting \/ Connected \/ WriteTest \/ ReadResponse \/ ReadResult

RCNext ==
    \/ RemoteClient
    \/ ServerReply
    \/ PeerChange /\ UNCHANGED rcVars

RCSpec == RCInit /\ [][RCNext]_allVars

\* main() runs to its end on one thread; the server answers each request
RCFairSpec == RCSpec /\ WF_allVars(RemoteClient) /\ WF_allVars(ServerReply)

-----------------------------------------------------------------------------
RCTypeOK ==
    /\ ConnTypeOK
    /\ rc \in RcStates
    /\ inbox \in Msgs \cup {NoMsg}
    /\ closed \in BOOLEAN
    /\ sent \in BOOLEAN
    /\ printed \in Printed
    /\ received \in Seq(Msgs)

\* amp-remote prints a test result only when the server first accepted the
\* test with MEASURED_CONTROL_OK and then sent a RESULT that carries result
\* data for the test type that was asked for (remote-client.c 233-275).
ResultOnlyForRequestedTest ==
    printed = "result" =>
        /\ Len(received) = 2
        /\ ParseOutcome(received[1]) = "ok"
        /\ received[2].type = "RESULT"
        /\ received[2].ttype = "match" /\ received[2].data

\* amp-remote always ends: it exits, with success or failure, or crashes;
\* the connect loop is bounded and each read is answered or fails.
RemoteClientEnds == <>(rc \in {"exitfail", "done", "crash"})

=============================================================================
