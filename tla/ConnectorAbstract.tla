-------------------------- MODULE ConnectorAbstract --------------------------
(***************************************************************************)
(* What connect_control_server() of src/common/serverlib.c promises its   *)
(* callers (spec 4.3, 4.4 and section 8): refused connection attempts are  *)
(* retried with no other effect until MAX_CONNECT_ATTEMPTS of them have    *)
(* failed, which is a fatal error; any other failure ends the call with an *)
(* error; a control session is returned only for a peer that is            *)
(* acceptable: no secure context is configured, or the peer's certificate  *)
(* names the destination.  Module Connector implements it.                 *)
(***************************************************************************)
EXTENDS Naturals

CONSTANT MaxConnectAttempts

VARIABLES
    refused,     \* connect() attempts refused so far
    verdict,     \* "pending" while the call runs, then "session" or "error"
    acceptable   \* the peer would pass the secure upgrade

absVars == <<refused, verdict, acceptable>>

Verdicts == {"pending", "session", "error"}

AbsInit ==
    /\ refused = 0
    /\ verdict = "pending"
    /\ acceptable \in BOOLEAN

\* a refused connect() below the cap: wait and try again
Refuse ==
    /\ verdict = "pending"
    /\ refused + 1 < MaxConnectAttempts
    /\ refused' = refused + 1
    /\ UNCHANGED <<verdict, acceptable>>

\* the last allowed connect() is refused: a fatal error
Exhaust ==
    /\ verdict = "pending"
    /\ refused + 1 = MaxConnectAttempts
    /\ refused' = MaxConnectAttempts
    /\ verdict' = "error"
    /\ UNCHANGED acceptable

\* any other failure before a session exists
Abort ==
    /\ verdict = "pending"
    /\ verdict' = "error"
    /\ UNCHANGED <<refused, acceptable>>

\* a connected, acceptable peer: the session is returned
Establish ==
    /\ verdict = "pending"
    /\ acceptable
    /\ verdict' = "session"
    /\ UNCHANGED <<refused, acceptable>>

AbsNext == Refuse \/ Exhaust \/ Abort \/ Establish

AbsSpec == AbsInit /\ [][AbsNext]_absVars

\* the call returns
AbsFairSpec == AbsSpec /\ WF_absVars(AbsNext)

=============================================================================
