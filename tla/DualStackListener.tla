-------------------------- MODULE DualStackListener --------------------------
(***************************************************************************)
(* start_listening() of src/common/serverlib.c, with the helpers it calls   *)
(* from src/common/testlib.c, and the port-retry loop its callers wrap     *)
(* around it (listen_control_server() in serverlib.c, serve_test() in      *)
(* udpstream_server.c):                                                     *)
(*                                                                         *)
(*   do { res = start_listening(&sockets, port, sockopts); }               *)
(*   while ( res == EADDRINUSE && port++ < portmax );                      *)
(*                                                                         *)
(* One IPv4 and one IPv6 socket are opened, bound to the port and (for     *)
(* stream sockets) put into listen().  Each system call is one step, so    *)
(* the other processes of the host, which bind and listen on the same      *)
(* ports, act between them: that is where EADDRINUSE comes from, at bind() *)
(* or, with SO_REUSEADDR, at listen().  The process's descriptor table is  *)
(* modelled (socket() returns the lowest free descriptor) so that a socket *)
(* left open on a return path is visible.  Socket options                  *)
(* (do_socket_setup, IPV6_V6ONLY) change nothing this model tells apart.   *)
(***************************************************************************)
EXTENDS Integers, FiniteSets

CONSTANTS
    FirstPort,  \* the port the caller starts at
    MaxPort,    \* portmax: the last port the caller tries
    NFds,       \* size of the process's descriptor table
    InheritedFds \* descriptors open when the program starts (stdin, stdout,
                 \* stderr, or fewer when it is started with some closed)

ASSUME PortAssumption == FirstPort \in Nat /\ MaxPort \in Nat /\ FirstPort <= MaxPort
ASSUME FdAssumption == NFds \in Nat /\ InheritedFds \subseteq 0..(NFds - 1)

Families == {"v4", "v6"}
Ports == FirstPort..MaxPort
Fds == 0..(NFds - 1)
NoSock == -1

\* what start_listening returns: 0, -1 or EADDRINUSE
Results == {"ok", "error", "inuse"}
\* kernel state of the socket start_listening opened for a family
SockStates == {"none", "open", "bound", "listening"}
\* what other processes of the host hold on a port, per family
Occupancy == {"free", "bound", "listening"}
Pcs == {"open4", "open6", "device", "bind4", "bind6",
        "listen4", "listen6", "check", "ret", "done"}
SockOpts == [source : SUBSET Families, stream : BOOLEAN,
             reuse : BOOLEAN, device : BOOLEAN]

VARIABLES
    sockopts,   \* struct sockopt_t: which source addresses, socktype, reuse, device
    fds,        \* descriptors the process holds open
    sockets,    \* struct socket_t: sockets->socket and sockets->socket6
    st,         \* kernel state of the socket opened for each family
    others,     \* ports held by other processes of the host
    port,       \* the port being tried
    pc,         \* where the caller is in the loop and in start_listening
    res,        \* what start_listening returned last
    fdsAtCall,  \* history: fds when the current start_listening call began
    tried       \* history: what start_listening returned on each port

vars == <<sockopts, fds, sockets, st, others, port, pc, res, fdsAtCall, tried>>
listener == <<fds, sockets, st, port, pc, res, fdsAtCall, tried>>

-----------------------------------------------------------------------------
(* Kernel behaviour the code relies on.                                     *)

\* socket() hands out the lowest-numbered free descriptor
IsLowestFree(d) == d \in Fds \ fds /\ \A e \in Fds \ fds : d <= e

\* our socket of family f holds the port being tried
Holds(p, f) == p = port /\ st[f] \in {"bound", "listening"}

\* bind() fails with EADDRINUSE: another socket listens on the port, or
\* holds it and SO_REUSEADDR was not asked for
BindConflict(f) ==
    \/ others[port][f] = "listening"
    \/ others[port][f] = "bound" /\ ~sockopts.reuse

\* close() of the sockets of the families in F
CloseFamilies(F) ==
    /\ fds' = fds \ {sockets[f] : f \in F}
    /\ st' = [f \in Families |-> IF f \in F THEN "none" ELSE st[f]]

\* families whose descriptor is set (sockets->socket >= 0)
Opened == {f \in Families : sockets[f] # NoSock}

Return(r) == pc' = "ret" /\ res' = r

-----------------------------------------------------------------------------
Init ==
    \* the two configurations the callers build: stream + SO_REUSEADDR for
    \* the control connection, datagram without it for the test socket; at
    \* least one source address is always set
    /\ sockopts \in {o \in SockOpts : o.reuse = o.stream /\ o.source # {}}
    /\ fds = InheritedFds
    /\ sockets = [f \in Families |-> NoSock]
    /\ st = [f \in Families |-> "none"]
    /\ others \in [Ports -> [Families -> Occupancy]]
    /\ port = FirstPort
    /\ pc = "open4"
    /\ res = "error"
    /\ fdsAtCall = fds
    /\ tried = [p \in Ports |-> "untried"]

\* sockets->socket = -1 ... and the IPv4 socket() if a source address is set
OpenV4 ==
    /\ pc = "open4"
    /\ fdsAtCall' = fds
    /\ \/ /\ "v4" \in sockopts.source
          /\ \E d \in Fds : IsLowestFree(d)
                /\ sockets' = [f \in Families |-> IF f = "v4" THEN d ELSE NoSock]
                /\ fds' = fds \cup {d}
                /\ st' = [st EXCEPT !["v4"] = "open"]
       \/ \* no IPv4 source address, or socket() failed
          /\ sockets' = [f \in Families |-> NoSock]
          /\ UNCHANGED <<fds, st>>
    /\ pc' = "open6"
    /\ UNCHANGED <<sockopts, others, port, res, tried>>

\* the IPv6 socket(), then "No sockets opened" if neither is open
OpenV6 ==
    /\ pc = "open6"
    /\ \/ /\ "v6" \in sockopts.source
          /\ \E d \in Fds : IsLowestFree(d)
                /\ sockets' = [sockets EXCEPT !["v6"] = d]
                /\ fds' = fds \cup {d}
                /\ st' = [st EXCEPT !["v6"] = "open"]
          /\ pc' = "device"
          /\ UNCHANGED res
       \/ /\ UNCHANGED <<sockets, fds, st>>
          /\ \/ sockets["v4"] # NoSock /\ pc' = "device" /\ UNCHANGED res
             \/ sockets["v4"] = NoSock /\ Return("error")
    /\ UNCHANGED <<sockopts, others, port, fdsAtCall, tried>>

\* bind_sockets_to_device(): on failure start_listening returns -1 at once
BindDevice ==
    /\ pc = "device"
    /\ \/ pc' = "bind4" /\ UNCHANGED res
       \/ sockopts.device /\ Return("error")
    /\ UNCHANGED <<sockopts, fds, sockets, st, others, port, fdsAtCall, tried>>

\* bind_socket_to_address() of family f: what bind() returns
BindOutcomes(f) == IF BindConflict(f) THEN {"inuse"} ELSE {"ok", "error"}

\* one family's bind() in bind_sockets_to_address(); on failure start_listening
\* closes every socket with a descriptor and returns EADDRINUSE or -1
BindFamily(f, next) ==
    \/ /\ sockets[f] = NoSock
       /\ pc' = next
       /\ UNCHANGED <<fds, st, res>>
    \/ /\ sockets[f] # NoSock
       /\ \E r \in BindOutcomes(f) :
            \/ r = "ok" /\ st' = [st EXCEPT ![f] = "bound"]
                        /\ pc' = next /\ UNCHANGED <<fds, res>>
            \/ r # "ok" /\ CloseFamilies(Opened) /\ Return(r)

BindV4 ==
    /\ pc = "bind4"
    /\ BindFamily("v4", "bind6")
    /\ UNCHANGED <<sockopts, sockets, others, port, fdsAtCall, tried>>

BindV6 ==
    /\ pc = "bind6"
    /\ BindFamily("v6", "listen4")
    /\ UNCHANGED <<sockopts, sockets, others, port, fdsAtCall, tried>>

\* Mutation of ListenFamily: EADDRINUSE closes only the failing family.
ListenFamilyKeepOther(f, next) ==
    \/ /\ (sockets[f] = NoSock \/ ~sockopts.stream)
       /\ pc' = next
       /\ UNCHANGED <<fds, sockets, st, res>>
    \/ /\ sockets[f] # NoSock /\ sockopts.stream
       /\ \/ /\ others[port][f] # "listening"
             /\ st' = [st EXCEPT ![f] = "listening"]
             /\ pc' = next
             /\ UNCHANGED <<fds, sockets, res>>
          \/ /\ others[port][f] = "listening"
             /\ CloseFamilies({f})
             /\ sockets' = [sockets EXCEPT ![f] = NoSock]
             /\ Return("inuse")
          \/ /\ CloseFamilies({f})
             /\ sockets' = [sockets EXCEPT ![f] = NoSock]
             /\ pc' = next
             /\ UNCHANGED res

\* Mutation of ListenFamily: a failed socket is closed but its descriptor
\* is not reset to -1.
ListenFamilyNoReset(f, next) ==
    \/ /\ (sockets[f] = NoSock \/ ~sockopts.stream)
       /\ pc' = next
       /\ UNCHANGED <<fds, sockets, st, res>>
    \/ /\ sockets[f] # NoSock /\ sockopts.stream
       /\ \/ /\ others[port][f] # "listening"
             /\ st' = [st EXCEPT ![f] = "listening"]
             /\ pc' = next
             /\ UNCHANGED <<fds, sockets, res>>
          \/ /\ others[port][f] = "listening"
             /\ CloseFamilies(Opened)
             /\ sockets' = [g \in Families |-> NoSock]
             /\ Return("inuse")
          \/ /\ CloseFamilies({f})
             /\ pc' = next
             /\ UNCHANGED <<sockets, res>>

\* listen(sock, 1) of family f for stream sockets.  EADDRINUSE closes both
\* families and returns; any other error closes just this family.
ListenFamily(f, next) ==
    \/ /\ (sockets[f] = NoSock \/ ~sockopts.stream)
       /\ pc' = next
       /\ UNCHANGED <<fds, sockets, st, res>>
    \/ /\ sockets[f] # NoSock /\ sockopts.stream
       /\ \/ /\ others[port][f] # "listening"
             /\ st' = [st EXCEPT ![f] = "listening"]
             /\ pc' = next
             /\ UNCHANGED <<fds, sockets, res>>
          \/ /\ others[port][f] = "listening"
             /\ CloseFamilies(Opened)
             /\ sockets' = [g \in Families |-> NoSock]
             /\ Return("inuse")
          \/ /\ CloseFamilies({f})
             /\ sockets' = [sockets EXCEPT ![f] = NoSock]
             /\ pc' = next
             /\ UNCHANGED res

ListenV4 ==
    /\ pc = "listen4"
    /\ ListenFamily("v4", "listen6")
    /\ UNCHANGED <<sockopts, others, port, fdsAtCall, tried>>

ListenV6 ==
    /\ pc = "listen6"
    /\ ListenFamily("v6", "check")
    /\ UNCHANGED <<sockopts, others, port, fdsAtCall, tried>>

\* "No sockets listening" unless one family survived
CheckListening ==
    /\ pc = "check"
    /\ \/ Opened = {} /\ Return("error")
       \/ Opened # {} /\ Return("ok")
    /\ UNCHANGED <<sockopts, fds, sockets, st, others, port, fdsAtCall, tried>>

\* Mutation of Retry: the bound is tested with <= (port++ <= portmax).
RetryPastMax ==
    /\ pc = "ret"
    /\ tried' = [tried EXCEPT ![port] = res]
    /\ \/ /\ res = "inuse" /\ port <= MaxPort
          /\ port' = port + 1
          /\ pc' = "open4"
       \/ /\ ~(res = "inuse" /\ port <= MaxPort)
          /\ pc' = "done"
          /\ UNCHANGED port
    /\ UNCHANGED <<sockopts, fds, sockets, st, others, res, fdsAtCall>>

\* Mutation of Retry: the loop gives up one port early.
RetryStopEarly ==
    /\ pc = "ret"
    /\ tried' = [tried EXCEPT ![port] = res]
    /\ \/ /\ res = "inuse" /\ port + 1 < MaxPort
          /\ port' = port + 1
          /\ pc' = "open4"
       \/ /\ ~(res = "inuse" /\ port + 1 < MaxPort)
          /\ pc' = "done"
          /\ UNCHANGED port
    /\ UNCHANGED <<sockopts, fds, sockets, st, others, res, fdsAtCall>>

\* Mutation of Retry: the port is never advanced (port + 1 instead of port++).
RetrySamePort ==
    /\ pc = "ret"
    /\ tried' = [tried EXCEPT ![port] = res]
    /\ \/ /\ res = "inuse" /\ port < MaxPort
          /\ pc' = "open4"
          /\ UNCHANGED port
       \/ /\ ~(res = "inuse" /\ port < MaxPort)
          /\ pc' = "done"
          /\ UNCHANGED port
    /\ UNCHANGED <<sockopts, fds, sockets, st, others, res, fdsAtCall>>

\* the caller: while ( res == EADDRINUSE && port++ < portmax ).  The value
\* port takes when the last port is exhausted is never read, so it is kept.
Retry ==
    /\ pc = "ret"
    /\ tried' = [tried EXCEPT ![port] = res]
    /\ \/ /\ res = "inuse" /\ port < MaxPort
          /\ port' = port + 1
          /\ pc' = "open4"
       \/ /\ ~(res = "inuse" /\ port < MaxPort)
          /\ pc' = "done"
          /\ UNCHANGED port
    /\ UNCHANGED <<sockopts, fds, sockets, st, others, res, fdsAtCall>>

\* another process binds, listens on, or releases a port; it cannot take a
\* port our socket listens on, nor one it holds without SO_REUSEADDR
OtherProcess ==
    /\ \E p \in Ports, f \in Families :
         \/ /\ others[p][f] = "free"
            /\ Holds(p, f) => sockopts.reuse /\ st[f] # "listening"
            /\ others' = [others EXCEPT ![p][f] = "bound"]
         \/ /\ others[p][f] = "bound"
            /\ ~(Holds(p, f) /\ st[f] = "listening")
            /\ others' = [others EXCEPT ![p][f] = "listening"]
         \/ /\ others[p][f] # "free"
            /\ others' = [others EXCEPT ![p][f] = "free"]
    /\ UNCHANGED <<sockopts, fds, sockets, st, port, pc, res, fdsAtCall, tried>>

Listener ==
    \/ OpenV4 \/ OpenV6 \/ BindDevice \/ BindV4 \/ BindV6
    \/ ListenV4 \/ ListenV6 \/ CheckListening \/ Retry

Next == Listener \/ OtherProcess

Spec == Init /\ [][Next]_vars

\* the caller is a single thread that runs each system call to completion
FairSpec == Spec /\ WF_vars(Listener)

-----------------------------------------------------------------------------
TypeOK ==
    /\ sockopts \in SockOpts
    /\ fds \subseteq Fds
    /\ sockets \in [Families -> Fds \cup {NoSock}]
    /\ st \in [Families -> SockStates]
    /\ others \in [Ports -> [Families -> Occupancy]]
    /\ port \in Ports
    /\ pc \in Pcs
    /\ res \in Results
    /\ fdsAtCall \subseteq Fds
    /\ tried \in [Ports -> Results \cup {"untried"}]

\* When start_listening reports EADDRINUSE, so that the caller moves on to the
\* next port, every socket it opened for this port has been closed again
\* (serverlib.c 312-318, 336-347, 358-369): a scan over many busy ports
\* leaves no descriptor behind.
InUseReturnLeavesNoSocket ==
    pc = "ret" /\ res = "inuse" => fds = fdsAtCall

\* When start_listening returns 0, struct socket_t names exactly the sockets
\* it opened and still holds, at least one, each listening (stream) or bound
\* (datagram) on the port: the caller's select()/accept() or the test's
\* recvmsg() is never handed a closed or half set-up descriptor.
ReturnedSocketsServing ==
    pc = "ret" /\ res = "ok" =>
        /\ Opened # {}
        /\ \A f \in Opened :
              st[f] = IF sockopts.stream THEN "listening" ELSE "bound"
        /\ fds = fdsAtCall \cup {sockets[f] : f \in Opened}

\* The callers' retry loop scans the port range in order: it stops at the
\* first port where start_listening did not report EADDRINUSE, never skips
\* or revisits a port, and gives up with EADDRINUSE only when every port up
\* to portmax was found in use.
RetryScansInOrder ==
    pc = "done" =>
        /\ \A q \in Ports : q < port => tried[q] = "inuse"
        /\ \A q \in Ports : q > port => tried[q] = "untried"
        /\ tried[port] = res
        /\ res = "inuse" => port = MaxPort

\* The retry loop ends: however the other processes hold the ports, the
\* caller of start_listening eventually gets a socket or gives up.
LoopTerminates == <>(pc = "done")

\* Every return path of start_listening that reports -1 closes what it
\* opened (spec 4.2 step 6: a device-bind failure "aborts both families";
\* spec section 3: sockets are closed on error).
NoLeakOnError ==
    pc = "ret" /\ res = "error" => fds = fdsAtCall

\* Spec 4.2 step 8: when one family's listen() finds the port in use after
\* the other family is already listening, only the failing family is closed
\* and the surviving one is kept: start_listening does not report EADDRINUSE.
SurvivorKept ==
    [][pc = "listen6" /\ st["v4"] = "listening"
         => ~(pc' = "ret" /\ res' = "inuse")]_vars

=============================================================================
