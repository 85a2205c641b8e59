----------------------- MODULE DualStackListenerProofs -----------------------
(***************************************************************************)
(* Proofs, for every port range and descriptor-table size, that the model  *)
(* of start_listening() and its retry loop keeps its types, closes all it  *)
(* opened when it reports EADDRINUSE, and hands back only listening        *)
(* (stream) or bound (datagram) sockets when it returns 0.                 *)
(***************************************************************************)
EXTENDS DualStackListener, TLAPS

\* families whose socket start_listening opened and has not closed
Live == {f \in Families : st[f] # "none"}

\* the state the sockets must reach before start_listening returns 0
Target == IF sockopts.stream THEN "listening" ELSE "bound"

\* inside start_listening a family's descriptor is set exactly when its
\* socket is open; only the bind-failure return and the loop head see stale
\* descriptors (the code closes the sockets without resetting them to -1)
Consistent ==
    \A f \in Families : sockets[f] # NoSock <=> st[f] # "none"

\* how far each family has got at each point of start_listening
Stage ==
    /\ pc = "open4" \/ (pc = "ret" /\ res = "inuse") => Live = {}
    /\ pc = "open6" => st["v6"] = "none"
    /\ pc \in {"open6", "device", "bind4"} => \A f \in Live : st[f] = "open"
    /\ pc = "bind6" => st["v4"] \in {"none", "bound"} /\ st["v6"] \in {"none", "open"}
    /\ pc = "listen4" => \A f \in Live : st[f] = "bound"
    /\ pc = "listen6" => st["v4"] \in {"none", Target} /\ st["v6"] \in {"none", "bound"}
    /\ pc = "check" \/ (pc = "ret" /\ res = "ok") => \A f \in Live : st[f] = Target
    /\ pc = "ret" /\ res = "ok" => Opened # {}

\* the retry loop's record: the ports below the current one were all in
\* use, the ones above are untouched, and the current one is recorded only
\* once the loop has ended
Scan ==
    /\ \A q \in Ports : q < port => tried[q] = "inuse"
    /\ \A q \in Ports : q > port => tried[q] = "untried"
    /\ pc # "done" => tried[port] = "untried"
    /\ pc = "done" => tried[port] = res /\ (res = "inuse" => port = MaxPort)

\* The descriptor table is what the process held when the call began plus
\* one distinct fresh descriptor per live socket.
DescInv ==
    /\ TypeOK
    /\ fds = fdsAtCall \cup {sockets[f] : f \in Live}
    /\ \A f \in Live : sockets[f] \in Fds \ fdsAtCall
    /\ Live = Families => sockets["v4"] # sockets["v6"]
    /\ pc \notin {"open4", "done"} /\ ~(pc = "ret" /\ res # "ok") => Consistent
    /\ Stage

\* The inductive strengthening of the properties the runs check.
IInv == DescInv /\ Scan

USE PortAssumption, FdAssumption

LEMMA InitDesc == Init => DescInv
BY DEF Init, DescInv, TypeOK, SockStates, Live, Consistent, Stage, SockOpts, Fds,
       Ports, Families, NoSock, Pcs, Results, Occupancy

LEMMA OpenV4Desc == DescInv /\ OpenV4 => DescInv'
<1> SUFFICES ASSUME DescInv, OpenV4 PROVE DescInv'
  OBVIOUS
<1>1. /\ Live = {}
      /\ fds = fdsAtCall
      /\ fdsAtCall' = fds
      /\ st = [f \in Families |-> "none"]
      /\ UNCHANGED <<sockopts, others, port, res, tried>>
      /\ pc' = "open6"
  BY DEF DescInv, TypeOK, Stage, OpenV4, Live, Families, SockStates
<1>2. CASE /\ "v4" \in sockopts.source
           /\ \E d \in Fds : IsLowestFree(d)
                /\ sockets' = [f \in Families |-> IF f = "v4" THEN d ELSE NoSock]
                /\ fds' = fds \cup {d}
                /\ st' = [st EXCEPT !["v4"] = "open"]
  <2>1. PICK d \in Fds : /\ IsLowestFree(d)
                         /\ sockets' = [f \in Families |-> IF f = "v4" THEN d ELSE NoSock]
                         /\ fds' = fds \cup {d}
                         /\ st' = [st EXCEPT !["v4"] = "open"]
    BY <1>2
  <2>2. d \notin fdsAtCall /\ Live' = {"v4"}
    BY <1>1, <2>1 DEF IsLowestFree, Live, Families
  <2>3. TypeOK'
    BY <1>1, <2>1 DEF DescInv, TypeOK, Fds, NoSock, Families, SockStates, Pcs
  <2>4. QED
    BY <1>1, <2>1, <2>2, <2>3 DEF DescInv, Consistent, Stage, Live, Families, NoSock, Fds
<1>3. CASE /\ sockets' = [f \in Families |-> NoSock]
           /\ UNCHANGED <<fds, st>>
  <2>1. Live' = {}
    BY <1>1, <1>3 DEF Live
  <2>2. TypeOK'
    BY <1>1, <1>3 DEF DescInv, TypeOK, Fds, NoSock, Families, Pcs
  <2>3. QED
    BY <1>1, <1>3, <2>1, <2>2 DEF DescInv, Consistent, Stage, Live, Families, NoSock
<1>4. QED
  BY <1>2, <1>3 DEF OpenV4

LEMMA OpenV6Desc == DescInv /\ OpenV6 => DescInv'
<1> SUFFICES ASSUME DescInv, OpenV6 PROVE DescInv'
  OBVIOUS
<1>1. /\ pc = "open6"
      /\ st["v6"] = "none"
      /\ sockets["v6"] = NoSock
      /\ \A f \in Live : st[f] = "open"
      /\ UNCHANGED <<sockopts, others, port, fdsAtCall, tried>>
  BY DEF DescInv, Stage, Consistent, OpenV6, Live, Families
<1>2. CASE /\ "v6" \in sockopts.source
           /\ \E d \in Fds : IsLowestFree(d)
                /\ sockets' = [sockets EXCEPT !["v6"] = d]
                /\ fds' = fds \cup {d}
                /\ st' = [st EXCEPT !["v6"] = "open"]
           /\ pc' = "device"
           /\ UNCHANGED res
  <2>1. PICK d \in Fds : /\ IsLowestFree(d)
                         /\ sockets' = [sockets EXCEPT !["v6"] = d]
                         /\ fds' = fds \cup {d}
                         /\ st' = [st EXCEPT !["v6"] = "open"]
    BY <1>2
  <2>2. /\ d \notin fds
        /\ Live' = Live \cup {"v6"}
        /\ "v6" \notin Live
    BY <1>1, <2>1 DEF IsLowestFree, Live, Families, DescInv, TypeOK
  <2>3. TypeOK'
    BY <1>1, <1>2, <2>1 DEF DescInv, TypeOK, Fds, NoSock, Families, SockStates, Pcs
  <2>4. \A f \in Live : sockets[f] \in fds /\ sockets'[f] = sockets[f]
    BY <2>1, <2>2 DEF DescInv
  <2>11. sockets'["v6"] = d
    BY <2>1 DEF DescInv, TypeOK, Families
  <2>12. {sockets'[f] : f \in Live'} = {sockets[f] : f \in Live} \cup {d}
    BY <2>2, <2>4, <2>11
  <2>5. (fds = fdsAtCall \cup {sockets[f] : f \in Live})'
    BY <1>1, <2>1, <2>12 DEF DescInv
  <2>6. (\A f \in Live : sockets[f] \in Fds \ fdsAtCall)'
    BY <1>1, <2>1, <2>2, <2>4, <2>11 DEF DescInv, TypeOK
  <2>7. (Live = Families => sockets["v4"] # sockets["v6"])'
    BY <2>1, <2>2, <2>4, <2>11 DEF Families
  <2>8. Consistent'
    BY <1>1, <2>1, <2>11 DEF DescInv, Consistent, Families, NoSock, Fds, TypeOK
  <2>9. Stage'
    BY <1>1, <1>2, <2>1, <2>2 DEF Stage, Live, Families
  <2>10. QED
    BY <1>2, <2>3, <2>5, <2>6, <2>7, <2>8, <2>9 DEF DescInv
<1>3. CASE /\ UNCHANGED <<sockets, fds, st>>
           /\ \/ sockets["v4"] # NoSock /\ pc' = "device" /\ UNCHANGED res
              \/ sockets["v4"] = NoSock /\ Return("error")
  <2>1. TypeOK'
    BY <1>1, <1>3 DEF DescInv, TypeOK, Return, Pcs, Results
  <2>2. Live' = Live
    BY <1>3 DEF Live
  <2>3. CASE sockets["v4"] # NoSock /\ pc' = "device" /\ UNCHANGED res
    BY <1>1, <1>3, <2>1, <2>2, <2>3 DEF DescInv, Consistent, Stage
  <2>4. CASE sockets["v4"] = NoSock /\ Return("error")
    <3>1. Live = {}
      BY <1>1, <2>4 DEF DescInv, Consistent, Live, Families
    <3>2. QED
      BY <1>1, <1>3, <2>1, <2>2, <2>4, <3>1 DEF DescInv, Stage, Return
  <2>5. QED
    BY <1>3, <2>3, <2>4
<1>4. QED
  BY <1>2, <1>3 DEF OpenV6

LEMMA BindDeviceDesc == DescInv /\ BindDevice => DescInv'
BY DEF DescInv, BindDevice, Return, TypeOK, Live, Consistent, Stage, Target, Opened,
       Families, NoSock, Fds, Pcs, Results

\* Closing every socket whose descriptor is set gives back the descriptor
\* table the call began with and leaves no family open.
LEMMA CloseOpened ==
  ASSUME DescInv, Consistent, CloseFamilies(Opened)
  PROVE  /\ fds' = fdsAtCall
         /\ st' = [f \in Families |-> "none"]
<1>1. Opened = Live
  BY DEF Consistent, Opened, Live
<1>2. {sockets[f] : f \in Live} \cap fdsAtCall = {}
  BY DEF DescInv
<1>3. fds' = fdsAtCall
  BY <1>1, <1>2 DEF DescInv, CloseFamilies
<1>4. st' = [f \in Families |-> "none"]
  BY <1>1 DEF CloseFamilies, Live
<1>5. QED
  BY <1>3, <1>4

\* One family's bind(): the socket gets bound, or everything is closed and
\* the call returns EADDRINUSE or -1.  Before and after the step the
\* families are in the states Stage allows at "bind4", "bind6" and "listen4".
LEMMA BindFamilyDesc ==
  ASSUME DescInv,
         NEW f \in Families, NEW next,
         \/ f = "v4" /\ pc = "bind4" /\ next = "bind6"
         \/ f = "v6" /\ pc = "bind6" /\ next = "listen4",
         BindFamily(f, next),
         UNCHANGED <<sockopts, sockets, others, port, fdsAtCall, tried>>
  PROVE  DescInv'
<1>1. Consistent
  BY DEF DescInv
<1>2. CASE sockets[f] = NoSock /\ pc' = next /\ UNCHANGED <<fds, st, res>>
  <2>1. st[f] = "none" /\ Live' = Live
    BY <1>1, <1>2 DEF Consistent, Live
  <2>2. QED
    BY <1>2, <2>1 DEF DescInv, TypeOK, Consistent, Stage, Live, Families, Pcs
<1>3. CASE /\ sockets[f] # NoSock
           /\ st' = [st EXCEPT ![f] = "bound"]
           /\ pc' = next /\ UNCHANGED <<fds, res>>
  <2>1. st[f] = "open" /\ f \in Live
    BY <1>1, <1>3 DEF DescInv, Consistent, Stage, Live, Families
  <2>2. Live' = Live
    BY <1>3, <2>1 DEF Live, DescInv, TypeOK
  <2>3. TypeOK'
    BY <1>3 DEF DescInv, TypeOK, SockStates, Pcs, Families
  <2>4. Stage'
    BY <1>3, <2>1, <2>2 DEF DescInv, TypeOK, Stage, Live, Families
  <2>5. Consistent'
    BY <1>1, <1>3 DEF DescInv, TypeOK, Consistent, Families
  <2>6. QED
    BY <1>3, <2>2, <2>3, <2>4, <2>5 DEF DescInv
<1>4. CASE /\ sockets[f] # NoSock
           /\ \E r \in BindOutcomes(f) : r # "ok" /\ CloseFamilies(Opened) /\ Return(r)
  <2>1. PICK r \in BindOutcomes(f) : r # "ok" /\ CloseFamilies(Opened) /\ Return(r)
    BY <1>4
  <2>2. fds' = fdsAtCall /\ st' = [g \in Families |-> "none"]
    BY <1>1, <2>1, CloseOpened
  <2>3. Live' = {} /\ r \in {"inuse", "error"}
    BY <2>1, <2>2 DEF Live, BindOutcomes
  <2>4. QED
    BY <2>1, <2>2, <2>3
       DEF DescInv, TypeOK, Stage, Live, Return, Results, Pcs, SockStates, Families
<1>5. QED
  BY <1>2, <1>3, <1>4 DEF BindFamily

LEMMA BindV4Desc == DescInv /\ BindV4 => DescInv'
BY BindFamilyDesc DEF BindV4, Families

LEMMA BindV6Desc == DescInv /\ BindV6 => DescInv'
BY BindFamilyDesc DEF BindV6, Families

\* One family's listen(): the socket listens, or is skipped (datagram or
\* not open), or is closed alone, or everything is closed and the call
\* returns EADDRINUSE.
LEMMA ListenFamilyDesc ==
  ASSUME DescInv,
         NEW f \in Families, NEW next,
         \/ f = "v4" /\ pc = "listen4" /\ next = "listen6"
         \/ f = "v6" /\ pc = "listen6" /\ next = "check",
         ListenFamily(f, next),
         UNCHANGED <<sockopts, others, port, fdsAtCall, tried>>
  PROVE  DescInv'
<1>1. /\ Consistent
      /\ TypeOK
      /\ Stage
  BY DEF DescInv
<1>2. CASE /\ (sockets[f] = NoSock \/ ~sockopts.stream)
           /\ pc' = next
           /\ UNCHANGED <<fds, sockets, st, res>>
  <2>1. Live' = Live /\ Target' = Target
    BY <1>2 DEF Live, Target
  <2>2. Stage'
    BY <1>1, <1>2, <2>1 DEF Stage, Consistent, Target, Live, Families
  <2>3. QED
    BY <1>1, <1>2, <2>1, <2>2 DEF DescInv, TypeOK, Consistent, Pcs
<1>3. CASE /\ sockets[f] # NoSock /\ sockopts.stream
           /\ st' = [st EXCEPT ![f] = "listening"]
           /\ pc' = next
           /\ UNCHANGED <<fds, sockets, res>>
  <2>1. f \in Live /\ Live' = Live /\ Target = "listening" /\ Target' = Target
    BY <1>1, <1>3 DEF Consistent, Live, Target, TypeOK
  <2>2. Stage'
    BY <1>1, <1>3, <2>1 DEF Stage, Live, Families, TypeOK
  <2>3. QED
    BY <1>1, <1>3, <2>1, <2>2 DEF DescInv, TypeOK, Consistent, Pcs, SockStates, Families
<1>4. CASE /\ sockets[f] # NoSock /\ sockopts.stream
           /\ CloseFamilies(Opened)
           /\ sockets' = [g \in Families |-> NoSock]
           /\ Return("inuse")
  <2>1. fds' = fdsAtCall /\ st' = [g \in Families |-> "none"]
    BY <1>1, <1>4, CloseOpened
  <2>2. Live' = {}
    BY <2>1 DEF Live
  <2>3. QED
    BY <1>1, <1>4, <2>1, <2>2
       DEF DescInv, TypeOK, Stage, Return, Results, Pcs, SockStates, Families, NoSock
<1>5. CASE /\ sockets[f] # NoSock /\ sockopts.stream
           /\ CloseFamilies({f})
           /\ sockets' = [sockets EXCEPT ![f] = NoSock]
           /\ pc' = next
           /\ UNCHANGED res
  <2>1. f \in Live /\ Live' = Live \ {f}
    BY <1>1, <1>5 DEF Consistent, Live, CloseFamilies
  <2>2. \A g \in Live' : sockets'[g] = sockets[g] /\ sockets[g] # sockets[f]
    <3>1. TAKE g \in Live'
    <3>2. g # f /\ g \in Live /\ Live = Families
      BY <2>1 DEF Live, Families
    <3>3. sockets[g] # sockets[f]
      BY <3>2 DEF DescInv, Families
    <3>4. QED
      BY <1>1, <1>5, <3>2, <3>3 DEF TypeOK
  <2>3. (fds = fdsAtCall \cup {sockets[g] : g \in Live})'
    BY <1>5, <2>1, <2>2 DEF DescInv, CloseFamilies
  <2>4. TypeOK'
    BY <1>1, <1>5 DEF TypeOK, CloseFamilies, Pcs, SockStates, Families, NoSock
  <2>5. Consistent'
    BY <1>1, <1>5 DEF Consistent, CloseFamilies, TypeOK, Families
  <2>6. Stage'
    BY <1>1, <1>5, <2>1 DEF Stage, Live, CloseFamilies, Target, Families
  <2>7. QED
    BY <1>5, <2>1, <2>2, <2>3, <2>4, <2>5, <2>6 DEF DescInv
<1>6. QED
  BY <1>2, <1>3, <1>4, <1>5 DEF ListenFamily

LEMMA ListenV4Desc == DescInv /\ ListenV4 => DescInv'
BY ListenFamilyDesc DEF ListenV4, Families

LEMMA ListenV6Desc == DescInv /\ ListenV6 => DescInv'
BY ListenFamilyDesc DEF ListenV6, Families

LEMMA CheckDesc == DescInv /\ CheckListening => DescInv'
BY DEF DescInv, CheckListening, Return, TypeOK, Live, Consistent, Stage, Target, Opened,
       Families, NoSock, Fds, Pcs, Results

LEMMA RetryDesc == DescInv /\ Retry => DescInv'
<1> SUFFICES ASSUME DescInv, Retry PROVE DescInv'
  OBVIOUS
<1>1. TypeOK /\ Stage /\ pc = "ret"
  BY DEF DescInv, Retry
<1>2. \/ res = "inuse" /\ port < MaxPort /\ port' = port + 1 /\ pc' = "open4"
      \/ pc' = "done" /\ port' = port
  BY DEF Retry
<1>3. UNCHANGED <<sockopts, fds, sockets, st, others, res, fdsAtCall>>
      /\ tried' = [tried EXCEPT ![port] = res]
  BY DEF Retry
<1>4. TypeOK'
  <2>1. port' \in Ports /\ pc' \in Pcs
    BY <1>1, <1>2 DEF TypeOK, Ports, Pcs
  <2>2. tried' \in [Ports -> Results \cup {"untried"}]
    BY <1>1, <1>3 DEF TypeOK
  <2>3. QED
    BY <1>1, <1>3, <2>1, <2>2 DEF TypeOK
<1>5. Live' = Live /\ Opened' = Opened /\ Target' = Target
  BY <1>3 DEF Live, Opened, Target
<1>6. Stage'
  <2>1. CASE pc' = "open4"
    <3>1. res = "inuse"
      BY <1>2, <2>1
    <3>2. Live = {}
      BY <1>1, <3>1 DEF Stage
    <3>3. QED
      BY <1>3, <1>5, <2>1, <3>2 DEF Stage
  <2>2. CASE pc' = "done"
    BY <1>3, <2>2 DEF Stage
  <2>3. QED
    BY <1>2, <2>1, <2>2
<1>7. QED
  BY <1>3, <1>4, <1>5, <1>6, <1>2 DEF DescInv

LEMMA OtherDesc == DescInv /\ OtherProcess => DescInv'
<1> SUFFICES ASSUME DescInv, OtherProcess PROVE DescInv'
  OBVIOUS
<1>1. others' \in [Ports -> [Families -> Occupancy]]
  <2>1. PICK p \in Ports, f \in Families :
          \/ others' = [others EXCEPT ![p][f] = "bound"]
          \/ others' = [others EXCEPT ![p][f] = "listening"]
          \/ others' = [others EXCEPT ![p][f] = "free"]
    BY DEF OtherProcess
  <2>2. others \in [Ports -> [Families -> Occupancy]]
    BY DEF DescInv, TypeOK
  <2>3. QED
    BY <2>1, <2>2 DEF Occupancy
<1>2. UNCHANGED <<sockopts, fds, sockets, st, port, pc, res, fdsAtCall, tried>>
  BY DEF OtherProcess
<1>3. QED
  BY <1>1, <1>2 DEF DescInv, TypeOK, Live, Consistent, Stage, Target, Opened

LEMMA StutterDesc == DescInv /\ UNCHANGED vars => DescInv'
<1> SUFFICES ASSUME DescInv, UNCHANGED vars PROVE DescInv'
  OBVIOUS
<1>1. /\ sockopts' = sockopts /\ fds' = fds /\ sockets' = sockets /\ st' = st
      /\ others' = others /\ port' = port /\ pc' = pc /\ res' = res
      /\ fdsAtCall' = fdsAtCall /\ tried' = tried
  BY DEF vars
<1>2. QED
  BY <1>1 DEF DescInv, TypeOK, Live, Consistent, Stage, Target, Opened


\* The retry loop's record is kept by every step: only Retry moves the port
\* or writes the record, and only Retry enters or leaves "done".
LEMMA ScanStep == TypeOK /\ Scan /\ [Next]_vars => Scan'
<1> SUFFICES ASSUME TypeOK, Scan, [Next]_vars PROVE Scan'
  OBVIOUS
<1>1. CASE Retry
  <2>1. CASE res = "inuse" /\ port < MaxPort /\ port' = port + 1 /\ pc' = "open4"
    BY <1>1, <2>1 DEF Retry, Scan, TypeOK, Ports
  <2>2. CASE ~(res = "inuse" /\ port < MaxPort) /\ pc' = "done" /\ UNCHANGED port
    BY <1>1, <2>2 DEF Retry, Scan, TypeOK, Ports
  <2>3. QED
    BY <1>1, <2>1, <2>2 DEF Retry
<1>2. CASE \/ OpenV4 \/ OpenV6 \/ BindDevice \/ BindV4 \/ BindV6
           \/ ListenV4 \/ ListenV6 \/ CheckListening
  <2>1. pc # "done" /\ pc' # "done" /\ UNCHANGED <<port, tried>>
    BY <1>2 DEF OpenV4, OpenV6, BindDevice, BindV4, BindV6, BindFamily,
              ListenV4, ListenV6, ListenFamily, CheckListening, Return
  <2>2. QED
    BY <2>1 DEF Scan
<1>3. CASE OtherProcess \/ UNCHANGED vars
  <2>1. UNCHANGED <<port, tried, pc, res>>
    BY <1>3 DEF OtherProcess, vars
  <2>2. QED
    BY <2>1 DEF Scan
<1>4. QED
  BY <1>1, <1>2, <1>3 DEF Next, Listener

-----------------------------------------------------------------------------

\* IInv holds in every reachable state of start_listening and its retry loop.
THEOREM IInvInvariant == Spec => []IInv
<1>1. Init => IInv
  <2>1. Init => Scan
    BY DEF Init, Scan, Ports
  <2>2. QED
    BY <2>1, InitDesc DEF IInv
<1>2. IInv /\ [Next]_vars => IInv'
  <2> SUFFICES ASSUME IInv, [Next]_vars PROVE IInv'
    OBVIOUS
  <2>1. Scan'
    BY ScanStep DEF IInv, DescInv
  <2>2. DescInv'
    BY OpenV4Desc, OpenV6Desc, BindDeviceDesc, BindV4Desc, BindV6Desc,
       ListenV4Desc, ListenV6Desc, CheckDesc, RetryDesc, OtherDesc, StutterDesc
       DEF IInv, Next, Listener
  <2>3. QED
    BY <2>1, <2>2 DEF IInv
<1>3. QED
  BY <1>1, <1>2, PTL DEF Spec

\* Type correctness of the model of start_listening and its retry loop.
THEOREM TypeCorrect == Spec => []TypeOK
<1>1. IInv => TypeOK
  BY DEF IInv, DescInv
<1>2. QED
  BY <1>1, IInvInvariant, PTL

\* start_listening closes every socket it opened for a port before it
\* reports EADDRINUSE, for every port range and descriptor-table size.
THEOREM InUseReturnClean == Spec => []InUseReturnLeavesNoSocket
<1>1. IInv => InUseReturnLeavesNoSocket
  <2> SUFFICES ASSUME IInv, pc = "ret", res = "inuse" PROVE fds = fdsAtCall
    BY DEF InUseReturnLeavesNoSocket
  <2>1. Live = {}
    BY DEF IInv, DescInv, Stage
  <2>2. QED
    BY <2>1 DEF IInv, DescInv
<1>2. QED
  BY <1>1, IInvInvariant, PTL

\* When start_listening returns 0 the sockets it hands back are exactly the
\* ones it holds, and each is listening (stream) or bound (datagram).
THEOREM ReturnedSocketsCorrect == Spec => []ReturnedSocketsServing
<1>1. IInv => ReturnedSocketsServing
  <2> SUFFICES ASSUME IInv, pc = "ret", res = "ok"
               PROVE  ReturnedSocketsServing
    BY DEF ReturnedSocketsServing
  <2>1. Consistent /\ Stage
    BY DEF IInv, DescInv
  <2>2. Opened = Live
    BY <2>1 DEF Consistent, Opened, Live
  <2>3. QED
    BY <2>1, <2>2 DEF ReturnedSocketsServing, Stage, Target, IInv, DescInv, Live
<1>2. QED
  BY <1>1, IInvInvariant, PTL

\* The retry loop scans the ports in order and stops at the first one not
\* in use, for every port range.
THEOREM RetryScanCorrect == Spec => []RetryScansInOrder
<1>1. IInv => RetryScansInOrder
  BY DEF IInv, Scan, RetryScansInOrder
<1>2. QED
  BY <1>1, IInvInvariant, PTL

=============================================================================
