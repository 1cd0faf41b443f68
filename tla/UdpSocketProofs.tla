--------------------------- MODULE UdpSocketProofs ---------------------------
(***************************************************************************)
(* Proofs about UdpSocket, for every set of endpoints, ports and groups,   *)
(* every network that comes and goes and every order of calls.             *)
(***************************************************************************)
EXTENDS UdpSocket, SequenceTheorems, TLAPS

-----------------------------------------------------------------------------
(* The inductive invariant.                                                *)

(* What Restore relies on: as long as no call failed, a connected socket's *)
(* own record of its peer is what Connect was last called with.            *)
PeerRemembered == isConnected_ /\ ~threw => connectedAddr_ = target

IInv == TypeOK /\ PeerRemembered /\ AssociationRestored /\ LocalPortIsActual

-----------------------------------------------------------------------------
(* Lemmas about the kernel's part.                                         *)

(* A socket that was used has a port, and keeps the one it had.            *)
LEMMA AutobindGivesPort ==
  ASSUME TypeOK, Autobind
  PROVE  port' \in Port /\ port' # ANY_PORT /\ (port # ANY_PORT => port' = port)
<1> QED BY PortsAssumption DEF TypeOK, Autobind, Port, ANY_PORT

-----------------------------------------------------------------------------
(* The inductive invariant.                                                *)

(* The initial state satisfies it.                                         *)
LEMMA InitIInv == Init => IInv
<1> SUFFICES ASSUME Init PROVE IInv
  OBVIOUS
<1>1. /\ isBound_ \in BOOLEAN /\ isConnected_ \in BOOLEAN /\ portLocked \in BOOLEAN
      /\ broadcast \in BOOLEAN /\ reuse \in BOOLEAN /\ pendingError \in BOOLEAN
      /\ threw \in BOOLEAN
  BY DEF Init
<1>2. /\ localPort_ \in Port /\ port \in Port
      /\ connectedAddr_ \in Endpoint /\ sendToAddr_ \in Endpoint /\ peer \in Endpoint
      /\ target \in Endpoint /\ groups \subseteq Groups /\ routes \subseteq Remotes
  BY DEF Init, Port, ANY_PORT, Endpoint
<1>3. queue \in Seq(Remotes) /\ Len(queue) <= QueueCapacity
  BY EmptySeq, QueueAssumption DEF Init
<1>4. TypeOK
  BY <1>1, <1>2, <1>3 DEF Init, TypeOK
<1>5. PeerRemembered /\ AssociationRestored /\ LocalPortIsActual
  BY DEF Init, PeerRemembered, AssociationRestored, LocalPortIsActual
<1> QED BY <1>4, <1>5 DEF IInv

(* What is left alone by the steps that touch neither end of the socket.   *)
LEMMA EndsUntouched ==
  ASSUME IInv,
         UNCHANGED << isBound_, isConnected_, localPort_, connectedAddr_, peer, port,
                      portLocked, pc, target, threw >>
  PROVE  (PeerRemembered /\ AssociationRestored /\ LocalPortIsActual)'
<1> QED BY DEF IInv, PeerRemembered, AssociationRestored, LocalPortIsActual

(* Options, and what the network does.                                     *)
LEMMA OptionOrNetworkStep ==
  ASSUME IInv,
         Option \/ PortUnreachable \/ RoutesChange
           \/ \E remote \in Remotes : DatagramArrives(remote)
  PROVE  IInv'
<1>1. /\ broadcast' \in BOOLEAN /\ reuse' \in BOOLEAN /\ pendingError' \in BOOLEAN
      /\ groups' \subseteq Groups /\ routes' \subseteq Remotes
      /\ UNCHANGED << isBound_, isConnected_, localPort_, connectedAddr_, sendToAddr_, peer,
                      port, portLocked, pc, target, threw >>
  BY DEF Option, SetEnableBroadcast, SetAllowReuse, JoinMulticastGroup,
         LeaveMulticastGroup, PortUnreachable, RoutesChange, DatagramArrives,
         object, options, history, IInv, TypeOK
<1>2. queue' \in Seq(Remotes) /\ Len(queue') <= QueueCapacity
  <2>1. CASE \E remote \in Remotes : DatagramArrives(remote)
    <3>1. PICK remote \in Remotes : Len(queue) < QueueCapacity /\ queue' = Append(queue, remote)
      BY <2>1 DEF DatagramArrives
    <3>2. queue' \in Seq(Remotes) /\ Len(queue') = Len(queue) + 1
      BY <3>1, AppendProperties DEF IInv, TypeOK
    <3>3. Len(queue) \in Nat
      BY LenProperties DEF IInv, TypeOK
    <3> QED BY <3>1, <3>2, <3>3, QueueAssumption
  <2>2. CASE Option \/ PortUnreachable \/ RoutesChange
    <3>1. queue' = queue
      BY <2>2 DEF Option, SetEnableBroadcast, SetAllowReuse, JoinMulticastGroup,
                  LeaveMulticastGroup, PortUnreachable, RoutesChange
    <3> QED BY <3>1 DEF IInv, TypeOK
  <2> QED BY <2>1, <2>2
<1>3. TypeOK'
  BY <1>1, <1>2 DEF IInv, TypeOK, Port
<1>4. (PeerRemembered /\ AssociationRestored /\ LocalPortIsActual)'
  BY <1>1, EndsUntouched
<1> QED BY <1>3, <1>4 DEF IInv

(* Bind takes only a socket without a port, so not a connected one.        *)
LEMMA BindStep ==
  ASSUME IInv, NEW requested \in Ports \cup {ANY_PORT}, Bind(requested)
  PROVE  IInv'
<1>1. /\ pc = "out" /\ port = ANY_PORT
      /\ port' \in (IF requested = ANY_PORT THEN EphemeralPorts ELSE {requested})
      /\ portLocked' = (requested # ANY_PORT)
      /\ isBound_' = TRUE /\ localPort_' = port'
      /\ UNCHANGED << isConnected_, connectedAddr_, sendToAddr_, peer, broadcast, reuse,
                      groups, pendingError, routes, queue, pc, target, threw >>
  BY DEF Bind, options, history
<1>2. port' \in Port /\ port' # ANY_PORT
  BY <1>1, PortsAssumption DEF Port, ANY_PORT
<1>3. portLocked' \in BOOLEAN
  BY <1>1
<1>4. TypeOK'
  BY <1>1, <1>2, <1>3 DEF IInv, TypeOK, Port
<1>5. LocalPortIsActual'
  BY <1>1, <1>2 DEF LocalPortIsActual
<1>6. PeerRemembered' /\ AssociationRestored'
  BY <1>1 DEF IInv, PeerRemembered, AssociationRestored
<1> QED BY <1>4, <1>5, <1>6 DEF IInv

(* A Connect that succeeds agrees with the kernel on both ends; one that   *)
(* fails is remembered as a failure.                                       *)
LEMMA ConnectStep ==
  ASSUME IInv, NEW remote \in Remotes, Connect(remote)
  PROVE  IInv'
<1>1. /\ pc = "out" /\ Autobind /\ connectedAddr_' = remote
      /\ UNCHANGED << isBound_, sendToAddr_, portLocked, broadcast, reuse, groups,
                      pendingError, routes, queue, pc >>
  BY DEF Connect, options
<1>2. port' \in Port /\ port' # ANY_PORT /\ (port # ANY_PORT => port' = port)
  BY <1>1, AutobindGivesPort DEF IInv
<1>3. CASE CanReach(remote)
  <2>1. /\ peer' = remote /\ localPort_' = port' /\ isConnected_' = TRUE
        /\ target' = remote /\ threw' = FALSE
    BY <1>3 DEF Connect
  <2>2. TypeOK'
    BY <1>1, <1>2, <2>1 DEF IInv, TypeOK, Endpoint, Port
  <2>3. (PeerRemembered /\ AssociationRestored /\ LocalPortIsActual)'
    BY <1>1, <1>2, <2>1 DEF PeerRemembered, AssociationRestored, LocalPortIsActual
  <2> QED BY <2>2, <2>3 DEF IInv
<1>4. CASE ~CanReach(remote)
  <2>1. threw' = TRUE /\ UNCHANGED << peer, localPort_, isConnected_, target >>
    BY <1>4 DEF Connect
  <2>2. TypeOK'
    BY <1>1, <1>2, <2>1 DEF IInv, TypeOK, Endpoint, Port
  <2>3. (PeerRemembered /\ AssociationRestored /\ LocalPortIsActual)'
    BY <1>1, <1>2, <2>1 DEF IInv, PeerRemembered, AssociationRestored, LocalPortIsActual
  <2> QED BY <2>2, <2>3 DEF IInv
<1> QED BY <1>3, <1>4

(* The first half of LocalEndpointFor: the peer is somebody else, but Run  *)
(* is inside the call, or the call failed.                                 *)
LEMMA LocalEndpointForStep ==
  ASSUME IInv, NEW remote \in Remotes, LocalEndpointFor(remote)
  PROVE  IInv'
<1>1. /\ pc = "out" /\ Autobind
      /\ \/ peer' = remote /\ pc' = "named" /\ threw' = threw
         \/ peer' = peer /\ pc' = pc /\ threw' = TRUE
      /\ UNCHANGED << isBound_, isConnected_, localPort_, connectedAddr_, sendToAddr_,
                      portLocked, broadcast, reuse, groups, pendingError, routes, queue,
                      target >>
  BY DEF LocalEndpointFor, object, options
<1>2. port' \in Port /\ port' # ANY_PORT /\ (port # ANY_PORT => port' = port)
  BY <1>1, AutobindGivesPort DEF IInv
<1>3. pc' \in {"out", "named"} /\ threw' \in BOOLEAN /\ peer' \in Endpoint
  BY <1>1 DEF IInv, TypeOK, Endpoint
<1>4. TypeOK'
  BY <1>1, <1>2, <1>3 DEF IInv, TypeOK, Port
<1>5. (PeerRemembered /\ AssociationRestored)'
  BY <1>1 DEF IInv, PeerRemembered, AssociationRestored
<1>6. LocalPortIsActual'
  BY <1>1, <1>2 DEF IInv, LocalPortIsActual
<1> QED BY <1>4, <1>5, <1>6 DEF IInv

(* The second half: the peer is the one remembered, or the call failed;    *)
(* the port is lost only by a socket whose LocalPort() is not relied on.   *)
LEMMA RestoreStep ==
  ASSUME IInv, Restore
  PROVE  IInv'
<1>1. /\ pc = "named" /\ pc' = "out"
      /\ UNCHANGED << isBound_, isConnected_, localPort_, connectedAddr_, sendToAddr_,
                      portLocked, broadcast, reuse, groups, pendingError, routes, queue,
                      target >>
  BY DEF Restore, object, options
<1>2. CASE isConnected_
  <2>1. /\ port' = port
        /\ \/ peer' = connectedAddr_ /\ threw' = threw
           \/ peer' = peer /\ threw' = TRUE
    BY <1>2 DEF Restore
  <2>2. threw' \in BOOLEAN /\ peer' \in Endpoint
    BY <2>1 DEF IInv, TypeOK
  <2>3. TypeOK'
    BY <1>1, <2>1, <2>2 DEF IInv, TypeOK, Port
  <2>4. (PeerRemembered /\ AssociationRestored /\ LocalPortIsActual)'
    BY <1>1, <1>2, <2>1 DEF IInv, PeerRemembered, AssociationRestored, LocalPortIsActual
  <2> QED BY <2>3, <2>4 DEF IInv
<1>3. CASE ~isConnected_
  <2>1. /\ peer' = NoEndpoint /\ threw' = threw
        /\ port' = IF portLocked THEN port ELSE ANY_PORT
    BY <1>3 DEF Restore
  <2>2. port' \in Port
    BY <2>1 DEF IInv, TypeOK, Port
  <2>3. TypeOK'
    BY <1>1, <2>1, <2>2 DEF IInv, TypeOK, Endpoint, Port
  <2>4. (PeerRemembered /\ AssociationRestored /\ LocalPortIsActual)'
    BY <1>1, <1>3, <2>1 DEF IInv, PeerRemembered, AssociationRestored, LocalPortIsActual
  <2> QED BY <2>3, <2>4 DEF IInv
<1> QED BY <1>2, <1>3

(* Sending and receiving.                                                  *)
LEMMA DatagramStep ==
  ASSUME IInv, Send \/ ReceiveFrom \/ \E remote \in Remotes : SendTo(remote)
  PROVE  IInv'
<1>1. CASE Send \/ ReceiveFrom
  <2>1. /\ pendingError' \in BOOLEAN
        /\ UNCHANGED << isBound_, isConnected_, localPort_, connectedAddr_, sendToAddr_, peer,
                        port, portLocked, broadcast, reuse, groups, routes, pc, target, threw >>
    BY <1>1 DEF Send, ReceiveFrom, object, options, history, IInv, TypeOK
  <2>2. queue' \in Seq(Remotes) /\ Len(queue') <= QueueCapacity
    <3>1. queue' = queue \/ (queue # << >> /\ queue' = Tail(queue))
      BY <1>1 DEF Send, ReceiveFrom
    <3>2. queue # << >> => /\ Tail(queue) \in Seq(Remotes)
                           /\ Len(Tail(queue)) = Len(queue) - 1
      BY HeadTailProperties DEF IInv, TypeOK
    <3>3. Len(queue) \in Nat
      BY LenProperties DEF IInv, TypeOK
    <3> QED BY <3>1, <3>2, <3>3, QueueAssumption DEF IInv, TypeOK
  <2>3. TypeOK'
    BY <2>1, <2>2 DEF IInv, TypeOK, Port
  <2>4. (PeerRemembered /\ AssociationRestored /\ LocalPortIsActual)'
    BY <2>1, EndsUntouched
  <2> QED BY <2>3, <2>4 DEF IInv
<1>2. ASSUME NEW remote \in Remotes, SendTo(remote)
      PROVE  IInv'
  <2>1. /\ Autobind /\ sendToAddr_' = remote /\ pendingError' = FALSE
        /\ UNCHANGED << isBound_, isConnected_, localPort_, connectedAddr_, peer,
                        portLocked, broadcast, reuse, groups, routes, queue, pc, target, threw >>
    BY <1>2 DEF SendTo, options, history
  <2>2. port' \in Port /\ port' # ANY_PORT /\ (port # ANY_PORT => port' = port)
    BY <2>1, AutobindGivesPort DEF IInv
  <2>3. TypeOK'
    <3>1. sendToAddr_' \in Endpoint
      BY <2>1 DEF Endpoint
    <3> QED BY <2>1, <2>2, <3>1 DEF IInv, TypeOK
  <2>4. (PeerRemembered /\ AssociationRestored /\ LocalPortIsActual)'
    BY <2>1, <2>2 DEF IInv, PeerRemembered, AssociationRestored, LocalPortIsActual
  <2> QED BY <2>3, <2>4 DEF IInv
<1> QED BY <1>1, <1>2

(* Every step keeps it.                                                    *)
LEMMA NextIInv == IInv /\ [Next]_vars => IInv'
<1> SUFFICES ASSUME IInv, [Next]_vars PROVE IInv'
  OBVIOUS
<1>1. CASE Option \/ PortUnreachable \/ RoutesChange
             \/ \E remote \in Remotes : DatagramArrives(remote)
  BY <1>1, OptionOrNetworkStep
<1>2. CASE \E requested \in Ports \cup {ANY_PORT} : Bind(requested)
  BY <1>2, BindStep
<1>3. CASE \E remote \in Remotes : Connect(remote) \/ LocalEndpointFor(remote)
  BY <1>3, ConnectStep, LocalEndpointForStep
<1>4. CASE Restore
  BY <1>4, RestoreStep
<1>5. CASE Send \/ ReceiveFrom \/ \E remote \in Remotes : SendTo(remote)
  BY <1>5, DatagramStep
<1>6. CASE UNCHANGED vars
  <2>1. UNCHANGED << isBound_, isConnected_, localPort_, connectedAddr_, sendToAddr_, peer,
                     port, portLocked, broadcast, reuse, groups, pendingError, routes, queue,
                     pc, target, threw >>
    BY <1>6 DEF vars, object, options, history
  <2>2. TypeOK'
    BY <2>1 DEF IInv, TypeOK, Port
  <2> QED BY <2>1, <2>2, EndsUntouched DEF IInv
<1> QED BY <1>1, <1>2, <1>3, <1>4, <1>5, <1>6 DEF Next

LEMMA Invariance == Spec => []IInv
<1> QED BY InitIInv, NextIInv, PTL DEF Spec

-----------------------------------------------------------------------------
(* What the invariant says of the socket.                                  *)

(* Every variable keeps its type, and the kernel's queue its bound.        *)
THEOREM TypeCorrect == Spec => []TypeOK
<1>1. IInv => TypeOK
  BY DEF IInv
<1> QED BY <1>1, Invariance, PTL

(* Unless a call failed, LocalEndpointFor leaves the socket with the peer  *)
(* it had, however the network changes between its two halves.             *)
THEOREM AssociationKept == Spec => []AssociationRestored
<1>1. IInv => AssociationRestored
  BY DEF IInv
<1> QED BY <1>1, Invariance, PTL

(* LocalPort() names the socket's port once it was bound by number or      *)
(* connected, in whatever order the calls came.                            *)
THEOREM LocalPortKept == Spec => []LocalPortIsActual
<1>1. IInv => LocalPortIsActual
  BY DEF IInv
<1> QED BY <1>1, Invariance, PTL

=============================================================================
