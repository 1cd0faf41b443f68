----------------------------- MODULE UdpSocket -----------------------------
(***************************************************************************)
(* UdpSocketImplementation of osctap/ip/posix/UdpSocket.h behind the       *)
(* classes of osctap/ip/AbstractUdpSocket.h: what the object believes      *)
(* about its socket, beside what the kernel holds.  The kernel is Linux's: *)
(* connect() to an endpoint it has no route to, or to a broadcast address  *)
(* without SO_BROADCAST, fails and keeps the peer; a socket without a port *)
(* gets one when it is first used, and loses a port it did not ask for by  *)
(* number when it is unconnected; a connected socket takes datagrams from  *)
(* its peer only.                                                          *)
(***************************************************************************)
EXTENDS Integers, Sequences, FiniteSets

CONSTANTS
  Remotes,         \* the endpoints to send to and to hear from
  NoEndpoint,      \* no endpoint at all
  Broadcasts,      \* those with a broadcast address
  Ports,           \* the port numbers a caller may bind to
  PortsInUse,      \* those other sockets hold, which allow reuse
  EphemeralPorts,  \* what the kernel chooses from
  Groups,          \* multicast groups
  QueueCapacity    \* bound: datagrams the kernel keeps for the socket

ASSUME EndpointsAssumption == Broadcasts \subseteq Remotes /\ NoEndpoint \notin Remotes
ASSUME PortsAssumption ==
  /\ Ports \cup EphemeralPorts \subseteq Nat \ {0}
  /\ PortsInUse \subseteq Ports
ASSUME QueueAssumption == QueueCapacity \in Nat

VARIABLES
  isBound_, isConnected_, localPort_,
  connectedAddr_, sendToAddr_,
  peer,          \* kernel: the endpoint the socket is connected to
  port,          \* kernel: the local port, ANY_PORT for none
  portLocked,    \* kernel: the port was asked for by its number
  broadcast,     \* kernel: SO_BROADCAST
  reuse,         \* kernel: SO_REUSEADDR
  groups,        \* kernel: the groups joined
  pendingError,  \* kernel: an ICMP error waits to be reported
  routes,        \* kernel: the endpoints there is a route to
  queue,         \* kernel: the senders of the datagrams received
  pc,            \* "out", or inside LocalEndpointFor
  target,        \* history: the endpoint of the last Connect that returned
  threw          \* history: whether Connect or LocalEndpointFor threw since

ANY_PORT == 0

options == << broadcast, reuse, groups >>
object == << isBound_, isConnected_, localPort_, connectedAddr_, sendToAddr_ >>
history == << target, threw >>
vars == << object, peer, port, portLocked, options, pendingError, routes, queue,
           pc, history >>

Init ==
  /\ isBound_ = FALSE /\ isConnected_ = FALSE /\ localPort_ = 0
  /\ connectedAddr_ = NoEndpoint /\ sendToAddr_ = NoEndpoint
  /\ peer = NoEndpoint /\ port = ANY_PORT /\ portLocked = FALSE
  /\ broadcast = FALSE /\ reuse = FALSE /\ groups = {}
  /\ pendingError = FALSE
  /\ routes = Remotes
  /\ queue = << >>
  /\ pc = "out"
  /\ target = NoEndpoint /\ threw = FALSE

CanReach(remote) == remote \in routes /\ (remote \in Broadcasts => broadcast)

(* The kernel gives a port to a socket that needs one and has none.        *)
Autobind == port' \in (IF port = ANY_PORT THEN EphemeralPorts ELSE {port})

-----------------------------------------------------------------------------
(* Options.                                                                *)

SetEnableBroadcast ==
  /\ pc = "out"
  /\ broadcast' \in BOOLEAN
  /\ UNCHANGED << object, peer, port, portLocked, reuse, groups, pendingError,
                  routes, queue, pc, history >>

SetAllowReuse ==
  /\ pc = "out"
  /\ reuse' \in BOOLEAN
  /\ UNCHANGED << object, peer, port, portLocked, broadcast, groups, pendingError,
                  routes, queue, pc, history >>

(* Joining twice, or leaving a group that was not joined, throws; an       *)
(* exception that changes nothing is no step here and below.               *)
JoinMulticastGroup(group) ==
  /\ pc = "out" /\ group \notin groups
  /\ groups' = groups \cup {group}
  /\ UNCHANGED << object, peer, port, portLocked, broadcast, reuse, pendingError,
                  routes, queue, pc, history >>

LeaveMulticastGroup(group) ==
  /\ pc = "out" /\ group \in groups
  /\ groups' = groups \ {group}
  /\ UNCHANGED << object, peer, port, portLocked, broadcast, reuse, pendingError,
                  routes, queue, pc, history >>

-----------------------------------------------------------------------------
(* The two ends.                                                           *)

(* A socket that has a port already, or a port in use, makes Bind throw.   *)
Bind(requested) ==
  /\ pc = "out" /\ port = ANY_PORT
  /\ requested \in PortsInUse => reuse
  /\ port' \in (IF requested = ANY_PORT THEN EphemeralPorts ELSE {requested})
  /\ portLocked' = (requested # ANY_PORT)
  /\ isBound_' = TRUE
  /\ localPort_' = port'
  /\ UNCHANGED << isConnected_, connectedAddr_, sendToAddr_, peer, options,
                  pendingError, routes, queue, pc, history >>

(* Mutated: the port the kernel chose is not read back.                    *)
ConnectKeepsLocalPort(remote) ==
  /\ pc = "out"
  /\ connectedAddr_' = remote
  /\ Autobind
  /\ IF CanReach(remote)
     THEN /\ peer' = remote
          /\ isConnected_' = TRUE
          /\ target' = remote /\ threw' = FALSE
     ELSE /\ threw' = TRUE
          /\ UNCHANGED << peer, isConnected_, target >>
  /\ UNCHANGED << isBound_, localPort_, sendToAddr_, portLocked, options, pendingError,
                  routes, queue, pc >>

(* connectedAddr_ is overwritten before the kernel is asked.               *)
Connect(remote) ==
  /\ pc = "out"
  /\ connectedAddr_' = remote
  /\ Autobind
  /\ IF CanReach(remote)
     THEN /\ peer' = remote
          /\ localPort_' = port'
          /\ isConnected_' = TRUE
          /\ target' = remote /\ threw' = FALSE
     ELSE /\ threw' = TRUE
          /\ UNCHANGED << peer, localPort_, isConnected_, target >>
  /\ UNCHANGED << isBound_, sendToAddr_, portLocked, options, pendingError,
                  routes, queue, pc >>

(* LocalEndpointFor: the socket is connected to the remote endpoint so     *)
(* that the kernel chooses the local one ...                               *)
LocalEndpointFor(remote) ==
  /\ pc = "out" /\ isBound_
  /\ Autobind
  /\ IF CanReach(remote)
     THEN peer' = remote /\ pc' = "named" /\ UNCHANGED threw
     ELSE threw' = TRUE /\ UNCHANGED << peer, pc >>
  /\ UNCHANGED << object, portLocked, options, pendingError, routes, queue, target >>

(* Mutated: a connected socket is not connected to its peer again.         *)
RestoreDisconnects ==
  /\ pc = "named"
  /\ pc' = "out"
  /\ peer' = NoEndpoint
  /\ port' = IF portLocked \/ isConnected_ THEN port ELSE ANY_PORT
  /\ UNCHANGED << object, portLocked, options, pendingError, routes, queue, history >>

(* ... and is then connected again as it was, or unconnected.              *)
Restore ==
  /\ pc = "named"
  /\ pc' = "out"
  /\ IF isConnected_
     THEN /\ UNCHANGED port
          /\ IF CanReach(connectedAddr_)
             THEN peer' = connectedAddr_ /\ UNCHANGED threw
             ELSE threw' = TRUE /\ UNCHANGED peer
     ELSE /\ peer' = NoEndpoint
          /\ port' = IF portLocked THEN port ELSE ANY_PORT
          /\ UNCHANGED threw
  /\ UNCHANGED << object, portLocked, options, pendingError, routes, queue, target >>

-----------------------------------------------------------------------------
(* Datagrams.                                                              *)

(* send()'s result is not looked at: an error of an earlier datagram is    *)
(* reported here and this one is not sent.                                 *)
Send ==
  /\ pc = "out" /\ isConnected_
  /\ pendingError' = FALSE
  /\ UNCHANGED << object, peer, port, portLocked, options, routes, queue, pc, history >>

SendTo(remote) ==
  /\ pc = "out"
  /\ sendToAddr_' = remote
  /\ Autobind
  /\ pendingError' = FALSE
  /\ UNCHANGED << isBound_, isConnected_, localPort_, connectedAddr_, peer,
                  portLocked, options, routes, queue, pc, history >>

(* recvfrom: a waiting error comes first, and counts as no data.           *)
ReceiveFrom ==
  /\ pc = "out" /\ isBound_
  /\ \/ pendingError /\ pendingError' = FALSE /\ UNCHANGED queue
     \/ /\ ~pendingError /\ queue # << >>
        /\ queue' = Tail(queue)
        /\ UNCHANGED pendingError
  /\ UNCHANGED << object, peer, port, portLocked, options, routes, pc, history >>

Accepts(remote) == port # ANY_PORT /\ peer \in {NoEndpoint, remote}

(* A datagram for the socket's port.  Others leave no trace.               *)
DatagramArrives(remote) ==
  /\ Accepts(remote) /\ remote \notin Broadcasts
  /\ Len(queue) < QueueCapacity
  /\ queue' = Append(queue, remote)
  /\ UNCHANGED << object, peer, port, portLocked, options, pendingError, routes, pc, history >>

(* The answer to a datagram nobody listened for; only a connected socket   *)
(* is told.                                                                *)
PortUnreachable ==
  /\ peer # NoEndpoint
  /\ pendingError' = TRUE
  /\ UNCHANGED << object, peer, port, portLocked, options, routes, queue, pc, history >>

RoutesChange ==
  /\ \E remote \in Remotes :
       routes' = IF remote \in routes THEN routes \ {remote} ELSE routes \cup {remote}
  /\ UNCHANGED << object, peer, port, portLocked, options, pendingError, queue, pc, history >>

Option ==
  \/ SetEnableBroadcast \/ SetAllowReuse
  \/ \E group \in Groups : JoinMulticastGroup(group) \/ LeaveMulticastGroup(group)

Next ==
  \/ Option
  \/ \E requested \in Ports \cup {ANY_PORT} : Bind(requested)
  \/ \E remote \in Remotes :
       Connect(remote) \/ LocalEndpointFor(remote) \/ SendTo(remote) \/ DatagramArrives(remote)
  \/ Restore \/ Send \/ ReceiveFrom
  \/ PortUnreachable \/ RoutesChange

Spec == Init /\ [][Next]_vars

-----------------------------------------------------------------------------

Endpoint == Remotes \cup {NoEndpoint}
Port == Ports \cup EphemeralPorts \cup {ANY_PORT}

TypeOK ==
  /\ isBound_ \in BOOLEAN /\ isConnected_ \in BOOLEAN
  /\ localPort_ \in Port /\ port \in Port
  /\ connectedAddr_ \in Endpoint /\ sendToAddr_ \in Endpoint /\ peer \in Endpoint
  /\ portLocked \in BOOLEAN /\ broadcast \in BOOLEAN /\ reuse \in BOOLEAN
  /\ groups \subseteq Groups
  /\ pendingError \in BOOLEAN
  /\ routes \subseteq Remotes
  /\ queue \in Seq(Remotes) /\ Len(queue) <= QueueCapacity
  /\ pc \in {"out", "named"}
  /\ target \in Endpoint /\ threw \in BOOLEAN

(* Unless a call has failed, asking for a local endpoint leaves no trace:  *)
(* a connected socket sends to, and hears, the endpoint Connect was last   *)
(* called with, an unconnected one hears everybody.  A failing Connect or  *)
(* LocalEndpointFor does leave one: connectedAddr_ already names the       *)
(* endpoint that was refused, and the kernel's peer the one asked about.   *)
AssociationRestored ==
  pc = "out" /\ ~threw =>
    peer = (IF isConnected_ THEN target ELSE NoEndpoint)

(* LocalPort() names the port of the socket once it was bound by number or *)
(* connected, whoever chose the port and in whatever order Bind, Connect   *)
(* and LocalEndpointFor were called.                                       *)
LocalPortIsActual ==
  (isBound_ /\ portLocked) \/ isConnected_ => port # ANY_PORT /\ localPort_ = port

(* "Read back the actual local port ... without this LocalPort() would     *)
(* still report 0 (so a sender using LocalPort() would target port 0 and   *)
(* nothing would be delivered)": a bound socket receives what is sent to   *)
(* LocalPort().                                                            *)
BoundPortReceives == isBound_ /\ pc = "out" => port = localPort_

=============================================================================
