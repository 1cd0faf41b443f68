----------------------------- MODULE OscOverTcp -----------------------------
(***************************************************************************)
(* OSC over TCP from end to end: the TcpTransmitSocket of                  *)
(* osctap/ip/posix/TcpSocket.h, a connection, and the receiver's           *)
(* OscStreamDeframer.  The sender writes the frame's header and then the   *)
(* packet, each in as many pieces as the kernel takes; the receiver reads  *)
(* pieces cut elsewhere.  ::send may fail between any two pieces, whether  *)
(* or not the connection still lives, and the connection may be lost at    *)
(* any moment, with all that was not read by then.  TCP itself is a        *)
(* lossless sequence of bytes.  One connection at a time is followed.      *)
(***************************************************************************)
EXTENDS OscStreamDeframer

CONSTANTS
  Packets,       \* the packets an application sends
  MaxPackets,    \* bound: the frames begun on one connection
  WireCapacity   \* bytes the kernel takes before the receiver reads them

ASSUME PacketsAssumption == Packets \subseteq Seq(Byte)
ASSUME BoundsAssumption == MaxPackets \in Nat /\ WireCapacity \in Nat \ {0}

VARIABLES
  link,     \* "none", "up", "closed" (by the sender, in order) or "lost"
  wire,     \* every byte the kernel has taken from the sender
  sendPc,   \* where Send is; "idle" when no call is in progress
  packet,   \* the packet Send was called with
  unsent,   \* in SendAll: the n - sent bytes behind p + sent
  sent,     \* history: the packets of whose frames the kernel took a byte
  torn      \* history: which of them was the first whose Send then failed;
            \* 0 while there is none

receiver == vars
sender == << sendPc, packet, unsent, sent, torn >>
tcpVars == << stream, pos, buffer, frameSize, header, haveHeader, delivered, pc,
              link, wire, sendPc, packet, unsent, sent, torn >>

TcpInit ==
  /\ Init
  /\ link = "none"
  /\ wire = << >>
  /\ sendPc = "idle"
  /\ packet = << >>
  /\ unsent = << >>
  /\ sent = << >>
  /\ torn = 0

AllRead == stream = wire /\ pc = "idle"

(* A new TcpTransmitSocket, and with it a new connection with a deframer   *)
(* of its own.  A constructor that throws leaves nothing behind.           *)
Connect ==
  /\ sendPc = "idle"
  /\ \/ link = "none"
     \/ link = "lost" /\ pc \in {"idle", "rejected"}
     \/ link = "closed" /\ AllRead
  /\ link' = "up"
  /\ wire' = << >> /\ sent' = << >> /\ torn' = 0
  /\ stream' = << >> /\ pos' = 0 /\ delivered' = << >> /\ pc' = "idle"
  /\ buffer' = << >> /\ frameSize' = 0 /\ header' = << >> /\ haveHeader' = FALSE
  /\ UNCHANGED << sendPc, packet, unsent >>

(* The destructor.                                                         *)
Close ==
  /\ link = "up" /\ sendPc = "idle"
  /\ link' = "closed"
  /\ UNCHANGED << receiver, wire, sender >>

Send ==
  /\ link \in {"up", "lost"} /\ sendPc = "idle"
  /\ Len(sent) < MaxPackets
  /\ packet' \in Packets
  /\ unsent' = WriteOscStreamFrameHeader(Len(packet'))
  /\ sendPc' = "header"
  /\ UNCHANGED << receiver, link, wire, sent, torn >>

InSendAll == sendPc \in {"header", "payload"} /\ unsent # << >>

(* Nothing of the frame has been written yet.                              *)
Untouched == sendPc = "header" /\ Len(unsent) = OSC_STREAM_FRAME_HEADER_SIZE

Begun == IF Untouched THEN Append(sent, packet) ELSE sent

(* Mutated: a piece that was not taken whole is sent again from its start. *)
SendPieceAgain ==
  /\ InSendAll
  /\ \E r \in 1..Len(unsent) :
       /\ Len(wire) + r <= Len(stream) + WireCapacity
       /\ wire' = wire \o SubSeq(unsent, 1, r)
       /\ unsent' = IF r = Len(unsent) THEN << >> ELSE unsent
  /\ sent' = Begun
  /\ UNCHANGED << receiver, link, sendPc, packet, torn >>

(* Mutated: ::send is taken to have written all it was given.              *)
SendPieceOnce ==
  /\ InSendAll
  /\ \E r \in 1..Len(unsent) :
       /\ Len(wire) + r <= Len(stream) + WireCapacity
       /\ wire' = wire \o SubSeq(unsent, 1, r)
       /\ unsent' = << >>
  /\ sent' = Begun
  /\ UNCHANGED << receiver, link, sendPc, packet, torn >>

(* One ::send, which takes what the kernel has room for, also when the     *)
(* connection is lost and the kernel does not know.  EINTR repeats the     *)
(* call and changes nothing.                                               *)
SendPiece ==
  /\ InSendAll
  /\ \E r \in 1..Len(unsent) :
       /\ Len(wire) + r <= Len(stream) + WireCapacity
       /\ wire' = wire \o SubSeq(unsent, 1, r)
       /\ unsent' = SubSeq(unsent, r + 1, Len(unsent))
  /\ sent' = Begun
  /\ UNCHANGED << receiver, link, sendPc, packet, torn >>

(* ::send fails with anything but EINTR and the exception leaves Send: the *)
(* connection is gone, or it is up and the kernel lacks memory or a time   *)
(* limit set on Socket() has passed.  What was written stays written, the  *)
(* socket object lives on, and Send may be called again.                   *)
SendThrows ==
  /\ InSendAll
  /\ sendPc' = "idle"
  /\ packet' = << >> /\ unsent' = << >>
  /\ torn' = IF torn = 0 /\ ~Untouched THEN Len(sent) ELSE torn
  /\ UNCHANGED << receiver, link, wire, sent >>

HeaderWritten ==
  /\ sendPc = "header" /\ unsent = << >>
  /\ sendPc' = "payload"
  /\ unsent' = packet
  /\ UNCHANGED << receiver, link, wire, packet, sent, torn >>

SendReturns ==
  /\ sendPc = "payload" /\ unsent = << >>
  /\ sendPc' = "idle"
  /\ packet' = << >>
  /\ UNCHANGED << receiver, link, wire, unsent, sent, torn >>

SenderStep == SendPiece \/ HeaderWritten \/ SendReturns

-----------------------------------------------------------------------------

(* The receiver's recv, and its call of Consume.                           *)
Read ==
  /\ link \in {"up", "closed"}
  /\ \E n \in Len(stream) + 1..Len(wire) :
       Consume(SubSeq(wire, Len(stream) + 1, n))
  /\ UNCHANGED << link, wire, sender >>

ReceiverStep == ConsumeStep /\ UNCHANGED << link, wire, sender >>

(* Consume returned false: the receiver closes the connection.             *)
Refuse ==
  /\ pc = "rejected" /\ link \in {"up", "closed"}
  /\ link' = "lost"
  /\ UNCHANGED << receiver, wire, sender >>

ConnectionLost ==
  /\ link = "up"
  /\ link' = "lost"
  /\ UNCHANGED << receiver, wire, sender >>

TcpNext ==
  \/ Connect \/ Close \/ Send \/ SenderStep \/ SendThrows
  \/ Read \/ ReceiverStep \/ Refuse \/ ConnectionLost

(* The sender's thread runs while it is inside Send, ::send fails in the   *)
(* end when the connection is lost, and the receiver reads what has        *)
(* arrived (EverySessionServed of TcpListeningReceiveSocket).  On a live   *)
(* connection ::send need never fail.  Nobody has to send, connect or      *)
(* close.                                                                  *)
TcpSpec ==
  /\ TcpInit /\ [][TcpNext]_tcpVars
  /\ WF_tcpVars(SenderStep) /\ WF_tcpVars(link = "lost" /\ SendThrows)
  /\ WF_tcpVars(Read) /\ WF_tcpVars(ReceiverStep) /\ WF_tcpVars(Refuse)

-----------------------------------------------------------------------------

(* The frames that are not torn, nor behind one that is.                   *)
Intact == IF torn = 0 THEN Len(sent) ELSE torn - 1

(* A Send after the one that failed has put bytes behind half a frame.     *)
Retried == torn # 0 /\ Len(sent) > torn

(* What the listener was called with is, packet by packet, what Send was   *)
(* called with, also when writes and reads are cut at different places and *)
(* when the connection is lost inside a frame.  When a Send fails, whether *)
(* or not the connection survives, the packets before it are delivered as  *)
(* they were, a Send that failed before its first byte leaves no trace,    *)
(* and half a packet is never delivered as long as the application does    *)
(* not send behind it.                                                     *)
DeliveredInOrder ==
  /\ \A k \in 1..Len(delivered) : k <= Intact => delivered[k] = sent[k]
  /\ Len(delivered) > Intact => Retried

(* The calls of Send that have returned, up to the first that failed in    *)
(* the middle of its frame.                                                *)
Returned ==
  IF torn # 0 THEN torn - 1
  ELSE IF sendPc = "idle" \/ Untouched THEN Len(sent) ELSE Len(sent) - 1

(* Every call of Send comes to an end, "Blocks until fully written" or by  *)
(* an exception: the receiver makes room for what is still to be written.  *)
(* Every call that returned ends in a delivered packet, unless the         *)
(* connection is lost (by the network, or because the receiver refuses a   *)
(* packet over its limit): no byte that was written waits for a later Send *)
(* to push it through, and a failure of a later Send takes nothing back.   *)
EverySendDelivered ==
  /\ (sendPc # "idle") ~> (sendPc = "idle")
  /\ \A n \in 1..MaxPackets :
       (Returned >= n) ~> (Len(delivered) >= n \/ link = "lost")

=============================================================================
