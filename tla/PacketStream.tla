---------------------------- MODULE PacketStream ----------------------------
(***************************************************************************)
(* What stream deframing promises, with no buffering and no read           *)
(* boundaries: the bytes received so far are cut into frames from the      *)
(* front, a packet is handed over only when all of it has arrived, in      *)
(* order, once, and a frame that announces more than maxFrameSize bytes    *)
(* ends the stream.                                                        *)
(***************************************************************************)
EXTENDS OscStreamFraming

CONSTANT maxFrameSize

VARIABLES
  stream,      \* every byte received on this connection
  cursor,      \* the offset at which the next frame starts
  delivered,   \* the packets handed over so far
  failed       \* a frame was too large

vars == << stream, cursor, delivered, failed >>

Init ==
  /\ stream = << >>
  /\ cursor = 0
  /\ delivered = << >>
  /\ failed = FALSE

HeaderArrived == cursor + OSC_STREAM_FRAME_HEADER_SIZE <= Len(stream)

Size == ToUInt32(stream, cursor)

FrameArrived ==
  /\ HeaderArrived
  /\ Size <= maxFrameSize
  /\ cursor + OSC_STREAM_FRAME_HEADER_SIZE + Size <= Len(stream)

(* More bytes arrive behind those already there.                           *)
Arrive ==
  /\ ~failed
  /\ Len(stream) <= Len(stream')
  /\ \A i \in 1..Len(stream) : stream'[i] = stream[i]
  /\ UNCHANGED << cursor, delivered, failed >>

Deliver ==
  /\ ~failed
  /\ FrameArrived
  /\ cursor' = cursor + OSC_STREAM_FRAME_HEADER_SIZE + Size
  /\ delivered' = Append(delivered,
                    SubSeq(stream, cursor + OSC_STREAM_FRAME_HEADER_SIZE + 1, cursor'))
  /\ UNCHANGED << stream, failed >>

Fail ==
  /\ ~failed
  /\ HeaderArrived
  /\ Size > maxFrameSize
  /\ failed' = TRUE
  /\ UNCHANGED << stream, cursor, delivered >>

(* The connection is gone and the next one starts with nothing.            *)
Restart ==
  /\ stream' = << >>
  /\ cursor' = 0
  /\ delivered' = << >>
  /\ failed' = FALSE

Next == Arrive \/ Deliver \/ Fail \/ Restart

Spec == Init /\ [][Next]_vars

=============================================================================
