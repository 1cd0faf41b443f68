------------------------ MODULE MCOscStreamDeframer ------------------------
(***************************************************************************)
(* Byte streams on which TLC checks OscStreamDeframer.  The payload bytes  *)
(* look like length prefixes, so that a decoder that loses its place       *)
(* finds another well-formed stream.                                       *)
(***************************************************************************)
EXTENDS OscStreamDeframer

Frame(packet) ==
  FrameOscPacket(packet, Len(packet) + OSC_STREAM_FRAME_HEADER_SIZE)

MCMaxFrameSize == 5

(* Frames up to the limit and back to back.                                *)
Packets == Frame(<< 0, 0, 0, 1, 1 >>) \o Frame(<< 0 >>) \o Frame(<< 0, 0, 3 >>)

(* An empty frame before others, and one that ends the stream.             *)
EmptyPackets == Frame(<< 1 >>) \o Frame(<< >>) \o Frame(<< 0, 2 >>) \o Frame(<< >>)

(* One byte over the limit, and a size that is large only when its first   *)
(* byte counts most.                                                       *)
TooLarge == Frame(<< 2, 1 >>) \o FromUInt32(MCMaxFrameSize + 1)
            \o << 0, 0, 0, 0, 0, 0 >>
FarTooLarge == Frame(<< 3 >>) \o << 1, 0, 0, 0, 9 >>

(* The packets a byte stream holds, by cutting it up from the front.       *)
PacketsOf(s) ==
  LET from[p \in 0..Len(s)] ==
        IF p + OSC_STREAM_FRAME_HEADER_SIZE > Len(s)
        THEN << >>
        ELSE LET size == ToUInt32(s, p)
                 next == p + OSC_STREAM_FRAME_HEADER_SIZE + size
             IN  IF size > maxFrameSize \/ next > Len(s)
                 THEN << >>
                 ELSE << SubSeq(s, p + OSC_STREAM_FRAME_HEADER_SIZE + 1, next) >> \o from[next]
  IN  from[0]

(* "It emits each complete OSC packet exactly once": what the sink has     *)
(* been called with is what the stream holds, in its order.  An exception  *)
(* that passes through Consume leaves haveHeader_ or a full buffer_ behind *)
(* and abandons the rest of the chunk.                                     *)
EachPacketOnce ==
  LET sent == PacketsOf(stream)
  IN  Len(delivered) <= Len(sent) /\ delivered = SubSeq(sent, 1, Len(delivered))

MCInputs == { Packets, EmptyPackets, TooLarge, FarTooLarge }

=============================================================================
