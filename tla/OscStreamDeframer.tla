------------------------- MODULE OscStreamDeframer -------------------------
(***************************************************************************)
(* OscStreamDeframer of osctap/osc/OscStreamFraming.h: the decoder that    *)
(* reassembles packets from the chunks a transport happens to deliver.     *)
(*                                                                         *)
(* One action per path through an iteration of Consume's loop.  stream is  *)
(* the concatenation of every chunk given to Consume, so that the code's   *)
(* pointers p and end are the offsets pos and Len(stream); the decoder     *)
(* itself never looks behind pos.  The sink is the caller's callback: it   *)
(* returns, or (SinkMayThrow) leaves Consume by an exception, which        *)
(* abandons what is left of the chunk.                                     *)
(***************************************************************************)
EXTENDS OscStreamFraming

CONSTANTS
  maxFrameSize,   \* maxFrameSize_, fixed by the constructor
  Inputs,         \* the byte streams a peer may send
  SinkMayThrow    \* whether the sink may leave by an exception

ASSUME MaxFrameSizeAssumption == maxFrameSize \in Nat
ASSUME InputsAssumption == Inputs \subseteq Seq(Byte)
ASSUME SinkAssumption == SinkMayThrow \in BOOLEAN

VARIABLES
  stream,      \* all the bytes given to Consume, the current chunk last
  pos,         \* p: the offset of the first byte not consumed yet
  buffer,      \* buffer_
  frameSize,   \* frameSize_
  header,      \* header_[0 .. headerFill_ - 1]
  haveHeader,  \* haveHeader_
  delivered,   \* history: the packets the sink was called with
  pc           \* where Consume is; "idle" when no call is in progress

state == << buffer, frameSize, header, haveHeader >>
vars == << stream, pos, buffer, frameSize, header, haveHeader, delivered, pc >>

Init ==
  /\ stream = << >>
  /\ pos = 0
  /\ buffer = << >>
  /\ frameSize = 0
  /\ header = << >>
  /\ haveHeader = FALSE
  /\ delivered = << >>
  /\ pc = "idle"

Avail == Len(stream) - pos

LoopTest == pc = "loop" /\ pos < Len(stream)

(* haveHeader_ is set, or was found set at the top of the loop.            *)
AtPayload == pc = "payload" \/ (LoopTest /\ haveHeader)

Emit(packet) == delivered' = Append(delivered, packet)

-----------------------------------------------------------------------------

Consume(chunk) ==
  /\ pc = "idle"
  /\ stream' = stream \o chunk
  /\ pc' = "loop"
  /\ UNCHANGED << pos, state, delivered >>

(* A transport delivers the peer's bytes in chunks of any size.            *)
Receive ==
  \E s \in Inputs :
    /\ Len(stream) <= Len(s)
    /\ stream = SubSeq(s, 1, Len(stream))
    /\ \E n \in Len(stream)..Len(s) : Consume(SubSeq(s, Len(stream) + 1, n))

ConsumeReturns ==
  /\ pc = "loop"
  /\ pos = Len(stream)
  /\ pc' = "idle"
  /\ UNCHANGED << stream, pos, state, delivered >>

(* Mutated: the fill count of the header is not reset.                     *)
HaveSizeKeepsHeader(size, p) ==
  /\ frameSize' = size
  /\ pos' = p
  /\ IF size > maxFrameSize
     THEN pc' = "rejected" /\ UNCHANGED haveHeader
     ELSE pc' = "payload" /\ haveHeader' = TRUE
  /\ UNCHANGED << stream, buffer, header, delivered >>

(* Mutated: the announced size is not compared with the limit.             *)
HaveSizeUnlimited(size, p) ==
  /\ frameSize' = size
  /\ pos' = p
  /\ header' = << >>
  /\ pc' = "payload" /\ haveHeader' = TRUE
  /\ UNCHANGED << stream, buffer, delivered >>

(* A complete header: refuse the frame or go on to its payload.            *)
HaveSize(size, p) ==
  /\ frameSize' = size
  /\ pos' = p
  /\ header' = << >>
  /\ IF size > maxFrameSize
     THEN pc' = "rejected" /\ UNCHANGED haveHeader
     ELSE pc' = "payload" /\ haveHeader' = TRUE
  /\ UNCHANGED << stream, buffer, delivered >>

HeaderContiguous ==
  /\ LoopTest /\ ~haveHeader
  /\ header = << >> /\ Avail >= OSC_STREAM_FRAME_HEADER_SIZE
  /\ HaveSize(ToUInt32(stream, pos), pos + OSC_STREAM_FRAME_HEADER_SIZE)

(* Mutated: the loop is entered again with nothing left to read.           *)
HeaderIncompleteSpins ==
  /\ LoopTest /\ ~haveHeader
  /\ Len(header) + Avail < OSC_STREAM_FRAME_HEADER_SIZE
  /\ UNCHANGED vars

(* The chunk ends inside the length prefix.                                *)
HeaderIncomplete ==
  /\ LoopTest /\ ~haveHeader
  /\ Len(header) + Avail < OSC_STREAM_FRAME_HEADER_SIZE
  /\ header' = header \o SubSeq(stream, pos + 1, Len(stream))
  /\ pos' = Len(stream)
  /\ pc' = "idle"
  /\ UNCHANGED << stream, buffer, frameSize, haveHeader, delivered >>

(* The chunk completes a length prefix that earlier reads began.           *)
HeaderCompleted ==
  /\ LoopTest /\ ~haveHeader
  /\ header # << >>
  /\ Len(header) + Avail >= OSC_STREAM_FRAME_HEADER_SIZE
  /\ LET p == pos + OSC_STREAM_FRAME_HEADER_SIZE - Len(header)
     IN  HaveSize(ToUInt32(header \o SubSeq(stream, pos + 1, p), 0), p)

(* The whole payload is in the chunk: it is handed over where it lies.     *)
DispatchInPlace ==
  /\ AtPayload
  /\ buffer = << >> /\ Avail >= frameSize
  /\ Emit(SubSeq(stream, pos + 1, pos + frameSize))
  /\ pc' = "sinkChunk"
  /\ UNCHANGED << stream, pos, state >>

(* Mutated: completeness is tested before the bytes are appended.          *)
GatherTestsFirst ==
  /\ AtPayload
  /\ ~(buffer = << >> /\ Avail >= frameSize)
  /\ IF Len(buffer) = frameSize
     THEN Emit(buffer) /\ pc' = "sinkBuffer" /\ UNCHANGED << buffer, pos >>
     ELSE LET still == frameSize - Len(buffer)
              take  == IF Avail < still THEN Avail ELSE still
          IN  /\ buffer' = buffer \o SubSeq(stream, pos + 1, pos + take)
              /\ pos' = pos + take
              /\ pc' = "loop"
              /\ UNCHANGED delivered
  /\ UNCHANGED << stream, frameSize, header, haveHeader >>

(* Mutated: a packet is complete when its last bytes have been appended.   *)
GatherNeedsBytes ==
  /\ AtPayload
  /\ ~(buffer = << >> /\ Avail >= frameSize)
  /\ LET still == frameSize - Len(buffer)
         take  == IF Avail < still THEN Avail ELSE still
     IN  /\ buffer' = buffer \o SubSeq(stream, pos + 1, pos + take)
         /\ pos' = pos + take
         /\ IF take > 0 /\ Len(buffer') = frameSize
            THEN Emit(buffer') /\ pc' = "sinkBuffer"
            ELSE pc' = "loop" /\ UNCHANGED delivered
  /\ UNCHANGED << stream, frameSize, header, haveHeader >>

(* Otherwise the payload is gathered, and handed over when it is complete. *)
Gather ==
  /\ AtPayload
  /\ ~(buffer = << >> /\ Avail >= frameSize)
  /\ LET still == frameSize - Len(buffer)
         take  == IF Avail < still THEN Avail ELSE still
     IN  /\ buffer' = buffer \o SubSeq(stream, pos + 1, pos + take)
         /\ pos' = pos + take
  /\ IF Len(buffer') = frameSize
     THEN Emit(buffer') /\ pc' = "sinkBuffer"
     ELSE pc' = "loop" /\ UNCHANGED delivered
  /\ UNCHANGED << stream, frameSize, header, haveHeader >>

(* Mutated: p also moves past a packet that was in the buffer.             *)
SinkReturnsSkips ==
  /\ \/ pc = "sinkChunk" /\ UNCHANGED buffer
     \/ pc = "sinkBuffer" /\ buffer' = << >>
  /\ pos' = pos + frameSize
  /\ haveHeader' = FALSE
  /\ pc' = "loop"
  /\ UNCHANGED << stream, frameSize, header, delivered >>

SinkReturns ==
  /\ \/ pc = "sinkChunk" /\ pos' = pos + frameSize /\ UNCHANGED buffer
     \/ pc = "sinkBuffer" /\ buffer' = << >> /\ UNCHANGED pos
  /\ haveHeader' = FALSE
  /\ pc' = "loop"
  /\ UNCHANGED << stream, frameSize, header, delivered >>

(* The exception passes through Consume, which changes nothing more; the   *)
(* caller's next chunk does not repeat the bytes of this one.              *)
SinkThrows ==
  /\ SinkMayThrow
  /\ pc \in {"sinkChunk", "sinkBuffer"}
  /\ pos' = Len(stream)
  /\ pc' = "idle"
  /\ UNCHANGED << stream, state, delivered >>

(* Called between two Consumes, to go on with another connection's bytes.  *)
Reset ==
  /\ pc \in {"idle", "rejected"}
  /\ buffer' = << >>
  /\ frameSize' = 0
  /\ header' = << >>
  /\ haveHeader' = FALSE
  /\ stream' = << >> /\ pos' = 0 /\ delivered' = << >> /\ pc' = "idle"

ConsumeStep ==
  \/ ConsumeReturns
  \/ HeaderContiguous \/ HeaderIncomplete \/ HeaderCompleted
  \/ DispatchInPlace \/ Gather
  \/ SinkReturns \/ SinkThrows

Next == Receive \/ ConsumeStep \/ Reset

Spec == Init /\ [][Next]_vars

(* A call to Consume runs to its end: nothing in it waits.                 *)
FairSpec == Spec /\ WF_vars(ConsumeStep)

-----------------------------------------------------------------------------

TypeOK ==
  /\ stream \in Seq(Byte)
  /\ pos \in 0..Len(stream)
  /\ buffer \in Seq(Byte)
  /\ frameSize \in Nat
  /\ header \in Seq(Byte) /\ Len(header) < OSC_STREAM_FRAME_HEADER_SIZE
  /\ haveHeader \in BOOLEAN
  /\ delivered \in Seq(Seq(Byte))
  /\ pc \in {"idle", "loop", "payload", "sinkChunk", "sinkBuffer", "rejected"}

(* The deframer keeps no more than one bounded frame, however the stream   *)
(* is chunked and whether or not the sink throws: the reassembly buffer    *)
(* never exceeds the frame being read, nor that frame maxFrameSize_ -- the *)
(* bound the header comment promises ("at most one bounded reassembly      *)
(* buffer").  A size that is checked too late, or a buffer that survives   *)
(* into the next frame, would break it.                                    *)
BoundedBuffer ==
  /\ Len(buffer) <= maxFrameSize
  /\ buffer # << >> => haveHeader /\ Len(buffer) <= frameSize

(* Where the frame in progress starts.                                     *)
cursor ==
  CASE pc = "sinkChunk" -> pos + frameSize
    [] pc = "sinkBuffer" -> pos
    [] pc = "rejected" -> pos - OSC_STREAM_FRAME_HEADER_SIZE
    [] OTHER -> IF haveHeader
                THEN pos - Len(buffer) - OSC_STREAM_FRAME_HEADER_SIZE
                ELSE pos - Len(header)

Abstract == INSTANCE PacketStream WITH failed <- pc = "rejected"

(* Every packet of the stream is delivered once, in order and with its own *)
(* bytes, whatever the chunks: the deframer implements PacketStream.  This *)
(* is the class's first claim ("it emits each complete OSC packet exactly  *)
(* once"), and a chunk boundary inside a header or a payload is where      *)
(* Consume's bookkeeping could lose it.                                    *)
ImplementsPacketStream == Abstract!Spec

(* A read leaves nothing behind: when Consume returns true, every packet   *)
(* that has arrived completely has been delivered, one of zero bytes too   *)
(* ("forwarded as an empty packet"), even when its header is the last      *)
(* thing in the chunk.                                                     *)
NoPacketHeldBack == pc = "idle" => ~Abstract!FrameArrived

(* A call to Consume ends, by returning or by the sink's exception: every  *)
(* round of the loop makes progress, also with frames of zero bytes and,   *)
(* where the sink may throw, with a buffer that an exception left full.    *)
ConsumeTerminates == (pc # "idle") ~> (pc \in {"idle", "rejected"})

=============================================================================
