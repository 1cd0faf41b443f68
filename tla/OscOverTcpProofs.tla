-------------------------- MODULE OscOverTcpProofs --------------------------
(***************************************************************************)
(* Proofs about OscStreamDeframer, for every maxFrameSize, every set of    *)
(* input streams and every way of chunking them; then about OscOverTcp,    *)
(* for any packets of fewer than 2^32 bytes (Send writes the length as a   *)
(* uint32_t), any number of them, any capacity of the connection and any   *)
(* limit of the receiver, whose sink returns.                              *)
(***************************************************************************)
EXTENDS OscOverTcp, SequenceTheorems, TLAPS

-----------------------------------------------------------------------------
(* The inductive invariant.                                                *)

(* b is the piece of s that ends at offset p.                              *)
EndsAt(b, s, p) ==
  /\ Len(b) <= p
  /\ \A i \in 1..Len(b) : b[i] = s[p - Len(b) + i]

(* How the fields of the deframer fit together between two steps.  It is   *)
(* the part of the inductive invariant that also holds with a throwing     *)
(* sink.                                                                   *)
Control ==
  /\ EndsAt(header, stream, pos)
  /\ haveHeader => header = << >> /\ frameSize <= maxFrameSize
  /\ haveHeader => Len(buffer) <= frameSize
  /\ ~haveHeader => buffer = << >>
  /\ pc \in {"payload", "sinkChunk", "sinkBuffer"} => haveHeader
  /\ pc = "payload" => buffer = << >>
  /\ pc = "sinkChunk" => buffer = << >> /\ pos + frameSize <= Len(stream)
  /\ pc = "sinkBuffer" => Len(buffer) = frameSize /\ buffer # << >>
  /\ pc = "rejected" => ~haveHeader /\ header = << >>
  /\ pc = "idle" => pos = Len(stream)

(* The payload bytes copied so far are what the stream holds just before   *)
(* pos, and the size in use is the one the stream announces before them:   *)
(* the part that an exception from the sink destroys.                      *)
Placed ==
  /\ EndsAt(buffer, stream, pos)
  /\ haveHeader =>
        /\ Len(buffer) + OSC_STREAM_FRAME_HEADER_SIZE <= pos
        /\ frameSize = ToUInt32(stream, pos - Len(buffer) - OSC_STREAM_FRAME_HEADER_SIZE)
        /\ pc \in {"idle", "loop"} => Len(buffer) < frameSize
  /\ pc = "rejected" =>
        /\ OSC_STREAM_FRAME_HEADER_SIZE <= pos
        /\ ToUInt32(stream, pos - OSC_STREAM_FRAME_HEADER_SIZE) > maxFrameSize

IInv == TypeOK /\ Control /\ (~SinkMayThrow => Placed)

(* What the receiver was sent and what is still in Send's hands.           *)
ConnectionTypeOK ==
  /\ link \in {"none", "up", "closed", "lost"}
  /\ wire \in Seq(Byte)
  /\ sendPc \in {"idle", "header", "payload"}
  /\ packet \in Seq(Byte)
  /\ unsent \in Seq(Byte)
  /\ sent \in Seq(Seq(Byte))
  /\ torn \in 0..Len(sent)

(* The lengths a header can announce: those of a uint32_t.                 *)
UInt32 == {n \in Nat : n < 256 * 256 * 256 * 256}

(* The call in progress: its packet is the last of sent as soon as a byte  *)
(* of its frame is written.                                                *)
CallOK ==
  /\ sendPc = "header" =>
        /\ Len(packet) \in UInt32
        /\ Len(unsent) <= OSC_STREAM_FRAME_HEADER_SIZE
        /\ Untouched => unsent = WriteOscStreamFrameHeader(Len(packet))
  /\ sendPc = "payload" => Len(unsent) <= Len(packet)
  /\ sendPc # "idle" /\ ~Untouched => Len(sent) > torn /\ sent[Len(sent)] = packet

(* The bytes of frames in sent that Send has yet to give to the kernel.    *)
Pending ==
  IF sendPc = "idle" \/ Untouched THEN << >>
  ELSE IF sendPc = "header" THEN unsent \o packet
  ELSE unsent

(* b is where s starts.                                                    *)
StartsWith(s, b) ==
  /\ Len(b) <= Len(s)
  /\ \A i \in 1..Len(b) : b[i] = s[i]

(* text is made of the frames of the first n packets, cut at cuts.         *)
Framed(text, cuts, packets, n) ==
  /\ Len(cuts) = n + 1
  /\ cuts[1] = 0
  /\ cuts[n + 1] = Len(text)
  /\ \A k \in 1..n :
       /\ cuts[k + 1] = cuts[k] + OSC_STREAM_FRAME_HEADER_SIZE + Len(packets[k])
       /\ cuts[k + 1] <= Len(text)
       /\ ToUInt32(text, cuts[k]) = Len(packets[k])
       /\ \A i \in 1..Len(packets[k]) :
            text[cuts[k] + OSC_STREAM_FRAME_HEADER_SIZE + i] = packets[k][i]
  /\ \A j, k \in 1..(n + 1) : j <= k => cuts[j] <= cuts[k]

(* The frames up to the torn one, it included.                             *)
Kept == IF torn = 0 THEN Len(sent) ELSE torn

(* text is what the frames up to the torn one amount to when they are      *)
(* written out.  While none is torn, the kernel and Send have it between   *)
(* them; after that the kernel has the frames before it and a piece of it, *)
(* and more only if Send was called again.                                 *)
Conversation(text, cuts) ==
  /\ Framed(text, cuts, sent, Kept)
  /\ torn = 0 => text = wire \o Pending
  /\ torn # 0 => /\ cuts[torn] <= Len(wire)
                 /\ \A i \in 1..cuts[torn] : wire[i] = text[i]
                 /\ ~Retried => StartsWith(text, wire) /\ Len(wire) < Len(text)

(* The receiver is at the cut behind the packets it has delivered.         *)
Placement(cuts) == Len(delivered) <= Intact => cursor = cuts[Len(delivered) + 1]

(* The inductive invariant.                                                *)
TcpIInv ==
  /\ IInv
  /\ ConnectionTypeOK
  /\ CallOK
  /\ StartsWith(wire, stream)
  /\ DeliveredInOrder
  /\ \E text \in Seq(Byte), cuts \in Seq(Nat) : Conversation(text, cuts) /\ Placement(cuts)

-----------------------------------------------------------------------------
(* Lemmas about byte sequences.                                            *)

(* What a slice of the code's chunk is: its length and its bytes.          *)
LEMMA SliceProperties ==
  ASSUME NEW s \in Seq(Byte), NEW m \in 0..Len(s), NEW n \in m..Len(s)
  PROVE  /\ SubSeq(s, m + 1, n) \in Seq(Byte)
         /\ Len(SubSeq(s, m + 1, n)) = n - m
         /\ \A i \in 1..(n - m) : SubSeq(s, m + 1, n)[i] = s[m + i]
<1> DEFINE k == m + 1
<1>1. Len(s) \in Nat /\ k \in Int /\ n \in Int /\ k = m + 1
  BY LenProperties
<1>2. \A i \in k..n : s[i] \in Byte
  BY <1>1, ElementOfSeq
<1> HIDE DEF k
<1>3. /\ SubSeq(s, k, n) \in Seq(Byte)
      /\ Len(SubSeq(s, k, n)) = IF k <= n THEN n - k + 1 ELSE 0
      /\ \A i \in 1..(n - k + 1) : SubSeq(s, k, n)[i] = s[k + i - 1]
  BY <1>1, <1>2, SubSeqProperties
<1> QED
  BY <1>1, <1>3

(* Appending the bytes from p to q to a piece that ends at p gives the     *)
(* piece that ends at q (the buffer_.insert of Consume).                   *)
LEMMA ExtendPiece ==
  ASSUME NEW s \in Seq(Byte), NEW b \in Seq(Byte),
         NEW p \in 0..Len(s), NEW q \in p..Len(s), EndsAt(b, s, p)
  PROVE  /\ b \o SubSeq(s, p + 1, q) \in Seq(Byte)
         /\ Len(b \o SubSeq(s, p + 1, q)) = Len(b) + (q - p)
         /\ EndsAt(b \o SubSeq(s, p + 1, q), s, q)
<1> DEFINE t == SubSeq(s, p + 1, q)
<1>1. /\ t \in Seq(Byte)
      /\ Len(t) = q - p
      /\ \A i \in 1..(q - p) : t[i] = s[p + i]
  BY SliceProperties
<1>2. /\ b \o t \in Seq(Byte)
      /\ Len(b \o t) = Len(b) + Len(t)
      /\ \A i \in 1..Len(b) + Len(t) :
            (b \o t)[i] = IF i <= Len(b) THEN b[i] ELSE t[i - Len(b)]
  BY <1>1, ConcatProperties, Zenon
<1>3. Len(b) \in Nat /\ Len(s) \in Nat
  BY LenProperties
<1> HIDE DEF t
<1>4. ASSUME NEW i \in 1..(Len(b) + (q - p))
      PROVE  (b \o t)[i] = s[q - (Len(b) + (q - p)) + i]
  <2>1. CASE i <= Len(b)
    BY <2>1, <1>1, <1>2, <1>3 DEF EndsAt
  <2>2. CASE i > Len(b)
    <3>1. i - Len(b) \in 1..(q - p)
      BY <2>2, <1>3
    <3>2. (b \o t)[i] = t[i - Len(b)]
      BY <2>2, <1>1, <1>2, <1>3
    <3>3. t[i - Len(b)] = s[p + (i - Len(b))]
      BY <3>1, <1>1, Zenon
    <3>4. p + (i - Len(b)) = q - (Len(b) + (q - p)) + i
      BY <1>3
    <3> QED BY <3>2, <3>3, <3>4
  <2>3. i <= Len(b) \/ i > Len(b)
    BY <1>3
  <2> QED BY <2>1, <2>2, <2>3
<1>5. EndsAt(b \o t, s, q)
  BY <1>1, <1>2, <1>3, <1>4 DEF EndsAt
<1> QED BY <1>1, <1>2, <1>5 DEF t

(* A piece that ends at p is the slice of s that ends there.               *)
LEMMA PieceIsSlice ==
  ASSUME NEW s \in Seq(Byte), NEW b \in Seq(Byte), NEW p \in 0..Len(s),
         EndsAt(b, s, p)
  PROVE  b = SubSeq(s, p - Len(b) + 1, p)
<1>1. Len(b) \in Nat /\ Len(s) \in Nat /\ p - Len(b) \in 0..Len(s) /\ p \in (p - Len(b))..Len(s)
  BY LenProperties DEF EndsAt
<1> DEFINE m == p - Len(b)
<1>2. /\ SubSeq(s, m + 1, p) \in Seq(Byte)
      /\ Len(SubSeq(s, m + 1, p)) = p - m
      /\ \A i \in 1..(p - m) : SubSeq(s, m + 1, p)[i] = s[m + i]
  BY <1>1, SliceProperties, Zenon
<1>3. Len(b) = Len(SubSeq(s, m + 1, p))
  BY <1>1, <1>2
<1>4. \A i \in 1..Len(b) : b[i] = SubSeq(s, m + 1, p)[i]
  BY <1>1, <1>2 DEF EndsAt
<1> QED
  BY <1>2, <1>3, <1>4, SeqEqual, Zenon

(* Bytes that arrive later change nothing before them.                     *)
LEMMA Growth ==
  ASSUME NEW s \in Seq(Byte), NEW t \in Seq(Byte)
  PROVE  /\ s \o t \in Seq(Byte)
         /\ Len(s) <= Len(s \o t)
         /\ \A i \in 1..Len(s) : (s \o t)[i] = s[i]
         /\ \A p \in Nat : p + 4 <= Len(s) => ToUInt32(s \o t, p) = ToUInt32(s, p)
         /\ \A b \in Seq(Byte), p \in 0..Len(s) :
               EndsAt(b, s, p) => EndsAt(b, s \o t, p)
<1>1. /\ s \o t \in Seq(Byte)
      /\ Len(s \o t) = Len(s) + Len(t)
      /\ \A i \in 1..Len(s) + Len(t) :
            (s \o t)[i] = IF i <= Len(s) THEN s[i] ELSE t[i - Len(s)]
  BY ConcatProperties, Zenon
<1>2. Len(s) \in Nat /\ Len(t) \in Nat
  BY LenProperties
<1>3. \A i \in 1..Len(s) : (s \o t)[i] = s[i]
  BY <1>1, <1>2
<1>4. ASSUME NEW p \in Nat, p + 4 <= Len(s)
      PROVE  ToUInt32(s \o t, p) = ToUInt32(s, p)
  <2>1. p + 1 \in 1..Len(s) /\ p + 2 \in 1..Len(s) /\ p + 3 \in 1..Len(s) /\ p + 4 \in 1..Len(s)
    BY <1>2, <1>4
  <2>2. /\ (s \o t)[p + 1] = s[p + 1] /\ (s \o t)[p + 2] = s[p + 2]
        /\ (s \o t)[p + 3] = s[p + 3] /\ (s \o t)[p + 4] = s[p + 4]
    BY <1>3, <2>1
  <2> QED BY <2>2, Zenon DEF ToUInt32
<1>5. ASSUME NEW b \in Seq(Byte), NEW p \in 0..Len(s), EndsAt(b, s, p)
      PROVE  EndsAt(b, s \o t, p)
  <2>1. Len(b) \in Nat
    BY LenProperties
  <2> QED BY <2>1, <1>2, <1>3, <1>5 DEF EndsAt
<1> QED BY <1>1, <1>2, <1>3, <1>4, <1>5

(* A length prefix is a natural number.                                    *)
LEMMA SizeIsNat ==
  ASSUME NEW s \in Seq(Byte), NEW p \in Nat, p + 4 <= Len(s)
  PROVE  ToUInt32(s, p) \in Nat
<1>1. Len(s) \in Nat
  BY LenProperties
<1>2. p + 1 \in 1..Len(s) /\ p + 2 \in 1..Len(s) /\ p + 3 \in 1..Len(s) /\ p + 4 \in 1..Len(s)
  BY <1>1
<1>3. s[p + 1] \in Byte /\ s[p + 2] \in Byte /\ s[p + 3] \in Byte /\ s[p + 4] \in Byte
  BY <1>2, ElementOfSeq
<1>4. s[p + 1] \in Nat /\ s[p + 2] \in Nat /\ s[p + 3] \in Nat /\ s[p + 4] \in Nat
  <2>1. \A b \in Byte : b \in Nat
    BY DEF Byte
  <2> QED BY <1>3, <2>1
<1>5. PICK a \in Nat, b \in Nat, c \in Nat, d \in Nat :
        a = s[p + 1] /\ b = s[p + 2] /\ c = s[p + 3] /\ d = s[p + 4]
  BY <1>4, Zenon
<1>6. ToUInt32(s, p) = ((a * 256 + b) * 256 + c) * 256 + d
  BY <1>5, Zenon DEF ToUInt32
<1> QED BY <1>6, SMT

(* A header gathered over several reads reads as it does in the stream.    *)
LEMMA HeaderPiece ==
  ASSUME NEW s \in Seq(Byte), NEW h \in Seq(Byte), NEW p \in 0..Len(s),
         EndsAt(h, s, p), Len(h) = 4
  PROVE  ToUInt32(h, 0) = ToUInt32(s, p - 4)
<1>1. \A k \in 1..4 : h[k] = s[p - 4 + k]
  BY DEF EndsAt
<1> QED BY <1>1 DEF ToUInt32

-----------------------------------------------------------------------------
(* The inductive invariant.                                                *)

(* The initial state satisfies it.                                         *)
LEMMA InitIInv == Init => IInv
<1> SUFFICES ASSUME Init PROVE IInv
  OBVIOUS
<1>1. << >> \in Seq(Byte) /\ << >> \in Seq(Seq(Byte)) /\ Len(<< >>) = 0
  BY EmptySeq
<1>2. TypeOK
  <2>1. 0 \in Nat /\ 0 \in 0..Len(<< >>) /\ Len(<< >>) < 4
    BY <1>1
  <2> QED BY <1>1, <2>1, Zenon DEF Init, TypeOK, OSC_STREAM_FRAME_HEADER_SIZE
<1>3. Control
  BY <1>1 DEF Init, Control, EndsAt
<1>4. Placed
  BY <1>1 DEF Init, Placed, EndsAt
<1> QED BY <1>2, <1>3, <1>4 DEF IInv

(* Fixing the header of the next frame, whichever way it was read.         *)
LEMMA HaveSizeStep ==
  ASSUME TypeOK, Control, NEW size, NEW p \in pos..Len(stream),
         ~haveHeader, OSC_STREAM_FRAME_HEADER_SIZE <= p, size \in Nat,
         HaveSize(size, p)
  PROVE  /\ TypeOK' /\ Control'
         /\ size = ToUInt32(stream, p - OSC_STREAM_FRAME_HEADER_SIZE) => Placed'
<1> USE DEF OSC_STREAM_FRAME_HEADER_SIZE, HaveSize
<1>0. \A q \in Nat : EndsAt(<< >>, stream, q)
  BY EmptySeq DEF EndsAt
<1>1. << >> \in Seq(Byte) /\ Len(<< >>) = 0 /\ Len(stream) \in Nat
  BY EmptySeq, LenProperties DEF TypeOK
<1>2. TypeOK'
  <2>1. CASE size > maxFrameSize
    BY <1>1, <2>1 DEF TypeOK
  <2>2. CASE ~(size > maxFrameSize)
    BY <1>1, <2>2 DEF TypeOK
  <2> QED BY <2>1, <2>2
<1>3. Control'
  <2>0. size <= maxFrameSize \/ size > maxFrameSize
    BY MaxFrameSizeAssumption
  <2>1. CASE size > maxFrameSize
    BY <1>0, <1>1, <2>1 DEF TypeOK, Control
  <2>2. CASE size <= maxFrameSize
    <3>1. pc' = "payload" /\ haveHeader' = TRUE
      BY <2>2, MaxFrameSizeAssumption
    <3>2. buffer' = << >>
      BY DEF Control
    <3> QED BY <1>0, <1>1, <2>2, <3>1, <3>2 DEF Control
  <2> QED BY <2>0, <2>1, <2>2
<1>4. ASSUME size = ToUInt32(stream, p - OSC_STREAM_FRAME_HEADER_SIZE)
      PROVE  Placed'
  <2>1. buffer' = << >> /\ header' = << >> /\ pos' = p /\ stream' = stream /\ frameSize' = size
    BY DEF Control
  <2>2. EndsAt(<< >>, stream, p)
    BY <1>0, <1>1
  <2>3. pc' = "rejected" => size > maxFrameSize
    OBVIOUS
  <2> QED BY <1>1, <1>4, <2>1, <2>2, <2>3 DEF Placed
<1> QED BY <1>2, <1>3, <1>4

(* Consume is given more bytes, whatever they are.                         *)
LEMMA ConsumeCallStep ==
  ASSUME IInv, NEW chunk \in Seq(Byte), Consume(chunk)
  PROVE  IInv'
<1>1. stream \in Seq(Byte)
  BY DEF IInv, TypeOK
<1>2. /\ stream' = stream \o chunk /\ pc = "idle" /\ pc' = "loop"
      /\ pos' = pos /\ buffer' = buffer /\ frameSize' = frameSize
      /\ header' = header /\ haveHeader' = haveHeader /\ delivered' = delivered
  BY DEF Consume, state
<1>3. /\ stream' \in Seq(Byte) /\ Len(stream) \in Nat /\ Len(stream') \in Nat
      /\ Len(stream) <= Len(stream')
      /\ \A p \in Nat : p + 4 <= Len(stream) => ToUInt32(stream', p) = ToUInt32(stream, p)
      /\ \A b \in Seq(Byte), p \in 0..Len(stream) : EndsAt(b, stream, p) => EndsAt(b, stream', p)
  BY <1>1, <1>2, Growth, LenProperties
<1>4. TypeOK'
  BY <1>2, <1>3 DEF IInv, TypeOK
<1>5. Control'
  <2>1. EndsAt(header, stream', pos)
    BY <1>3 DEF IInv, TypeOK, Control
  <2> QED BY <1>2, <1>3, <2>1 DEF IInv, Control
<1>6. ASSUME ~SinkMayThrow PROVE Placed'
  <2>1. EndsAt(buffer, stream', pos)
    BY <1>3, <1>6 DEF IInv, TypeOK, Placed
  <2>2. ASSUME haveHeader
        PROVE  ToUInt32(stream', pos - Len(buffer) - 4) = ToUInt32(stream, pos - Len(buffer) - 4)
    <3>1. Len(buffer) \in Nat /\ pos \in 0..Len(stream) /\ Len(buffer) + 4 <= pos
      BY <1>6, <2>2, LenProperties DEF IInv, TypeOK, Placed, OSC_STREAM_FRAME_HEADER_SIZE
    <3> QED BY <3>1, <1>3
  <2> QED
    BY <1>2, <1>6, <2>1, <2>2 DEF IInv, Placed, OSC_STREAM_FRAME_HEADER_SIZE
<1> QED BY <1>4, <1>5, <1>6 DEF IInv

(* A transport's read is such a call.                                      *)
LEMMA ReceiveIsCall ==
  ASSUME IInv, Receive
  PROVE  \E chunk \in Seq(Byte) : Consume(chunk)
<1>1. PICK s \in Inputs :
        /\ Len(stream) <= Len(s)
        /\ \E n \in Len(stream)..Len(s) : Consume(SubSeq(s, Len(stream) + 1, n))
  BY DEF Receive
<1>2. PICK n \in Len(stream)..Len(s) : Consume(SubSeq(s, Len(stream) + 1, n))
  BY <1>1
<1>3. s \in Seq(Byte) /\ Len(stream) \in 0..Len(s)
  BY <1>1, InputsAssumption, LenProperties DEF IInv, TypeOK
<1>4. SubSeq(s, Len(stream) + 1, n) \in Seq(Byte)
  BY <1>3, SliceProperties
<1> QED BY <1>2, <1>4

(* The three ways to read a header, or part of one.                        *)
LEMMA HeaderContiguousStep ==
  ASSUME IInv, HeaderContiguous
  PROVE  /\ IInv'
         /\ ToUInt32(stream, pos) \in Nat
<1> USE DEF OSC_STREAM_FRAME_HEADER_SIZE
<1>1. /\ stream \in Seq(Byte) /\ pos \in Nat /\ Len(stream) \in Nat
      /\ pos + 4 <= Len(stream) /\ ~haveHeader
      /\ HaveSize(ToUInt32(stream, pos), pos + 4)
  BY LenProperties DEF IInv, TypeOK, HeaderContiguous, Avail, LoopTest
<1>2. ToUInt32(stream, pos) \in Nat
  BY <1>1, SizeIsNat
<1>3. pos + 4 \in pos..Len(stream) /\ 4 <= pos + 4 /\ (pos + 4) - 4 = pos
  BY <1>1
<1>4. TypeOK' /\ Control' /\ Placed'
  BY <1>1, <1>2, <1>3, HaveSizeStep DEF IInv
<1> QED BY <1>2, <1>4 DEF IInv

(* The bytes of an incomplete header are kept behind those of earlier      *)
(* reads.                                                                  *)
LEMMA HeaderIncompleteStep ==
  ASSUME IInv, HeaderIncomplete
  PROVE  /\ IInv'
         /\ Len(header') = Len(header) + Len(stream) - pos
<1> USE DEF OSC_STREAM_FRAME_HEADER_SIZE
<1>1. /\ stream \in Seq(Byte) /\ header \in Seq(Byte) /\ pos \in 0..Len(stream)
      /\ Len(stream) \in pos..Len(stream) /\ Len(header) \in Nat /\ Len(stream) \in Nat
      /\ Len(header) + (Len(stream) - pos) < 4
      /\ header' = header \o SubSeq(stream, pos + 1, Len(stream))
      /\ ~haveHeader /\ haveHeader' = haveHeader /\ pos' = Len(stream) /\ pc' = "idle"
      /\ stream' = stream /\ buffer' = buffer /\ frameSize' = frameSize /\ delivered' = delivered
  BY LenProperties DEF IInv, TypeOK, HeaderIncomplete, Avail, LoopTest
<1>2. header' \in Seq(Byte) /\ Len(header') = Len(header) + (Len(stream) - pos)
  <2>1. /\ SubSeq(stream, pos + 1, Len(stream)) \in Seq(Byte)
        /\ Len(SubSeq(stream, pos + 1, Len(stream))) = Len(stream) - pos
    BY <1>1, SliceProperties
  <2> QED BY <1>1, <2>1, ConcatProperties
<1>4. TypeOK'
  BY <1>1, <1>2 DEF IInv, TypeOK
<1>5. Control'
  <2>1. EndsAt(header', stream', pos')
    BY <1>1, ExtendPiece DEF IInv, Control
  <2> QED BY <1>1, <2>1 DEF IInv, Control
<1>6. ASSUME ~SinkMayThrow PROVE Placed'
  <2>1. buffer' = << >> /\ Len(<< >>) = 0
    BY <1>1, EmptySeq DEF IInv, Control
  <2>2. EndsAt(buffer', stream', pos')
    BY <1>1, <2>1 DEF EndsAt
  <2> QED BY <1>1, <2>2 DEF Placed
<1> QED BY <1>1, <1>2, <1>4, <1>5, <1>6 DEF IInv

(* A header completed over several reads ends where its last byte lies in  *)
(* the stream.                                                             *)
LEMMA HeaderCompletedStep ==
  ASSUME IInv, HeaderCompleted
  PROVE  /\ IInv'
         /\ pos - Len(header) \in Nat
         /\ pos - Len(header) + 4 <= Len(stream)
         /\ HaveSize(ToUInt32(stream, pos - Len(header)), pos - Len(header) + 4)
<1> USE DEF OSC_STREAM_FRAME_HEADER_SIZE
<1> DEFINE p == pos + 4 - Len(header)
           h == header \o SubSeq(stream, pos + 1, p)
<1>1. /\ stream \in Seq(Byte) /\ header \in Seq(Byte) /\ pos \in 0..Len(stream)
      /\ Len(header) \in Nat /\ Len(header) < 4 /\ Len(stream) \in Nat
      /\ Len(header) + (Len(stream) - pos) >= 4 /\ ~haveHeader
      /\ HaveSize(ToUInt32(h, 0), p)
      /\ EndsAt(header, stream, pos) /\ Len(header) <= pos
  BY LenProperties DEF IInv, TypeOK, Control, HeaderCompleted, Avail, LoopTest, EndsAt
<1>2. p \in pos..Len(stream) /\ p \in 0..Len(stream) /\ 4 <= p
  BY <1>1
<1>3. h \in Seq(Byte) /\ Len(h) = Len(header) + (p - pos) /\ EndsAt(h, stream, p)
  BY <1>1, <1>2, ExtendPiece
<1>4. ToUInt32(h, 0) = ToUInt32(stream, p - 4)
  <2>1. Len(h) = 4
    BY <1>1, <1>3
  <2> QED BY <1>1, <1>2, <1>3, <2>1, HeaderPiece
<1>5. p - 4 \in Nat /\ (p - 4) + 4 <= Len(stream) /\ p - 4 = pos - Len(header) /\ p = pos - Len(header) + 4
  BY <1>1, <1>2
<1>6. ToUInt32(stream, p - 4) \in Nat
  BY <1>1, <1>5, SizeIsNat
<1>7. HaveSize(ToUInt32(stream, p - 4), p)
  BY <1>1, <1>4
<1>8. TypeOK' /\ Control' /\ Placed'
  BY <1>1, <1>2, <1>6, <1>7, HaveSizeStep DEF IInv
<1> QED BY <1>1, <1>5, <1>7, <1>8 DEF IInv

(* The two ways to reach the sink, and to gather a payload.                *)
LEMMA DispatchInPlaceStep ==
  ASSUME IInv, DispatchInPlace
  PROVE  IInv'
<1>1. /\ stream \in Seq(Byte) /\ pos \in Nat /\ Len(stream) \in Nat /\ frameSize \in Nat
      /\ pos + frameSize <= Len(stream) /\ haveHeader /\ buffer = << >>
      /\ delivered' = Append(delivered, SubSeq(stream, pos + 1, pos + frameSize))
      /\ pc' = "sinkChunk" /\ stream' = stream /\ pos' = pos /\ buffer' = buffer
      /\ frameSize' = frameSize /\ header' = header /\ haveHeader' = haveHeader
  BY LenProperties DEF IInv, TypeOK, Control, DispatchInPlace, AtPayload, LoopTest, Avail, Emit, state
<1>2. SubSeq(stream, pos + 1, pos + frameSize) \in Seq(Byte)
  BY <1>1, SliceProperties
<1>3. delivered' \in Seq(Seq(Byte))
  BY <1>1, <1>2, AppendProperties DEF IInv, TypeOK
<1>4. TypeOK'
  BY <1>1, <1>3 DEF IInv, TypeOK
<1>5. Control'
  BY <1>1 DEF IInv, Control
<1>6. ~SinkMayThrow => Placed'
  BY <1>1 DEF IInv, Placed
<1> QED BY <1>4, <1>5, <1>6 DEF IInv

(* A payload gathered over several reads stays the piece of the stream     *)
(* that ends at pos, and never outgrows its frame.                         *)
LEMMA GatherStep ==
  ASSUME IInv, Gather
  PROVE  /\ IInv'
         /\ haveHeader /\ haveHeader' = haveHeader /\ frameSize' = frameSize /\ stream' = stream
         /\ pos' \in pos..Len(stream) /\ Len(buffer') = Len(buffer) + (pos' - pos)
         /\ \/ Len(buffer') = frameSize /\ pc' = "sinkBuffer" /\ delivered' = Append(delivered, buffer')
            \/ Len(buffer') # frameSize /\ pc' = "loop" /\ delivered' = delivered
<1> DEFINE still == frameSize - Len(buffer)
           take == IF Avail < still THEN Avail ELSE still
<1>1. /\ stream \in Seq(Byte) /\ pos \in 0..Len(stream) /\ Len(stream) \in Nat /\ frameSize \in Nat
      /\ buffer \in Seq(Byte) /\ Len(buffer) \in Nat /\ Len(buffer) <= frameSize
      /\ haveHeader /\ header = << >> /\ delivered \in Seq(Seq(Byte))
  BY LenProperties DEF IInv, TypeOK, Control, Gather, AtPayload
<1>2. /\ stream' = stream /\ frameSize' = frameSize /\ header' = header /\ haveHeader' = haveHeader
      /\ buffer' = buffer \o SubSeq(stream, pos + 1, pos + take) /\ pos' = pos + take
      /\ \/ Len(buffer') = frameSize /\ pc' = "sinkBuffer" /\ delivered' = Append(delivered, buffer')
         \/ Len(buffer') # frameSize /\ pc' = "loop" /\ delivered' = delivered
  BY DEF Gather, Emit
<1>3. /\ take \in Nat /\ pos + take \in pos..Len(stream) /\ Len(buffer) + take <= frameSize
      /\ pos + take \in 0..Len(stream)
  BY <1>1 DEF Avail
<1>4. ~(buffer = << >> /\ Avail >= frameSize)
  BY DEF Gather
<1> HIDE DEF take
<1>5. /\ SubSeq(stream, pos + 1, pos + take) \in Seq(Byte)
      /\ Len(SubSeq(stream, pos + 1, pos + take)) = (pos + take) - pos
  BY <1>1, <1>3, SliceProperties
<1>6. buffer' \in Seq(Byte) /\ Len(buffer') = Len(buffer) + take
  BY <1>1, <1>2, <1>3, <1>5, ConcatProperties
<1>7. Append(delivered, buffer') \in Seq(Seq(Byte))
  BY <1>1, <1>6, AppendProperties
<1>8. TypeOK'
  <2>1. pos' \in 0..Len(stream')
    BY <1>2, <1>3
  <2> QED BY <1>1, <1>2, <1>6, <1>7, <2>1, EmptySeq DEF IInv, TypeOK, OSC_STREAM_FRAME_HEADER_SIZE
<1>9. Control'
  <2>1. EndsAt(header', stream', pos')
    BY <1>1, <1>2, <1>3, EmptySeq DEF EndsAt
  <2>2. Len(buffer') = frameSize => buffer' # << >>
    <3> SUFFICES ASSUME Len(buffer') = frameSize, buffer' = << >> PROVE FALSE
      OBVIOUS
    <3>1. Len(buffer) = 0 /\ frameSize = 0
      BY <1>1, <1>3, <1>6, EmptySeq
    <3>2. buffer = << >>
      BY <1>1, <3>1, EmptySeq
    <3> QED BY <1>1, <1>4, <3>1, <3>2 DEF Avail
  <2>3. Len(buffer') <= frameSize' /\ frameSize' <= maxFrameSize
    BY <1>1, <1>2, <1>3, <1>6 DEF IInv, Control
  <2> QED BY <1>1, <1>2, <2>1, <2>2, <2>3 DEF Control
<1>10. ASSUME ~SinkMayThrow PROVE Placed'
  <2>1. EndsAt(buffer', stream', pos')
    BY <1>1, <1>2, <1>3, <1>10, ExtendPiece DEF IInv, Placed
  <2>2. /\ pos \in Nat /\ take \in Nat /\ Len(buffer) \in Nat /\ frameSize \in Nat
        /\ pos' = pos + take /\ Len(buffer') = Len(buffer) + take /\ Len(buffer') <= frameSize
        /\ frameSize' = frameSize /\ stream' = stream
        /\ pc' = "sinkBuffer" \/ Len(buffer') # frameSize
    BY <1>1, <1>2, <1>3, <1>6
  <2>3. Len(buffer) + 4 <= pos /\ frameSize = ToUInt32(stream, pos - Len(buffer) - 4)
    BY <1>1, <1>10, Zenon DEF IInv, Placed, OSC_STREAM_FRAME_HEADER_SIZE
  <2>4. pos' - Len(buffer') = pos - Len(buffer) /\ Len(buffer') + 4 <= pos'
    BY <2>2, <2>3
  <2>5. /\ frameSize' = ToUInt32(stream', pos' - Len(buffer') - 4)
        /\ pc' # "sinkBuffer" => Len(buffer') < frameSize'
    BY <2>2, <2>3, <2>4
  <2>6. pc' # "rejected"
    BY <1>2
  <2> QED BY <2>1, <2>4, <2>5, <2>6 DEF Placed, OSC_STREAM_FRAME_HEADER_SIZE
<1>11. IInv'
  BY <1>8, <1>9, <1>10 DEF IInv
<1>12. pos' \in pos..Len(stream) /\ Len(buffer') = Len(buffer) + (pos' - pos)
  BY <1>1, <1>2, <1>3, <1>6
<1> QED BY <1>1, <1>2, <1>11, <1>12

(* The sink gives control back, or does not.                               *)
LEMMA SinkReturnsStep ==
  ASSUME IInv, SinkReturns
  PROVE  IInv'
<1>1. /\ pos \in Nat /\ Len(stream) \in Nat /\ frameSize \in Nat /\ Len(<< >>) = 0
      /\ << >> \in Seq(Byte) /\ header = << >> /\ pos <= Len(stream)
  BY LenProperties, EmptySeq DEF IInv, TypeOK, Control, SinkReturns
<1>2. /\ stream' = stream /\ frameSize' = frameSize /\ header' = << >> /\ delivered' = delivered
      /\ haveHeader' = FALSE /\ pc' = "loop"
      /\ buffer' = << >> /\ pos' \in Nat /\ pos' <= Len(stream)
  BY <1>1 DEF IInv, Control, SinkReturns
<1>3. TypeOK'
  <2>1. pos' \in 0..Len(stream')
    BY <1>1, <1>2
  <2>2. haveHeader' \in BOOLEAN
    BY <1>2
  <2> QED BY <1>1, <1>2, <2>1, <2>2 DEF IInv, TypeOK, OSC_STREAM_FRAME_HEADER_SIZE
<1>4. EndsAt(<< >>, stream', pos')
  BY <1>1, <1>2 DEF EndsAt
<1>5. Control' /\ Placed'
  BY <1>2, <1>4 DEF Control, Placed
<1> QED BY <1>3, <1>5 DEF IInv

(* An exception from the sink keeps the fields within their bounds, though *)
(* no longer in step with the stream.                                      *)
LEMMA SinkThrowsStep ==
  ASSUME IInv, SinkThrows
  PROVE  IInv'
<1>1. /\ SinkMayThrow /\ header = << >> /\ haveHeader /\ Len(stream) \in Nat
      /\ pos' = Len(stream) /\ pc' = "idle" /\ stream' = stream /\ delivered' = delivered
      /\ buffer' = buffer /\ frameSize' = frameSize /\ header' = header /\ haveHeader' = haveHeader
  BY LenProperties DEF IInv, TypeOK, Control, SinkThrows, state
<1>2. TypeOK'
  BY <1>1 DEF IInv, TypeOK
<1>3. EndsAt(header', stream', pos')
  BY <1>1, EmptySeq DEF EndsAt
<1>4. Control'
  BY <1>1, <1>3 DEF IInv, Control
<1> QED BY <1>1, <1>2, <1>4 DEF IInv

(* Every step preserves it.                                                *)
LEMMA NextIInv ==
  ASSUME IInv, [Next]_vars
  PROVE  IInv'
<1>1. CASE Receive
  BY <1>1, ReceiveIsCall, ConsumeCallStep
<1>2. CASE ConsumeReturns
  BY <1>2 DEF IInv, TypeOK, Control, Placed, EndsAt, ConsumeReturns, state, ToUInt32
<1>3. CASE HeaderContiguous
  BY <1>3, HeaderContiguousStep
<1>4. CASE HeaderIncomplete
  BY <1>4, HeaderIncompleteStep
<1>5. CASE HeaderCompleted
  BY <1>5, HeaderCompletedStep
<1>6. CASE DispatchInPlace
  BY <1>6, DispatchInPlaceStep
<1>7. CASE Gather
  BY <1>7, GatherStep
<1>8. CASE SinkReturns
  BY <1>8, SinkReturnsStep
<1>9. CASE SinkThrows
  BY <1>9, SinkThrowsStep
<1>10. CASE Reset
  <2>1. /\ stream' = << >> /\ pos' = 0 /\ buffer' = << >> /\ frameSize' = 0 /\ header' = << >>
        /\ haveHeader' = FALSE /\ delivered' = << >> /\ pc' = "idle"
    BY <1>10 DEF Reset
  <2>2. Init'
    BY <2>1 DEF Init
  <2>3. Init' => IInv'
    BY InitIInv, PTL
  <2> QED BY <2>2, <2>3
<1>11. CASE UNCHANGED vars
  BY <1>11 DEF vars, IInv, TypeOK, Control, Placed, EndsAt, ToUInt32
<1> QED
  BY <1>1, <1>2, <1>3, <1>4, <1>5, <1>6, <1>7, <1>8, <1>9, <1>10, <1>11
  DEF Next, ConsumeStep

(* The invariant holds throughout.                                         *)
LEMMA Invariance == Spec => []IInv
<1>1. IInv /\ [Next]_vars => IInv'
  BY NextIInv
<1> QED BY InitIInv, <1>1, PTL DEF Spec

-----------------------------------------------------------------------------
(* Safety properties.                                                      *)

(* The fields keep their types whatever the stream, the chunks and the     *)
(* sink do; in particular Consume's pointer p stays inside the chunk and   *)
(* headerFill_ below the header's size.                                    *)
THEOREM TypeCorrect == Spec => []TypeOK
  BY Invariance, PTL DEF IInv

(* The reassembly buffer never exceeds maxFrameSize_ (the memory a peer    *)
(* can make the deframer hold), even when the sink throws.                 *)
THEOREM MemoryBound == Spec => []BoundedBuffer
<1>1. IInv => BoundedBuffer
  <2> SUFFICES ASSUME IInv PROVE BoundedBuffer
    OBVIOUS
  <2>1. Len(buffer) \in Nat /\ frameSize \in Nat /\ Len(<< >>) = 0
    BY LenProperties, EmptySeq DEF IInv, TypeOK
  <2>2. CASE haveHeader
    <3>1. Len(buffer) <= frameSize /\ frameSize <= maxFrameSize
      BY <2>2 DEF IInv, Control
    <3> QED BY <2>1, <2>2, <3>1, MaxFrameSizeAssumption DEF BoundedBuffer
  <2>3. CASE ~haveHeader
    <3>1. buffer = << >>
      BY <2>3 DEF IInv, Control
    <3> QED BY <2>1, <3>1, MaxFrameSizeAssumption DEF BoundedBuffer
  <2> QED BY <2>2, <2>3
<1> QED BY Invariance, <1>1, PTL

(* With a sink that returns, an idle deframer has nothing left to deliver. *)
LEMMA HeldBackNever ==
  ASSUME IInv, SinkMayThrow = FALSE
  PROVE  NoPacketHeldBack
<1> SUFFICES ASSUME pc = "idle", Abstract!FrameArrived
             PROVE  FALSE
  BY DEF NoPacketHeldBack
<1> USE DEF OSC_STREAM_FRAME_HEADER_SIZE, Abstract!OSC_STREAM_FRAME_HEADER_SIZE
<1>1. /\ pos = Len(stream) /\ pos \in Nat /\ Len(header) \in Nat /\ Len(header) < 4
      /\ Len(buffer) \in Nat /\ frameSize \in Nat
  BY LenProperties DEF IInv, TypeOK, Control
<1>2. cursor + 4 <= Len(stream) /\ cursor + 4 + Abstract!Size <= Len(stream)
  BY DEF Abstract!FrameArrived, Abstract!HeaderArrived
<1>3. CASE haveHeader
  <2>1. cursor = pos - Len(buffer) - 4
    BY <1>3 DEF cursor
  <2>2. Placed
    BY DEF IInv
  <2>3. Abstract!Size = frameSize
    BY <1>3, <2>1, <2>2 DEF Placed, Abstract!Size, Abstract!ToUInt32, ToUInt32
  <2>4. Len(buffer) < frameSize
    BY <1>3, <2>2 DEF Placed
  <2> QED BY <1>1, <1>2, <2>1, <2>3, <2>4
<1>4. CASE ~haveHeader
  <2>1. cursor = pos - Len(header)
    BY <1>4 DEF cursor
  <2> QED BY <1>1, <1>2, <2>1
<1> QED BY <1>3, <1>4

(* With a sink that returns, no complete packet waits for the next read    *)
(* once Consume has returned true.                                         *)
THEOREM Promptness ==
  ASSUME SinkMayThrow = FALSE
  PROVE  Spec => []NoPacketHeldBack
<1>1. IInv => NoPacketHeldBack
  BY HeldBackNever
<1> QED BY Invariance, <1>1, PTL

-----------------------------------------------------------------------------
(* The deframer implements PacketStream.                                   *)

(* A step that reads a complete header either goes on, which changes       *)
(* nothing in the abstract stream, or is the abstract failure.             *)
LEMMA HaveSizeRefines ==
  ASSUME IInv, pc = "loop", ~haveHeader,
         NEW q \in Nat, q = pos - Len(header), q + 4 <= Len(stream),
         ToUInt32(stream, q) \in Nat, HaveSize(ToUInt32(stream, q), q + 4)
  PROVE  [Abstract!Next]_Abstract!vars
<1> USE DEF OSC_STREAM_FRAME_HEADER_SIZE, Abstract!OSC_STREAM_FRAME_HEADER_SIZE
<1>1. stream' = stream /\ delivered' = delivered /\ header' = << >> /\ pos' = q + 4 /\ buffer' = buffer
  BY DEF HaveSize
<1>2. buffer = << >> /\ Len(<< >>) = 0
  BY EmptySeq DEF IInv, Control
<1>3. cursor = q
  BY DEF cursor
<1>4. Abstract!Size = ToUInt32(stream, q)
  BY <1>3 DEF Abstract!Size, Abstract!ToUInt32, ToUInt32
<1>5. CASE ToUInt32(stream, q) > maxFrameSize
  <2>1. pc' = "rejected" /\ haveHeader' = haveHeader
    BY <1>5 DEF HaveSize
  <2>2. cursor' = q
    <3>1. cursor' = pos' - 4
      BY <2>1 DEF cursor
    <3> QED BY <1>1, <3>1
  <2>3. Abstract!Fail
    BY <1>1, <1>3, <1>4, <1>5, <2>1, <2>2 DEF Abstract!Fail, Abstract!HeaderArrived
  <2> QED BY <2>3 DEF Abstract!Next
<1>6. CASE ~(ToUInt32(stream, q) > maxFrameSize)
  <2>1. pc' = "payload" /\ haveHeader' = TRUE
    BY <1>6 DEF HaveSize
  <2>2. cursor' = pos' - Len(buffer') - 4
    BY <2>1 DEF cursor
  <2>3. cursor' = q
    BY <1>1, <1>2, <2>2
  <2> QED BY <1>1, <1>3, <2>1, <2>3 DEF Abstract!vars
<1> QED BY <1>5, <1>6

(* A complete payload handed to the sink is the abstract delivery.         *)
LEMMA DeliverRefines ==
  ASSUME IInv, ~SinkMayThrow, haveHeader, pc \in {"loop", "payload"},
         stream' = stream, pc' \in {"sinkChunk", "sinkBuffer"},
         NEW q \in Nat, q = pos - Len(buffer) - 4, q + 4 + frameSize <= Len(stream),
         cursor' = q + 4 + frameSize,
         delivered' = Append(delivered, SubSeq(stream, q + 4 + 1, q + 4 + frameSize))
  PROVE  Abstract!Deliver
<1> USE DEF OSC_STREAM_FRAME_HEADER_SIZE, Abstract!OSC_STREAM_FRAME_HEADER_SIZE
<1>1. cursor = q
  BY DEF cursor
<1>2. Abstract!Size = frameSize /\ frameSize <= maxFrameSize /\ frameSize \in Nat
  BY <1>1 DEF IInv, TypeOK, Control, Placed, Abstract!Size, Abstract!ToUInt32, ToUInt32
<1>3. Len(stream) \in Nat
  BY LenProperties DEF IInv, TypeOK
<1>4. Abstract!FrameArrived
  BY <1>1, <1>2, <1>3 DEF Abstract!FrameArrived, Abstract!HeaderArrived
<1>5. pc # "rejected" /\ pc' # "rejected"
  OBVIOUS
<1> QED BY <1>1, <1>2, <1>4, <1>5 DEF Abstract!Deliver

(* Every step is a step of PacketStream or changes nothing there.          *)
LEMMA NextRefines ==
  ASSUME IInv, ~SinkMayThrow, [Next]_vars
  PROVE  [Abstract!Next]_Abstract!vars
<1> USE DEF OSC_STREAM_FRAME_HEADER_SIZE
<1>0. /\ stream \in Seq(Byte) /\ Len(stream) \in Nat /\ pos \in 0..Len(stream)
      /\ Len(buffer) \in Nat /\ Len(header) \in Nat /\ frameSize \in Nat
      /\ Len(<< >>) = 0 /\ Control /\ Placed
  BY LenProperties, EmptySeq DEF IInv, TypeOK
<1>1. CASE Receive
  <2>1. PICK chunk \in Seq(Byte) : Consume(chunk)
    BY <1>1, ReceiveIsCall
  <2>2. Len(stream) <= Len(stream') /\ \A i \in 1..Len(stream) : stream'[i] = stream[i]
    BY <1>0, <2>1, Growth DEF Consume
  <2>3. pc = "idle" /\ pc' = "loop" /\ delivered' = delivered /\ cursor' = cursor
    BY <2>1 DEF Consume, state, cursor
  <2>4. Abstract!Arrive
    BY <2>2, <2>3 DEF Abstract!Arrive
  <2> QED BY <2>4 DEF Abstract!Next
<1>2. CASE ConsumeReturns
  <2>1. pc = "loop" /\ pc' = "idle" /\ cursor' = cursor
    BY <1>2 DEF ConsumeReturns, state, cursor
  <2> QED BY <1>2, <2>1 DEF ConsumeReturns, Abstract!vars
<1>3. CASE HeaderContiguous
  <2>1. /\ pc = "loop" /\ ~haveHeader /\ header = << >>
        /\ pos + 4 <= Len(stream) /\ HaveSize(ToUInt32(stream, pos), pos + 4)
    BY <1>0, <1>3 DEF HeaderContiguous, LoopTest, Avail
  <2>2. ToUInt32(stream, pos) \in Nat
    BY <1>0, <2>1, SizeIsNat
  <2>3. pos \in Nat /\ pos = pos - Len(header)
    BY <1>0, <2>1
  <2> QED BY <2>1, <2>2, <2>3, HaveSizeRefines
<1>4. CASE HeaderIncomplete
  <2>1. /\ pc = "loop" /\ pc' = "idle" /\ ~haveHeader /\ haveHeader' = haveHeader
        /\ stream' = stream /\ delivered' = delivered /\ pos' = Len(stream)
    BY <1>4 DEF HeaderIncomplete, LoopTest
  <2>2. Len(header') = Len(header) + Len(stream) - pos
    BY <1>4, HeaderIncompleteStep
  <2>3. cursor = pos - Len(header) /\ cursor' = pos' - Len(header')
    BY <2>1 DEF cursor
  <2>4. cursor' = cursor
    BY <1>0, <2>1, <2>2, <2>3
  <2> QED BY <2>1, <2>4 DEF Abstract!vars
<1>5. CASE HeaderCompleted
  <2>1. pc = "loop" /\ ~haveHeader
    BY <1>5 DEF HeaderCompleted, LoopTest
  <2>2. /\ pos - Len(header) \in Nat /\ pos - Len(header) + 4 <= Len(stream)
        /\ HaveSize(ToUInt32(stream, pos - Len(header)), pos - Len(header) + 4)
    BY <1>5, HeaderCompletedStep
  <2>3. ToUInt32(stream, pos - Len(header)) \in Nat
    BY <1>0, <2>2, SizeIsNat
  <2> QED BY <2>1, <2>2, <2>3, HaveSizeRefines
<1>6. CASE DispatchInPlace
  <2>1. /\ haveHeader /\ pc \in {"loop", "payload"} /\ pc' = "sinkChunk" /\ stream' = stream
        /\ buffer = << >> /\ pos + frameSize <= Len(stream) /\ pos' = pos /\ frameSize' = frameSize
        /\ delivered' = Append(delivered, SubSeq(stream, pos + 1, pos + frameSize))
    BY <1>0, <1>6 DEF DispatchInPlace, Control, AtPayload, LoopTest, Avail, Emit, state
  <2>2. cursor' = pos + frameSize
    BY <2>1 DEF cursor
  <2> DEFINE q == pos - 4
  <2>3. q \in Nat /\ q = pos - Len(buffer) - 4 /\ q + 4 = pos
    BY <1>0, <2>1 DEF Placed
  <2> HIDE DEF q
  <2>4. Abstract!Deliver
    BY <2>1, <2>2, <2>3, DeliverRefines
  <2> QED BY <2>4 DEF Abstract!Next
<1>7. CASE Gather
  <2>1. /\ haveHeader /\ haveHeader' = haveHeader /\ frameSize' = frameSize /\ stream' = stream
        /\ pos' \in pos..Len(stream) /\ Len(buffer') = Len(buffer) + (pos' - pos)
        /\ pc \in {"loop", "payload"} /\ IInv'
    BY <1>7, GatherStep DEF Gather, AtPayload, LoopTest
  <2>2. \/ Len(buffer') = frameSize /\ pc' = "sinkBuffer" /\ delivered' = Append(delivered, buffer')
        \/ Len(buffer') # frameSize /\ pc' = "loop" /\ delivered' = delivered
    BY <1>7, GatherStep
  <2>3. CASE Len(buffer') = frameSize /\ pc' = "sinkBuffer" /\ delivered' = Append(delivered, buffer')
    <3> DEFINE q == pos - Len(buffer) - 4
    <3>1. q \in Nat /\ q + 4 = pos' - Len(buffer') /\ q + 4 + frameSize = pos' /\ pos' <= Len(stream)
      BY <1>0, <2>1, <2>3 DEF Placed
    <3>2. buffer' = SubSeq(stream, q + 4 + 1, q + 4 + frameSize)
      <4>1. buffer' \in Seq(Byte) /\ pos' \in 0..Len(stream) /\ EndsAt(buffer', stream, pos')
        BY <1>0, <2>1 DEF IInv, TypeOK, Placed
      <4>2. buffer' = SubSeq(stream, pos' - Len(buffer') + 1, pos')
        BY <1>0, <4>1, PieceIsSlice
      <4> QED BY <3>1, <4>2
    <3>3. cursor' = q + 4 + frameSize
      BY <2>3, <3>1 DEF cursor
    <3>4. delivered' = Append(delivered, SubSeq(stream, q + 4 + 1, q + 4 + frameSize))
      BY <2>3, <3>2
    <3> HIDE DEF q
    <3>5. q = pos - Len(buffer) - 4 /\ q + 4 + frameSize <= Len(stream)
      BY <3>1 DEF q
    <3>6. Abstract!Deliver
      BY <2>1, <2>3, <3>1, <3>3, <3>4, <3>5, DeliverRefines
    <3> QED BY <3>6 DEF Abstract!Next
  <2>4. CASE Len(buffer') # frameSize /\ pc' = "loop" /\ delivered' = delivered
    <3>1. cursor = pos - Len(buffer) - 4 /\ cursor' = pos' - Len(buffer') - 4
      BY <2>1, <2>4 DEF cursor
    <3>2. pos' - Len(buffer') = pos - Len(buffer)
      <4>1. pos \in Int /\ pos' \in Int /\ Len(buffer) \in Int
        BY <1>0, <2>1
      <4>2. Len(buffer') = Len(buffer) + (pos' - pos)
        BY <2>1
      <4> QED BY <4>1, <4>2
    <3>3. (pc = "rejected") = (pc' = "rejected")
      BY <2>1, <2>4
    <3> QED BY <2>1, <2>4, <3>1, <3>2, <3>3 DEF Abstract!vars
  <2> QED BY <2>2, <2>3, <2>4
<1>8. CASE SinkReturns
  <2>1. /\ pc \in {"sinkChunk", "sinkBuffer"} /\ pc' = "loop" /\ haveHeader' = FALSE
        /\ header = << >> /\ header' = header /\ stream' = stream /\ delivered' = delivered
    BY <1>0, <1>8 DEF SinkReturns, Control
  <2>2. cursor' = pos'
    <3>1. cursor' = pos' - Len(header') /\ Len(header') = 0
      BY <1>0, <2>1 DEF cursor
    <3>2. pos' \in Int
      BY <1>0, <1>8 DEF SinkReturns
    <3>3. \A x \in Int : x - 0 = x
      OBVIOUS
    <3> QED BY <3>1, <3>2, <3>3, Zenon
  <2>3. cursor = pos'
    BY <1>8 DEF SinkReturns, cursor
  <2> QED BY <2>1, <2>2, <2>3 DEF Abstract!vars
<1>9. CASE SinkThrows
  BY <1>9 DEF SinkThrows
<1>10. CASE Reset
  <2>1. stream' = << >> /\ delivered' = << >> /\ pc' = "idle" /\ cursor' = pos' - Len(header')
        /\ pos' = 0 /\ header' = << >>
    BY <1>10 DEF Reset, cursor
  <2>2. cursor' = 0
    <3>1. Len(header') = 0 /\ 0 - 0 = 0
      BY <1>0, <2>1
    <3> QED BY <2>1, <3>1, Zenon
  <2>3. (pc' = "rejected") = FALSE
    BY <2>1
  <2>4. Abstract!Restart
    BY <2>1, <2>2, <2>3 DEF Abstract!Restart
  <2> QED BY <2>4 DEF Abstract!Next
<1>11. CASE UNCHANGED vars
  BY <1>11 DEF vars, Abstract!vars, cursor
<1> QED
  BY <1>1, <1>2, <1>3, <1>4, <1>5, <1>6, <1>7, <1>8, <1>9, <1>10, <1>11
  DEF Next, ConsumeStep

(* Whatever the chunks, a deframer whose sink returns delivers every       *)
(* packet of the stream once, whole, in order, and nothing else, and stops *)
(* exactly at the first frame that is too large.                           *)
THEOREM Refinement ==
  ASSUME SinkMayThrow = FALSE
  PROVE  Spec => ImplementsPacketStream
<1>1. Init => Abstract!Init
  <2> SUFFICES ASSUME Init PROVE Abstract!Init
    OBVIOUS
  <2>1. cursor = 0
    <3>1. cursor = pos - Len(header) /\ pos = 0 /\ header = << >>
      BY DEF Init, cursor
    <3>2. Len(header) = 0 /\ 0 - 0 = 0
      BY <3>1, EmptySeq
    <3> QED BY <3>1, <3>2, Zenon
  <2> QED BY <2>1 DEF Init, Abstract!Init
<1>2. IInv /\ [Next]_vars => [Abstract!Next]_Abstract!vars
  BY NextRefines
<1> QED BY Invariance, <1>1, <1>2, PTL DEF Spec, ImplementsPacketStream, Abstract!Spec

-----------------------------------------------------------------------------
(* Lemmas about frames.                                                    *)

(* The header that is written reads back as the length.                    *)
LEMMA HeaderValue ==
  ASSUME NEW n \in UInt32
  PROVE  /\ WriteOscStreamFrameHeader(n) \in Seq(Byte)
         /\ Len(WriteOscStreamFrameHeader(n)) = 4
         /\ ToUInt32(WriteOscStreamFrameHeader(n), 0) = n
<1> DEFINE a == (n \div (256 * 256 * 256)) % 256
           b == (n \div (256 * 256)) % 256
           c == (n \div 256) % 256
           d == (n \div 1) % 256
<1>1. a \in Byte /\ b \in Byte /\ c \in Byte /\ d \in Byte
  BY DEF Byte, UInt32
<1>2. ((a * 256 + b) * 256 + c) * 256 + d = n
  BY DEF UInt32
<1>3. WriteOscStreamFrameHeader(n) = << a, b, c, d >>
  BY DEF WriteOscStreamFrameHeader, FromUInt32
<1> HIDE DEF a, b, c, d
<1>4. << a, b, c, d >> \in Seq(Byte) /\ Len(<< a, b, c, d >>) = 4
  BY <1>1
<1>5. ToUInt32(<< a, b, c, d >>, 0) = n
  BY <1>2 DEF ToUInt32
<1> QED BY <1>3, <1>4, <1>5

(* Text that is made of frames stays so when one more is written.          *)
LEMMA FrameAppended ==
  ASSUME NEW text \in Seq(Byte), NEW cuts \in Seq(Nat),
         NEW packets \in Seq(Seq(Byte)), NEW body \in Seq(Byte),
         Len(body) \in UInt32, Framed(text, cuts, packets, Len(packets))
  PROVE  LET frame == WriteOscStreamFrameHeader(Len(body)) \o body
             end   == Len(text) + OSC_STREAM_FRAME_HEADER_SIZE + Len(body)
         IN  /\ text \o frame \in Seq(Byte)
             /\ Append(cuts, end) \in Seq(Nat)
             /\ Framed(text \o frame, Append(cuts, end), Append(packets, body), Len(packets) + 1)
<1> USE DEF OSC_STREAM_FRAME_HEADER_SIZE
<1> DEFINE h == WriteOscStreamFrameHeader(Len(body))
           frame == h \o body
           end == Len(text) + 4 + Len(body)
           whole == text \o frame
           n == Len(packets)
<1>1. /\ Len(body) \in Nat /\ Len(text) \in Nat /\ n \in Nat /\ Len(cuts) = n + 1
      /\ \A k \in 1..(n + 1) : cuts[k] \in Nat
  BY LenProperties, ElementOfSeq DEF Framed
<1>2. /\ h \in Seq(Byte) /\ Len(h) = 4 /\ ToUInt32(h, 0) = Len(body)
  BY <1>1, HeaderValue
<1> HIDE DEF h
<1>3. /\ frame \in Seq(Byte) /\ Len(frame) = 4 + Len(body)
      /\ \A i \in 1..4 : frame[i] = h[i]
      /\ \A i \in 1..Len(body) : frame[4 + i] = body[i]
  <2>1. /\ frame \in Seq(Byte) /\ Len(frame) = Len(h) + Len(body)
        /\ \A i \in 1..(Len(h) + Len(body)) :
             frame[i] = IF i <= Len(h) THEN h[i] ELSE body[i - Len(h)]
    BY <1>2, ConcatProperties, Zenon
  <2> HIDE DEF frame
  <2>2. \A i \in 1..Len(body) : 4 + i \in 1..(4 + Len(body)) /\ ~(4 + i <= 4) /\ (4 + i) - 4 = i
    BY <1>1
  <2> QED BY <1>1, <1>2, <2>1, <2>2
<1> HIDE DEF frame
<1>4. /\ whole \in Seq(Byte) /\ Len(whole) = Len(text) + 4 + Len(body)
      /\ \A i \in 1..Len(text) : whole[i] = text[i]
      /\ \A i \in 1..(4 + Len(body)) : whole[Len(text) + i] = frame[i]
  <2>1. /\ whole \in Seq(Byte) /\ Len(whole) = Len(text) + Len(frame)
        /\ \A i \in 1..(Len(text) + Len(frame)) :
             whole[i] = IF i <= Len(text) THEN text[i] ELSE frame[i - Len(text)]
    <3>1. frame \in Seq(Byte)
      BY <1>3
    <3> QED BY <3>1, ConcatProperties, Zenon
  <2> HIDE DEF whole
  <2>2. \A i \in 1..(4 + Len(body)) :
          /\ Len(text) + i \in 1..(Len(text) + (4 + Len(body))) /\ ~(Len(text) + i <= Len(text))
          /\ (Len(text) + i) - Len(text) = i
    BY <1>1
  <2>3. \A i \in 1..Len(text) : i \in 1..(Len(text) + (4 + Len(body))) /\ i <= Len(text)
    BY <1>1
  <2>4. Len(frame) = 4 + Len(body) /\ Len(text) + (4 + Len(body)) = Len(text) + 4 + Len(body)
    BY <1>1, <1>3
  <2>5. \A i \in 1..(Len(text) + (4 + Len(body))) :
           whole[i] = IF i <= Len(text) THEN text[i] ELSE frame[i - Len(text)]
    BY <2>1, <2>4
  <2>6. \A i \in 1..(4 + Len(body)) : whole[Len(text) + i] = frame[i]
    BY <2>2, <2>5
  <2> QED BY <2>1, <2>3, <2>4, <2>5, <2>6
<1>5. \A p \in Nat : p + 4 <= Len(text) => ToUInt32(whole, p) = ToUInt32(text, p)
  BY <1>3, Growth
<1> HIDE DEF whole
<1>6. /\ Append(cuts, end) \in Seq(Nat) /\ Len(Append(cuts, end)) = n + 2
      /\ \A k \in 1..(n + 1) : Append(cuts, end)[k] = cuts[k]
      /\ Append(cuts, end)[n + 2] = end
  BY <1>1
<1>7. /\ Len(Append(packets, body)) = n + 1
      /\ \A k \in 1..n : Append(packets, body)[k] = packets[k]
      /\ Append(packets, body)[n + 1] = body
  BY <1>1
<1> DEFINE cuts2 == Append(cuts, end)
           packets2 == Append(packets, body)
<1>8. /\ cuts[1] = 0 /\ cuts[n + 1] = Len(text)
      /\ \A k \in 1..n :
           /\ cuts[k + 1] = cuts[k] + 4 + Len(packets[k]) /\ cuts[k + 1] <= Len(text)
           /\ ToUInt32(text, cuts[k]) = Len(packets[k])
           /\ \A i \in 1..Len(packets[k]) : text[cuts[k] + 4 + i] = packets[k][i]
  BY DEF Framed
<1>9. \A k \in 1..n : packets[k] \in Seq(Byte) /\ Len(packets[k]) \in Nat
  BY ElementOfSeq, LenProperties
<1> HIDE DEF cuts2, packets2, end, n
<1>10. ASSUME NEW k \in 1..n
       PROVE  /\ cuts2[k + 1] = cuts2[k] + 4 + Len(packets2[k])
              /\ cuts2[k + 1] <= Len(whole)
              /\ ToUInt32(whole, cuts2[k]) = Len(packets2[k])
              /\ \A i \in 1..Len(packets2[k]) : whole[cuts2[k] + 4 + i] = packets2[k][i]
  <2>1. cuts2[k] = cuts[k] /\ cuts2[k + 1] = cuts[k + 1] /\ packets2[k] = packets[k]
    <3>1. k \in 1..(n + 1) /\ k + 1 \in 1..(n + 1)
      BY <1>1
    <3>2. cuts2[k] = cuts[k] /\ cuts2[k + 1] = cuts[k + 1]
      BY <1>6, <3>1 DEF cuts2
    <3>3. packets2[k] = packets[k]
      BY <1>7 DEF packets2
    <3> QED BY <3>2, <3>3
  <2>2. cuts[k] \in Nat /\ Len(packets[k]) \in Nat /\ cuts[k] + 4 + Len(packets[k]) <= Len(text)
    <3>1. k \in 1..(n + 1)
      BY <1>1
    <3>2. cuts[k] \in Nat /\ Len(packets[k]) \in Nat
      BY <1>1, <1>9, <3>1
    <3>3. cuts[k + 1] = cuts[k] + 4 + Len(packets[k]) /\ cuts[k + 1] <= Len(text)
      BY <1>8
    <3> QED BY <3>2, <3>3
  <2>3. ToUInt32(whole, cuts[k]) = Len(packets[k])
    <3>1. \A x, y, z \in Nat : x + 4 + y <= z => x + 4 <= z
      OBVIOUS
    <3>2. Len(text) \in Nat
      BY <1>1
    <3>3. cuts[k] + 4 <= Len(text)
      BY ONLY <2>2, <3>1, <3>2
    <3> QED BY <1>5, <1>8, <2>2, <3>3
  <2>4. ASSUME NEW i \in 1..Len(packets[k]) PROVE whole[cuts[k] + 4 + i] = packets[k][i]
    <3>0. i \in Nat /\ 1 <= i /\ i <= Len(packets[k])
      BY <2>2
    <3>1. \A x, y, z, j \in Nat : 1 <= j /\ j <= y /\ x + 4 + y <= z => x + 4 + j \in 1..z
      OBVIOUS
    <3>2. Len(text) \in Nat
      BY <1>1
    <3>3. cuts[k] + 4 + i \in 1..Len(text)
      BY <2>2, <3>0, <3>1, <3>2
    <3> QED BY <1>4, <1>8, <3>3
  <2> QED BY <1>1, <1>4, <1>8, <2>1, <2>2, <2>3, <2>4
<1>11. /\ cuts2[n + 2] = cuts2[n + 1] + 4 + Len(packets2[n + 1])
       /\ cuts2[n + 2] <= Len(whole)
       /\ ToUInt32(whole, cuts2[n + 1]) = Len(packets2[n + 1])
       /\ \A i \in 1..Len(packets2[n + 1]) : whole[cuts2[n + 1] + 4 + i] = packets2[n + 1][i]
  <2>1. cuts2[n + 1] = Len(text) /\ cuts2[n + 2] = end /\ packets2[n + 1] = body
    BY <1>1, <1>6, <1>7, <1>8 DEF cuts2, packets2
  <2>2. ToUInt32(whole, Len(text)) = ToUInt32(h, 0)
    <3>1. PICK l \in Nat : l = Len(text)
      BY <1>1
    <3>2. \A i \in 1..4 : i \in 1..(4 + Len(body))
      BY <1>1
    <3>3. \A i \in 1..4 : whole[l + i] = h[i]
      BY <1>3, <1>4, <3>1, <3>2
    <3>4. whole[l + 1] = h[1] /\ whole[l + 2] = h[2] /\ whole[l + 3] = h[3] /\ whole[l + 4] = h[4]
      BY <3>3
    <3>5. 0 + 1 = 1 /\ 0 + 2 = 2 /\ 0 + 3 = 3 /\ 0 + 4 = 4
      OBVIOUS
    <3>6. ToUInt32(whole, l) = ToUInt32(h, 0)
      BY <3>4, <3>5 DEF ToUInt32
    <3> QED BY <3>1, <3>6
  <2>3. ASSUME NEW i \in 1..Len(body) PROVE whole[Len(text) + 4 + i] = body[i]
    <3>1. 4 + i \in 1..(4 + Len(body)) /\ Len(text) + (4 + i) = Len(text) + 4 + i
      BY <1>1
    <3> QED BY <1>3, <1>4, <3>1
  <2> QED BY <1>1, <1>2, <1>4, <2>1, <2>2, <2>3 DEF end
<1>12. Framed(whole, cuts2, packets2, n + 1)
  <2>1. Len(cuts2) = Len(packets2) + 1 /\ Len(packets2) = n + 1 /\ n \in Nat
    BY <1>1, <1>6, <1>7 DEF cuts2, packets2
  <2>2. cuts2[1] = 0 /\ cuts2[(n + 1) + 1] = Len(whole)
    BY <1>1, <1>4, <1>6, <1>8 DEF cuts2, end
  <2>3. \A k \in 1..(n + 1) : k \in 1..n \/ k = n + 1
    BY <2>1
  <2>4. (n + 1) + 1 = n + 2
    BY <2>1
  <2>5. \A k \in 1..(n + 1) :
          /\ cuts2[k + 1] = cuts2[k] + 4 + Len(packets2[k])
          /\ cuts2[k + 1] <= Len(whole)
          /\ ToUInt32(whole, cuts2[k]) = Len(packets2[k])
          /\ \A i \in 1..Len(packets2[k]) : whole[cuts2[k] + 4 + i] = packets2[k][i]
    BY <1>10, <1>11, <2>3, <2>4
  <2>6. \A j, k \in 1..((n + 1) + 1) : j <= k => cuts2[j] <= cuts2[k]
    <3>1. /\ \A k \in 1..(n + 1) : cuts2[k] = cuts[k] /\ cuts[k] \in Nat
          /\ cuts2[n + 2] = end /\ end \in Nat
      BY <1>1, <1>6 DEF cuts2, end
    <3>2. \A j, k \in 1..(n + 1) : j <= k => cuts[j] <= cuts[k]
      BY DEF Framed, n
    <3>3. Len(text) <= end
      BY <1>1 DEF end
    <3>4. \A k \in 1..(n + 1) : cuts[k] <= Len(text)
      <4>1. \A k \in 1..(n + 1) : k <= n + 1 /\ n + 1 \in 1..(n + 1)
        BY <2>1
      <4> QED BY <1>8, <3>2, <4>1
    <3> SUFFICES ASSUME NEW j \in 1..(n + 2), NEW k \in 1..(n + 2), j <= k
                 PROVE  cuts2[j] <= cuts2[k]
      BY <2>4
    <3>5. CASE k \in 1..(n + 1)
      <4>1. j \in 1..(n + 1)
        BY <2>1, <3>5
      <4> QED BY <3>1, <3>2, <3>5, <4>1
    <3>6. CASE k = n + 2 /\ j \in 1..(n + 1)
      BY <1>1, <3>1, <3>3, <3>4, <3>6
    <3>7. CASE k = n + 2 /\ j = n + 2
      BY <3>1, <3>7
    <3>8. \A i \in 1..(n + 2) : i \in 1..(n + 1) \/ i = n + 2
      BY <2>1
    <3> QED BY <3>5, <3>6, <3>7, <3>8
  <2>7. Len(cuts2) = (n + 1) + 1
    BY <2>1
  <2> QED BY <2>2, <2>5, <2>6, <2>7 DEF Framed
<1> QED BY <1>4, <1>6, <1>12 DEF whole, cuts2, packets2, end, frame, h, n

-----------------------------------------------------------------------------
(* The inductive invariant.                                                *)

(* Where the frame in progress starts has been received.                   *)
LEMMA CursorReceived ==
  ASSUME IInv
  PROVE  cursor \in Int /\ cursor <= Len(stream) /\ (SinkMayThrow = FALSE => cursor \in Nat)
<1> USE DEF OSC_STREAM_FRAME_HEADER_SIZE
<1>1. /\ pos \in Nat /\ Len(stream) \in Nat /\ pos <= Len(stream) /\ frameSize \in Nat
      /\ Len(buffer) \in Nat /\ Len(header) \in Nat
      /\ pc = "sinkChunk" => pos + frameSize <= Len(stream)
  <2>1. Len(stream) \in Nat /\ Len(buffer) \in Nat /\ Len(header) \in Nat
    BY LenProperties DEF IInv, TypeOK
  <2>2. pos \in 0..Len(stream) /\ frameSize \in Nat
    BY DEF IInv, TypeOK
  <2>3. pc = "sinkChunk" => pos + frameSize <= Len(stream)
    BY DEF IInv, Control
  <2> QED BY <2>1, <2>2, <2>3
<1>2. PICK b \in Nat, h \in Nat : b = Len(buffer) /\ h = Len(header)
  BY <1>1
<1>3. SinkMayThrow = FALSE =>
        /\ Len(header) <= pos
        /\ haveHeader => Len(buffer) + 4 <= pos
        /\ pc = "rejected" => 4 <= pos
  BY DEF IInv, Control, Placed, EndsAt
<1> QED BY <1>1, <1>2, <1>3 DEF cursor

(* A connection on which nothing has happened.                             *)
Fresh ==
  /\ Init
  /\ link \in {"none", "up"}
  /\ wire = << >> /\ sendPc = "idle" /\ packet \in Seq(Byte) /\ unsent \in Seq(Byte)
  /\ sent = << >> /\ torn = 0

LEMMA FreshIInv == Fresh => TcpIInv
<1> SUFFICES ASSUME Fresh PROVE TcpIInv
  OBVIOUS
<1>1. IInv
  BY InitIInv DEF Fresh
<1>2. << >> \in Seq(Byte) /\ << >> \in Seq(Seq(Byte)) /\ Len(<< >>) = 0 /\ 0 \in 0..0
  BY EmptySeq
<1>3. ConnectionTypeOK
  BY <1>2 DEF Fresh, ConnectionTypeOK
<1>4. stream = << >> /\ delivered = << >>
  BY DEF Fresh, Init
<1>5. StartsWith(wire, stream)
  BY <1>2, <1>4 DEF StartsWith, Fresh
<1>6. Intact = 0 /\ Kept = 0 /\ Len(delivered) = 0
  BY <1>2, <1>4 DEF Intact, Kept, Fresh
<1>7. DeliveredInOrder
  BY <1>6 DEF DeliveredInOrder
<1>8. CallOK
  BY DEF CallOK, Fresh, Untouched
<1>9. cursor = 0
  <2>1. cursor = pos - Len(header) /\ pos = 0 /\ Len(header) = 0
    BY <1>2 DEF Fresh, Init, cursor
  <2>2. 0 - 0 = 0
    OBVIOUS
  <2> QED BY <2>1, <2>2, Zenon
<1>10. << 0 >> \in Seq(Nat) /\ Len(<< 0 >>) = 1 /\ << 0 >>[1] = 0
  OBVIOUS
<1>11. Framed(<< >>, << 0 >>, sent, 0)
  <2>1. 0 + 1 = 1 /\ (\A k \in 1..0 : FALSE) /\ (\A j \in 1..1 : j = 1) /\ 0 <= 0
    OBVIOUS
  <2> QED BY <1>2, <1>10, <2>1, Zenon DEF Framed
<1>12. << >> = wire \o Pending
  BY <1>2, ConcatEmptySeq DEF Fresh, Pending
<1>13. Conversation(<< >>, << 0 >>)
  BY <1>6, <1>11, <1>12 DEF Conversation, Fresh
<1>14. Placement(<< 0 >>)
  BY <1>6, <1>9, <1>10 DEF Placement
<1> QED BY <1>1, <1>2, <1>3, <1>5, <1>7, <1>8, <1>10, <1>13, <1>14 DEF TcpIInv

(* A step that leaves the receiver alone leaves it where it was.           *)
LEMMA ReceiverStays ==
  ASSUME TcpIInv, UNCHANGED receiver
  PROVE  /\ IInv' /\ cursor' = cursor
         /\ stream' = stream /\ delivered' = delivered
<1>1. UNCHANGED vars
  BY DEF receiver
<1>2. IInv'
  BY <1>1, NextIInv DEF TcpIInv
<1> QED BY <1>1, <1>2 DEF vars, cursor

(* A step that changes neither the frames, the wire nor the receiver.      *)
LEMMA ConversationStays ==
  ASSUME TcpIInv, IInv', ConnectionTypeOK', CallOK',
         cursor' = cursor, stream' = stream, delivered' = delivered,
         wire' = wire, sent' = sent, torn' = torn, torn = 0 => Pending' = Pending
  PROVE  TcpIInv'
<1>1. Intact' = Intact /\ Kept' = Kept /\ Retried' = Retried
  BY DEF Intact, Kept, Retried
<1>2. StartsWith(wire, stream)' /\ DeliveredInOrder'
  BY <1>1 DEF TcpIInv, StartsWith, DeliveredInOrder
<1>3. PICK text \in Seq(Byte), cuts \in Seq(Nat) : Conversation(text, cuts) /\ Placement(cuts)
  BY DEF TcpIInv
<1>4. Conversation(text, cuts)'
  <2>1. Framed(text, cuts, sent, Kept)'
    BY <1>1, <1>3 DEF Conversation, Framed, ToUInt32
  <2>2. (torn = 0 => text = wire \o Pending)'
    BY <1>3 DEF Conversation
  <2>3. (torn # 0 => /\ cuts[torn] <= Len(wire)
                     /\ \A i \in 1..cuts[torn] : wire[i] = text[i]
                     /\ ~Retried => StartsWith(text, wire) /\ Len(wire) < Len(text))'
    BY <1>1, <1>3 DEF Conversation, StartsWith
  <2> QED BY <2>1, <2>2, <2>3 DEF Conversation
<1>5. Placement(cuts)'
  BY <1>1, <1>3 DEF Placement
<1> QED BY <1>2, <1>3, <1>4, <1>5 DEF TcpIInv

(* The connection is closed, refused or lost.                              *)
LEMMA LinkStep ==
  ASSUME TcpIInv, Close \/ Refuse \/ ConnectionLost \/ UNCHANGED tcpVars
  PROVE  TcpIInv'
<1>1. /\ UNCHANGED receiver /\ wire' = wire /\ sendPc' = sendPc /\ packet' = packet
      /\ unsent' = unsent /\ sent' = sent /\ torn' = torn
      /\ link' \in {"closed", "lost", link}
  BY DEF Close, Refuse, ConnectionLost, sender, tcpVars, receiver, vars
<1>2. Untouched' = Untouched
  BY <1>1 DEF Untouched
<1>3. Pending' = Pending
  BY <1>1, <1>2 DEF Pending
<1>4. ConnectionTypeOK'
  BY <1>1 DEF TcpIInv, ConnectionTypeOK
<1>5. CallOK'
  BY <1>1, <1>2 DEF TcpIInv, CallOK
<1> QED BY <1>1, <1>3, <1>4, <1>5, ReceiverStays, ConversationStays

(* A new connection.                                                       *)
LEMMA ConnectStep ==
  ASSUME TcpIInv, Connect
  PROVE  TcpIInv'
<1>1. Fresh'
  BY DEF Connect, Fresh, Init, TcpIInv, ConnectionTypeOK
<1>2. Fresh' => TcpIInv'
  BY FreshIInv, PTL
<1> QED BY <1>1, <1>2

(* A call of Send has given the kernel nothing yet.                        *)
LEMMA SendStep ==
  ASSUME TcpIInv, Send, \A p \in Packets : Len(p) \in UInt32
  PROVE  TcpIInv'
<1>1. /\ packet' \in Packets /\ unsent' = WriteOscStreamFrameHeader(Len(packet'))
      /\ sendPc = "idle" /\ sendPc' = "header" /\ link' = link /\ wire' = wire
      /\ sent' = sent /\ torn' = torn /\ UNCHANGED receiver
  BY DEF Send
<1>2. packet' \in Seq(Byte) /\ Len(packet') \in UInt32
  BY <1>1, PacketsAssumption
<1>3. unsent' \in Seq(Byte) /\ Len(unsent') = OSC_STREAM_FRAME_HEADER_SIZE
  BY <1>1, <1>2, HeaderValue DEF OSC_STREAM_FRAME_HEADER_SIZE
<1>4. Untouched'
  BY <1>1, <1>3 DEF Untouched
<1>5. Pending' = Pending
  BY <1>1, <1>4 DEF Pending
<1>6. ConnectionTypeOK'
  BY <1>1, <1>2, <1>3 DEF TcpIInv, ConnectionTypeOK
<1>7. CallOK'
  BY <1>1, <1>2, <1>3, <1>4 DEF CallOK, OSC_STREAM_FRAME_HEADER_SIZE
<1> QED BY <1>1, <1>5, <1>6, <1>7, ReceiverStays, ConversationStays

(* The steps of Send that give the kernel nothing.                         *)
LEMMA SendControlStep ==
  ASSUME TcpIInv, HeaderWritten \/ SendReturns
  PROVE  TcpIInv'
<1>1. /\ UNCHANGED receiver /\ wire' = wire /\ link' = link /\ sent' = sent /\ torn' = torn
      /\ sendPc # "idle" /\ unsent = << >>
  BY DEF HeaderWritten, SendReturns
<1>2. /\ packet \in Seq(Byte) /\ Len(packet) \in Nat /\ << >> \in Seq(Byte) /\ Len(<< >>) = 0
      /\ ~Untouched
  BY <1>1, EmptySeq, LenProperties
  DEF TcpIInv, ConnectionTypeOK, Untouched, OSC_STREAM_FRAME_HEADER_SIZE
<1>3. CASE HeaderWritten
  <2>1. /\ sendPc = "header" /\ sendPc' = "payload" /\ unsent' = packet /\ packet' = packet
        /\ ~Untouched'
    BY <1>3 DEF HeaderWritten, Untouched
  <2>2. Pending = << >> \o packet /\ Pending' = packet
    BY <1>1, <1>2, <2>1 DEF Pending
  <2>3. Pending' = Pending
    BY <1>2, <2>2, ConcatEmptySeq
  <2>4. ConnectionTypeOK'
    BY <1>1, <1>2, <2>1 DEF TcpIInv, ConnectionTypeOK
  <2>5. CallOK'
    BY <1>1, <1>2, <2>1 DEF TcpIInv, CallOK
  <2> QED BY <1>1, <2>3, <2>4, <2>5, ReceiverStays, ConversationStays
<1>4. CASE SendReturns
  <2>1. /\ sendPc = "payload" /\ sendPc' = "idle" /\ unsent' = << >> /\ packet' = << >>
    BY <1>1, <1>4 DEF SendReturns
  <2>2. Pending' = Pending
    BY <1>1, <1>2, <2>1 DEF Pending
  <2>3. ConnectionTypeOK'
    BY <1>1, <1>2, <2>1 DEF TcpIInv, ConnectionTypeOK
  <2>4. CallOK'
    BY <2>1 DEF CallOK
  <2> QED BY <1>1, <2>2, <2>3, <2>4, ReceiverStays, ConversationStays
<1> QED BY <1>3, <1>4

(* Moving bytes from Send to the wire changes nothing of their order.      *)
LEMMA Associative == \A s, t, u \in Seq(Byte) : (s \o t) \o u = s \o (t \o u)
  BY ConcatAssociative

(* The kernel takes bytes of a frame from Send.                            *)
LEMMA SendPieceStep ==
  ASSUME TcpIInv, SendPiece
  PROVE  TcpIInv'
<1> USE DEF OSC_STREAM_FRAME_HEADER_SIZE
<1>1. PICK r \in 1..Len(unsent) :
        /\ wire' = wire \o SubSeq(unsent, 1, r)
        /\ unsent' = SubSeq(unsent, r + 1, Len(unsent))
  BY DEF SendPiece
<1>2. /\ sendPc' = sendPc /\ link' = link /\ packet' = packet /\ torn' = torn
      /\ sent' = Begun /\ sendPc \in {"header", "payload"} /\ UNCHANGED receiver
  BY DEF SendPiece, InSendAll
<1>3. IInv' /\ cursor' = cursor /\ stream' = stream /\ delivered' = delivered
  BY <1>2, ReceiverStays
<1>4. /\ unsent \in Seq(Byte) /\ Len(unsent) \in Nat /\ wire \in Seq(Byte) /\ stream \in Seq(Byte)
      /\ Len(wire) \in Nat /\ Len(stream) \in Nat /\ r \in Nat /\ 1 <= r /\ r <= Len(unsent)
      /\ packet \in Seq(Byte) /\ Len(packet) \in Nat
      /\ sent \in Seq(Seq(Byte)) /\ Len(sent) \in Nat /\ torn \in 0..Len(sent)
      /\ delivered \in Seq(Seq(Byte)) /\ Len(delivered) \in Nat
  BY LenProperties DEF TcpIInv, ConnectionTypeOK, IInv, TypeOK
<1> DEFINE head == SubSeq(unsent, 1, r)
<1>5. /\ head \in Seq(Byte) /\ unsent' \in Seq(Byte) /\ head \o unsent' = unsent
      /\ Len(unsent') = Len(unsent) - r
  <2>1. 0 \in 0..Len(unsent) /\ r \in 0..Len(unsent) /\ Len(unsent) \in r..Len(unsent) /\ 0 + 1 = 1
    BY <1>4
  <2>2. SubSeq(unsent, 0 + 1, r) \in Seq(Byte)
    BY <1>4, <2>1, SliceProperties
  <2>3. /\ SubSeq(unsent, r + 1, Len(unsent)) \in Seq(Byte)
        /\ Len(SubSeq(unsent, r + 1, Len(unsent))) = Len(unsent) - r
    BY <1>4, <2>1, SliceProperties
  <2>4. SubSeq(unsent, 1, r) \o SubSeq(unsent, r + 1, Len(unsent)) = SubSeq(unsent, 1, Len(unsent))
    <3>1. 1 \in 1..Len(unsent) + 1 /\ r \in (1 - 1)..Len(unsent)
      BY <1>4
    <3> QED BY <1>4, <2>1, <3>1, ConcatAdjacentSubSeq
  <2>5. SubSeq(unsent, 1, Len(unsent)) = unsent
    BY <1>4, SubSeqFull
  <2> QED BY <1>1, <2>1, <2>2, <2>3, <2>4, <2>5
<1>6. wire' = wire \o head
  BY <1>1
<1> HIDE DEF head
<1>7. /\ wire' \in Seq(Byte) /\ Len(wire') \in Nat /\ Len(wire) <= Len(wire')
      /\ \A i \in 1..Len(wire) : wire'[i] = wire[i]
  BY <1>4, <1>5, <1>6, Growth, LenProperties
<1>8. /\ sent' \in Seq(Seq(Byte)) /\ Len(sent') \in Nat
      /\ Len(sent') = IF Untouched THEN Len(sent) + 1 ELSE Len(sent)
      /\ \A k \in 1..Len(sent) : sent'[k] = sent[k]
      /\ Len(sent') > torn /\ sent'[Len(sent')] = packet
  <2>1. CASE Untouched
    <3>1. sent' = Append(sent, packet)
      BY <1>2, <2>1 DEF Begun
    <3> QED BY <1>4, <2>1, <3>1
  <2>2. CASE ~Untouched
    <3>1. sent' = sent
      BY <1>2, <2>2 DEF Begun
    <3> QED BY <1>2, <1>4, <2>2, <3>1 DEF TcpIInv, CallOK
  <2> QED BY <2>1, <2>2
<1>9. ConnectionTypeOK'
  <2>1. torn' \in 0..Len(sent')
    BY <1>2, <1>4, <1>8
  <2> QED BY <1>2, <1>4, <1>5, <1>7, <1>8, <2>1 DEF TcpIInv, ConnectionTypeOK
<1>10. ~Untouched'
  <2>1. sendPc = "header" => Len(unsent) <= 4
    BY DEF TcpIInv, CallOK
  <2> QED BY <1>2, <1>4, <1>5, <2>1 DEF Untouched
<1>11. CallOK'
  <2>1. sendPc = "header" => Len(packet) \in UInt32 /\ Len(unsent) <= 4
    BY DEF TcpIInv, CallOK
  <2>2. sendPc = "payload" => Len(unsent) <= Len(packet)
    BY DEF TcpIInv, CallOK
  <2> QED BY <1>2, <1>4, <1>5, <1>8, <1>10, <2>1, <2>2 DEF CallOK
<1>12. StartsWith(wire', stream')
  <2>1. Len(stream) <= Len(wire) /\ \A i \in 1..Len(stream) : stream[i] = wire[i]
    BY DEF TcpIInv, StartsWith
  <2>2. \A i \in 1..Len(stream) : i \in 1..Len(wire)
    BY <1>4, <2>1
  <2>3. \A i \in 1..Len(stream) : stream[i] = wire'[i]
    BY <1>7, <2>1, <2>2
  <2>4. Len(stream) <= Len(wire')
    BY <1>4, <1>7, <2>1
  <2> QED BY <1>3, <2>3, <2>4 DEF StartsWith
<1>13. Len(delivered) > Intact => torn # 0 /\ Retried' /\ Intact' = Intact
  <2>1. Len(delivered) > Intact => Retried
    BY DEF TcpIInv, DeliveredInOrder
  <2> QED BY <1>2, <1>4, <1>8, <2>1 DEF Retried, Intact
<1>14. Intact \in Nat /\ Intact <= Len(sent) /\ (torn = 0 => Intact = Len(sent))
  BY <1>4 DEF Intact
<1>15. DeliveredInOrder'
  <2>1. \A k \in 1..Len(delivered) : k <= Intact => delivered[k] = sent[k]
    BY DEF TcpIInv, DeliveredInOrder
  <2>2. CASE Len(delivered) > Intact
    <3>1. \A k \in 1..Len(delivered) : k <= Intact => k \in 1..Len(sent)
      BY <1>4, <1>14
    <3> QED BY <1>3, <1>8, <1>13, <2>1, <2>2, <3>1 DEF DeliveredInOrder
  <2>3. CASE ~(Len(delivered) > Intact)
    <3>1. \A k \in 1..Len(delivered) : k <= Intact /\ k \in 1..Len(sent)
      BY <1>4, <1>14, <2>3
    <3>2. Len(delivered) <= Intact'
      <4>1. Intact' = IF torn = 0 THEN Len(sent') ELSE torn - 1
        BY <1>2 DEF Intact
      <4>2. Intact = IF torn = 0 THEN Len(sent) ELSE torn - 1
        BY DEF Intact
      <4>3. Len(sent) <= Len(sent') /\ Len(sent) \in Nat /\ Len(sent') \in Nat
        BY <1>4, <1>8
      <4> QED BY <1>4, <2>3, <4>1, <4>2, <4>3
    <3>3. ~(Len(delivered) > Intact')
      <4>1. Intact' \in Int
        BY <1>2, <1>4, <1>8 DEF Intact
      <4> QED BY <1>4, <3>2, <4>1
    <3> QED BY <1>3, <1>8, <2>1, <3>1, <3>3 DEF DeliveredInOrder
  <2> QED BY <2>2, <2>3
<1>16. PICK text \in Seq(Byte), cuts \in Seq(Nat) : Conversation(text, cuts) /\ Placement(cuts)
  BY DEF TcpIInv
<1>17. Framed(text, cuts, sent, Kept)
  BY <1>16 DEF Conversation
<1>18. wire' \o (unsent' \o packet) = wire \o (unsent \o packet) /\ wire' \o unsent' = wire \o unsent
  <2>1. wire \in Seq(Byte) /\ head \in Seq(Byte) /\ unsent' \in Seq(Byte) /\ packet \in Seq(Byte)
    BY <1>4, <1>5
  <2>2. unsent' \o packet \in Seq(Byte)
    BY <2>1, ConcatProperties, Zenon
  <2>3. (wire \o head) \o (unsent' \o packet) = wire \o (head \o (unsent' \o packet))
    <3>1. wire \in Seq(Byte) /\ head \in Seq(Byte)
      BY <2>1
    <3> QED BY ONLY <2>2, <3>1, Associative, Zenon
  <2>4. head \o (unsent' \o packet) = (head \o unsent') \o packet
    BY ONLY <2>1, Associative, Zenon
  <2>5. (wire \o head) \o unsent' = wire \o (head \o unsent')
    BY ONLY <2>1, Associative, Zenon
  <2> QED BY ONLY <1>5, <1>6, <2>3, <2>4, <2>5
<1>19. CASE torn = 0 /\ Untouched
  <2>1. sent' = Append(sent, packet) /\ Kept = Len(sent) /\ Kept' = Len(sent) + 1
    BY <1>2, <1>4, <1>8, <1>19 DEF Begun, Kept
  <2>2. Len(packet) \in UInt32 /\ unsent = WriteOscStreamFrameHeader(Len(packet)) /\ sendPc = "header"
    BY <1>19 DEF TcpIInv, CallOK, Untouched
  <2>3. PICK text2 \in Seq(Byte), cuts2 \in Seq(Nat) :
          /\ text2 = text \o (unsent \o packet)
          /\ cuts2 = Append(cuts, Len(text) + OSC_STREAM_FRAME_HEADER_SIZE + Len(packet))
          /\ Framed(text2, cuts2, Append(sent, packet), Len(sent) + 1)
    BY <1>4, <1>17, <2>1, <2>2, FrameAppended
  <2>4. text = wire
    <3>1. text = wire \o << >>
      BY <1>16, <1>19 DEF Conversation, Pending
    <3> QED BY <1>4, <3>1, ConcatEmptySeq, Zenon
  <2>5. Pending' = unsent' \o packet
    BY <1>2, <1>10, <2>2 DEF Pending
  <2>6. text2 = wire' \o Pending'
    BY <1>18, <2>3, <2>4, <2>5
  <2>7. Conversation(text2, cuts2)'
    <3>1. Framed(text2, cuts2, sent', Kept')
      BY <2>1, <2>3
    <3>4. Framed(text2, cuts2, sent, Kept)'
      BY ONLY <3>1 DEF Framed, ToUInt32
    <3>2. (torn = 0 => text2 = wire \o Pending)'
      BY <2>6
    <3>3. ~(torn' # 0)
      BY <1>2, <1>19
    <3> QED BY <3>4, <3>2, <3>3 DEF Conversation
  <2>8. Placement(cuts2)'
    <3>1. Len(cuts) = Len(sent) + 1
      BY <1>17, <2>1 DEF Framed
    <3>2. Len(delivered) <= Intact
      <4>1. Intact \in Int /\ Len(delivered) \in Int
        BY <1>4, <1>14
      <4> QED BY <1>13, <1>19, <4>1
    <3>3. Len(delivered) + 1 \in 1..Len(cuts)
      <4>1. \A d, n, m \in Nat : d <= n /\ n <= m => d + 1 \in 1..(m + 1)
        OBVIOUS
      <4>2. Len(delivered) + 1 \in 1..(Len(sent) + 1)
        BY <1>4, <1>14, <3>2, <4>1
      <4> QED BY <3>1, <4>2
    <3>4. cuts2[Len(delivered) + 1] = cuts[Len(delivered) + 1]
      <4>1. \A k \in 1..Len(cuts) : cuts2[k] = cuts[k]
        BY <2>3
      <4> QED BY <3>3, <4>1
    <3>5. cursor = cuts[Len(delivered) + 1]
      BY <1>16, <3>2 DEF Placement
    <3> QED BY <1>3, <3>4, <3>5 DEF Placement
  <2> QED BY <1>3, <1>9, <1>11, <1>12, <1>15, <2>7, <2>8 DEF TcpIInv
<1>20. CASE ~(torn = 0 /\ Untouched)
  <2>1. Kept' = Kept /\ Kept \in 0..Len(sent) /\ Intact' = Intact
    BY <1>2, <1>4, <1>8, <1>20 DEF Kept, Intact
  <2>2. Framed(text, cuts, sent, Kept)'
    <3>1. \A k \in 1..Kept : k \in 1..Len(sent)
      BY <1>4, <2>1
    <3>2. \A k \in 1..Kept : sent'[k] = sent[k]
      BY <1>8, <3>1
    <3>3. Framed(text, cuts, sent', Kept)
      BY ONLY <1>17, <3>2 DEF Framed
    <3> QED BY ONLY <2>1, <3>3 DEF Framed, ToUInt32
  <2>3. (torn = 0 => text = wire \o Pending)'
    <3> SUFFICES ASSUME torn = 0, ~Untouched PROVE text = wire' \o Pending'
      BY <1>2, <1>20
    <3>1. text = wire \o Pending
      BY <1>16 DEF Conversation
    <3>2. /\ sendPc = "header" => Pending = unsent \o packet /\ Pending' = unsent' \o packet
          /\ sendPc = "payload" => Pending = unsent /\ Pending' = unsent'
      BY <1>2, <1>10 DEF Pending
    <3> QED BY <1>2, <1>18, <3>1, <3>2
  <2>4. (torn # 0 => /\ cuts[torn] <= Len(wire)
                     /\ \A i \in 1..cuts[torn] : wire[i] = text[i]
                     /\ ~Retried => StartsWith(text, wire) /\ Len(wire) < Len(text))'
    <3> SUFFICES ASSUME torn # 0
                 PROVE  /\ cuts[torn] <= Len(wire')
                        /\ \A i \in 1..cuts[torn] : wire'[i] = text[i]
                        /\ Retried'
      BY <1>2
    <3>1. cuts[torn] <= Len(wire) /\ \A i \in 1..cuts[torn] : wire[i] = text[i]
      BY <1>16 DEF Conversation
    <3>2. cuts[torn] \in Nat
      <4>1. Len(cuts) = torn + 1 /\ torn \in 1..(torn + 1)
        BY <1>4, <1>17 DEF Framed, Kept
      <4> QED BY <4>1, ElementOfSeq
    <3>3. \A i \in 1..cuts[torn] : i \in 1..Len(wire)
      BY <1>4, <3>1, <3>2
    <3>4. Retried'
      BY <1>2, <1>8 DEF Retried
    <3>5. \A i \in 1..cuts[torn] : wire'[i] = text[i]
      BY <1>7, <3>1, <3>3
    <3>6. cuts[torn] <= Len(wire')
      BY <1>4, <1>7, <3>1, <3>2
    <3> QED BY <3>4, <3>5, <3>6
  <2>5. Conversation(text, cuts)'
    BY <2>2, <2>3, <2>4 DEF Conversation
  <2>6. Placement(cuts)'
    BY <1>3, <1>16, <2>1 DEF Placement
  <2> QED BY <1>3, <1>9, <1>11, <1>12, <1>15, <1>16, <2>5, <2>6 DEF TcpIInv
<1> QED BY <1>19, <1>20

(* What is left of a frame consists of bytes.                              *)
LEMMA PendingIsBytes ==
  ASSUME ConnectionTypeOK
  PROVE  Pending \in Seq(Byte)
<1>1. packet \in Seq(Byte) /\ unsent \in Seq(Byte) /\ << >> \in Seq(Byte)
  BY EmptySeq DEF ConnectionTypeOK
<1>2. unsent \o packet \in Seq(Byte)
  BY <1>1, ConcatProperties, Zenon
<1> QED BY <1>1, <1>2 DEF Pending

(* The exception leaves Send in the middle of a frame, or before it.       *)
LEMMA SendThrowsStep ==
  ASSUME TcpIInv, SendThrows
  PROVE  TcpIInv'
<1> USE DEF OSC_STREAM_FRAME_HEADER_SIZE
<1>1. /\ UNCHANGED receiver /\ wire' = wire /\ link' = link /\ sent' = sent
      /\ sendPc \in {"header", "payload"} /\ unsent # << >>
      /\ sendPc' = "idle" /\ packet' = << >> /\ unsent' = << >>
      /\ torn' = IF torn = 0 /\ ~Untouched THEN Len(sent) ELSE torn
  BY DEF SendThrows, InSendAll
<1>2. IInv' /\ cursor' = cursor /\ stream' = stream /\ delivered' = delivered
  BY <1>1, ReceiverStays
<1>3. /\ sent \in Seq(Seq(Byte)) /\ Len(sent) \in Nat /\ torn \in 0..Len(sent)
      /\ Len(delivered) \in Nat /\ << >> \in Seq(Byte)
      /\ wire \in Seq(Byte) /\ Len(wire) \in Nat /\ Len(stream) \in Nat
  BY EmptySeq, LenProperties DEF TcpIInv, ConnectionTypeOK, IInv, TypeOK
<1>4. ConnectionTypeOK'
  <2>1. torn' \in 0..Len(sent')
    BY <1>1, <1>3
  <2> QED BY <1>1, <1>3, <2>1 DEF TcpIInv, ConnectionTypeOK
<1>5. CallOK'
  BY <1>1 DEF CallOK
<1>6. CASE ~(torn = 0 /\ ~Untouched)
  <2>1. torn' = torn
    BY <1>1, <1>6
  <2>2. torn = 0 => Pending' = Pending
    BY <1>1, <1>6 DEF Pending
  <2> QED BY <1>1, <1>2, <1>4, <1>5, <2>1, <2>2, ConversationStays
<1>7. CASE torn = 0 /\ ~Untouched
  <2> DEFINE n == Len(sent)
  <2>1. torn' = n /\ n > 0 /\ sent[n] = packet
    BY <1>1, <1>3, <1>7 DEF TcpIInv, CallOK
  <2>2. PICK text \in Seq(Byte), cuts \in Seq(Nat) : Conversation(text, cuts) /\ Placement(cuts)
    BY DEF TcpIInv
  <2>3. Framed(text, cuts, sent, n) /\ text = wire \o Pending
    BY <1>7, <2>2 DEF Conversation, Kept
  <2>4. Pending \in Seq(Byte) /\ Len(Pending) \in Nat /\ Pending # << >> /\ Len(Pending) <= 4 + Len(packet)
    <3>1. /\ unsent \in Seq(Byte) /\ packet \in Seq(Byte)
          /\ Len(unsent) \in Nat /\ Len(packet) \in Nat /\ Len(unsent) # 0
      BY <1>1, EmptySeq, LenProperties DEF TcpIInv, ConnectionTypeOK
    <3>2. CASE sendPc = "header"
      <4>1. Pending = unsent \o packet /\ Len(unsent) <= 4
        BY <1>7, <3>2 DEF Pending, TcpIInv, CallOK
      <4>2. Pending \in Seq(Byte) /\ Len(Pending) = Len(unsent) + Len(packet)
        BY <3>1, <4>1, ConcatProperties
      <4>3. Len(Pending) # 0 /\ Len(Pending) \in Nat /\ Len(Pending) <= 4 + Len(packet)
        BY <3>1, <4>1, <4>2
      <4> QED BY <4>2, <4>3, EmptySeq
    <3>3. CASE sendPc = "payload"
      <4>1. Pending = unsent /\ Len(unsent) <= Len(packet)
        BY <1>1, <1>7, <3>3 DEF Pending, TcpIInv, CallOK
      <4> QED BY <1>1, <3>1, <4>1
    <3> QED BY <1>1, <3>2, <3>3
  <2>5. /\ Len(text) = Len(wire) + Len(Pending) /\ Len(wire) < Len(text)
        /\ \A i \in 1..Len(wire) : wire[i] = text[i]
    <3>1. Len(text) = Len(wire) + Len(Pending)
      BY <1>3, <2>3, <2>4, ConcatProperties
    <3>2. \A i \in 1..Len(wire) : text[i] = wire[i]
      BY <1>3, <2>3, <2>4, Growth
    <3>3. Len(Pending) # 0
      BY <2>4, EmptySeq
    <3> QED BY <1>3, <2>4, <3>1, <3>2, <3>3
  <2>6. cuts[n] \in Nat /\ cuts[n] <= Len(wire) /\ cuts[n + 1] = Len(text)
    <3>1. n \in 1..n /\ Len(cuts) = n + 1 /\ n \in 1..(n + 1)
      BY <1>3, <2>1, <2>3 DEF Framed
    <3>2. cuts[n] \in Nat
      BY <3>1, ElementOfSeq
    <3>3. cuts[n + 1] = cuts[n] + 4 + Len(packet) /\ cuts[n + 1] = Len(text)
      BY <2>1, <2>3, <3>1 DEF Framed
    <3>4. Len(packet) \in Nat
      BY LenProperties DEF TcpIInv, ConnectionTypeOK
    <3>5. \A c, p, w, q \in Nat : c + 4 + p = w + q /\ q <= 4 + p => c <= w
      OBVIOUS
    <3>6. cuts[n] <= Len(wire)
      <4>1. cuts[n] + 4 + Len(packet) = Len(wire) + Len(Pending)
        BY <2>5, <3>3
      <4> QED BY ONLY <1>3, <2>4, <3>2, <3>4, <3>5, <4>1
    <3> QED BY <3>2, <3>3, <3>6
  <2>7. Intact = n /\ Intact' = n - 1 /\ ~Retried /\ ~Retried' /\ Kept' = n
    BY <1>1, <1>3, <1>7, <2>1 DEF Intact, Retried, Kept
  <2>8. Len(delivered) <= n - 1
    <3>1. ~(Len(delivered) > n)
      BY <2>7 DEF TcpIInv, DeliveredInOrder
    <3>2. ASSUME Len(delivered) = n PROVE FALSE
      <4>1. cursor = cuts[n + 1]
        BY <1>3, <2>2, <2>7, <3>2 DEF Placement
      <4>2. cursor \in Int /\ cursor <= Len(stream)
        BY CursorReceived DEF TcpIInv
      <4>3. Len(stream) <= Len(wire)
        BY DEF TcpIInv, StartsWith
      <4> QED BY <1>3, <2>4, <2>5, <2>6, <4>1, <4>2, <4>3
    <3> QED BY <1>3, <3>1, <3>2
  <2>9. DeliveredInOrder'
    <3>1. \A k \in 1..Len(delivered) : k <= n
      BY <1>3, <2>8
    <3>2. \A k \in 1..Len(delivered) : delivered[k] = sent[k]
      BY <2>7, <3>1 DEF TcpIInv, DeliveredInOrder
    <3>3. ~(Len(delivered) > n - 1)
      BY <1>3, <2>8
    <3> QED BY <1>1, <1>2, <2>7, <3>2, <3>3 DEF DeliveredInOrder
  <2>10. StartsWith(wire', stream')
    BY <1>1, <1>2 DEF TcpIInv
  <2> HIDE DEF n
  <2>11. Conversation(text, cuts)'
    <3>1. Framed(text, cuts, sent, Kept)'
      <4>1. Framed(text, cuts, sent', Kept')
        BY <1>1, <2>3, <2>7
      <4> QED BY ONLY <4>1 DEF Framed, ToUInt32
    <3>2. (torn = 0 => text = wire \o Pending)'
      BY <1>3, <2>1 DEF n
    <3>3. /\ cuts[n] <= Len(wire)
          /\ \A i \in 1..cuts[n] : wire[i] = text[i]
          /\ StartsWith(text, wire) /\ Len(wire) < Len(text)
      <4>1. \A i \in 1..cuts[n] : i \in 1..Len(wire)
        BY <1>3, <2>6
      <4>2. Len(wire) <= Len(text)
        BY <1>3, <2>4, <2>5
      <4> QED BY <2>5, <2>6, <4>1, <4>2 DEF StartsWith
    <3>4. (torn # 0 => /\ cuts[torn] <= Len(wire)
                       /\ \A i \in 1..cuts[torn] : wire[i] = text[i]
                       /\ ~Retried => StartsWith(text, wire) /\ Len(wire) < Len(text))'
      BY <1>1, <2>1, <3>3 DEF StartsWith
    <3> QED BY <3>1, <3>2, <3>4 DEF Conversation
  <2>12. Placement(cuts)'
    <3>1. Len(delivered) <= Intact
      BY <1>3, <2>7, <2>8 DEF n
    <3> QED BY <1>2, <2>2, <3>1 DEF Placement
  <2> QED BY <1>2, <1>4, <1>5, <2>2, <2>9, <2>10, <2>11, <2>12 DEF TcpIInv
<1> QED BY <1>6, <1>7

(* A step of the receiver that delivers nothing and reads on, or not.      *)
LEMMA ReceiverWaits ==
  ASSUME TcpIInv, IInv', StartsWith(wire', stream'),
         cursor' = cursor, delivered' = delivered,
         link' = link, wire' = wire, UNCHANGED sender
  PROVE  TcpIInv'
<1>1. /\ sendPc' = sendPc /\ packet' = packet /\ unsent' = unsent /\ sent' = sent /\ torn' = torn
  BY DEF sender
<1>2. /\ Untouched' = Untouched /\ Intact' = Intact /\ Kept' = Kept /\ Retried' = Retried
  BY <1>1 DEF Untouched, Intact, Kept, Retried
<1>3. Pending' = Pending
  BY <1>1, <1>2 DEF Pending
<1>4. ConnectionTypeOK' /\ CallOK' /\ DeliveredInOrder'
  BY <1>1, <1>2 DEF TcpIInv, ConnectionTypeOK, CallOK, DeliveredInOrder
<1>5. PICK text \in Seq(Byte), cuts \in Seq(Nat) : Conversation(text, cuts) /\ Placement(cuts)
  BY DEF TcpIInv
<1>6. Conversation(text, cuts)'
  <2>1. Framed(text, cuts, sent, Kept)'
    BY <1>1, <1>2, <1>5 DEF Conversation, Framed, ToUInt32
  <2>2. (torn = 0 => text = wire \o Pending)'
    BY <1>1, <1>3, <1>5 DEF Conversation
  <2>3. (torn # 0 => /\ cuts[torn] <= Len(wire)
                     /\ \A i \in 1..cuts[torn] : wire[i] = text[i]
                     /\ ~Retried => StartsWith(text, wire) /\ Len(wire) < Len(text))'
    BY <1>1, <1>2, <1>5 DEF Conversation, StartsWith
  <2> QED BY <2>1, <2>2, <2>3 DEF Conversation
<1>7. Placement(cuts)'
  BY <1>2, <1>5 DEF Placement
<1> QED BY <1>4, <1>5, <1>6, <1>7 DEF TcpIInv

(* The receiver reads more of what was written.                            *)
LEMMA ReadStep ==
  ASSUME TcpIInv, Read
  PROVE  TcpIInv'
<1>1. PICK n \in Len(stream) + 1..Len(wire) : Consume(SubSeq(wire, Len(stream) + 1, n))
  BY DEF Read
<1>2. /\ link \in {"up", "closed"} /\ link' = link /\ wire' = wire
      /\ UNCHANGED sender
  BY DEF Read
<1>3. /\ stream \in Seq(Byte) /\ wire \in Seq(Byte) /\ Len(stream) \in Nat /\ Len(wire) \in Nat
      /\ n \in Nat /\ Len(stream) <= n /\ n <= Len(wire)
  BY LenProperties DEF TcpIInv, ConnectionTypeOK, IInv, TypeOK
<1> DEFINE chunk == SubSeq(wire, Len(stream) + 1, n)
<1>4. /\ chunk \in Seq(Byte) /\ Len(chunk) = n - Len(stream)
      /\ \A i \in 1..(n - Len(stream)) : chunk[i] = wire[Len(stream) + i]
  <2>1. Len(stream) \in 0..Len(wire) /\ n \in Len(stream)..Len(wire)
    BY <1>3
  <2> QED BY <1>3, <2>1, SliceProperties
<1>5. Consume(chunk)
  BY <1>1
<1> HIDE DEF chunk
<1>6. IInv'
  BY <1>4, <1>5, ConsumeCallStep DEF TcpIInv
<1>7. stream' = stream \o chunk /\ delivered' = delivered /\ cursor' = cursor
  BY <1>5 DEF Consume, state, cursor
<1>8. /\ Len(stream') = n
      /\ \A i \in 1..n : stream'[i] = IF i <= Len(stream) THEN stream[i] ELSE chunk[i - Len(stream)]
  <2>1. /\ Len(stream \o chunk) = Len(stream) + Len(chunk)
        /\ \A i \in 1..Len(stream) + Len(chunk) :
             (stream \o chunk)[i] = IF i <= Len(stream) THEN stream[i] ELSE chunk[i - Len(stream)]
    <3>1. chunk \in Seq(Byte)
      BY <1>4
    <3> QED BY <1>3, <3>1, ConcatProperties
  <2>2. Len(stream) + Len(chunk) = n
    BY <1>3, <1>4
  <2> QED BY <1>7, <2>1, <2>2
<1>9. \A i \in 1..n : stream'[i] = wire[i]
  <2> SUFFICES ASSUME NEW i \in 1..n PROVE stream'[i] = wire[i]
    OBVIOUS
  <2>1. CASE i <= Len(stream)
    <3>1. i \in 1..Len(stream)
      BY <1>3, <2>1
    <3>2. stream[i] = wire[i]
      BY <3>1 DEF TcpIInv, StartsWith
    <3> QED BY <1>8, <2>1, <3>2
  <2>2. CASE ~(i <= Len(stream))
    <3>1. i - Len(stream) \in 1..(n - Len(stream)) /\ Len(stream) + (i - Len(stream)) = i
      BY <1>3, <2>2
    <3> QED BY <1>4, <1>8, <2>2, <3>1
  <2> QED BY <2>1, <2>2
<1>10. StartsWith(wire', stream')
  BY <1>2, <1>3, <1>8, <1>9 DEF StartsWith
<1> QED BY <1>2, <1>6, <1>7, <1>10, ReceiverWaits

(* A frame that is in the stream as it is in text is read as its packet.   *)
LEMMA FrameRead ==
  ASSUME IInv, ConnectionTypeOK, Abstract!Deliver,
         NEW text \in Seq(Byte), NEW cuts \in Seq(Nat), NEW n \in Nat, n <= Len(sent),
         Framed(text, cuts, sent, n), NEW k \in 1..n, cursor = cuts[k],
         \A i \in 1..cuts[k + 1] : i <= Len(stream) => stream[i] = text[i]
  PROVE  /\ cursor' = cuts[k + 1]
         /\ delivered' = Append(delivered, sent[k])
         /\ cuts[k + 1] <= Len(stream)
<1> USE DEF OSC_STREAM_FRAME_HEADER_SIZE, Abstract!OSC_STREAM_FRAME_HEADER_SIZE
<1> DEFINE size == Abstract!Size
<1>1. /\ sent \in Seq(Seq(Byte)) /\ Len(sent) \in Nat /\ stream \in Seq(Byte) /\ Len(stream) \in Nat
      /\ k \in Nat /\ 1 <= k /\ k <= n
  BY LenProperties DEF ConnectionTypeOK, IInv, TypeOK
<1>2. cuts[k] \in Nat /\ cuts[k + 1] \in Nat
  <2>1. Len(cuts) = n + 1 /\ k \in 1..(n + 1) /\ k + 1 \in 1..(n + 1)
    BY <1>1 DEF Framed
  <2> QED BY <2>1, ElementOfSeq
<1>3. sent[k] \in Seq(Byte) /\ Len(sent[k]) \in Nat
  <2>1. k \in 1..Len(sent)
    BY <1>1
  <2>2. sent[k] \in Seq(Byte)
    BY <1>1, <2>1, ElementOfSeq
  <2> QED BY <2>2, LenProperties
<1>4. /\ cuts[k + 1] = cuts[k] + 4 + Len(sent[k])
      /\ ToUInt32(text, cuts[k]) = Len(sent[k])
      /\ \A j \in 1..Len(sent[k]) : text[cuts[k] + 4 + j] = sent[k][j]
  BY DEF Framed
<1>5. /\ cursor + 4 <= Len(stream) /\ cursor + 4 + size <= Len(stream)
      /\ cursor' = cursor + 4 + size
      /\ delivered' = Append(delivered, SubSeq(stream, cursor + 4 + 1, cursor'))
  BY DEF Abstract!Deliver, Abstract!FrameArrived, Abstract!HeaderArrived
<1>6. size = ToUInt32(stream, cursor)
  BY DEF Abstract!Size, Abstract!ToUInt32, ToUInt32
<1> HIDE DEF size
<1>7. PICK c \in Nat, e \in Nat, l \in Nat, s \in Nat :
        c = cuts[k] /\ e = cuts[k + 1] /\ l = Len(stream) /\ s = Len(sent[k])
  BY <1>1, <1>2, <1>3
<1>20. c \in Nat /\ e \in Nat /\ l \in Nat /\ s \in Nat
  BY <1>7
<1>8. c = cursor /\ e = c + 4 + s /\ c + 4 <= l
  BY <1>4, <1>5, <1>7
<1>9. \A i \in 1..e : i <= l => stream[i] = text[i]
  BY <1>7
<1>10. size = s
  <2>1. /\ c + 1 \in 1..e /\ c + 2 \in 1..e /\ c + 3 \in 1..e /\ c + 4 \in 1..e
        /\ c + 1 <= l /\ c + 2 <= l /\ c + 3 <= l /\ c + 4 <= l
    BY ONLY <1>20, <1>8
  <2>2. /\ stream[c + 1] = text[c + 1] /\ stream[c + 2] = text[c + 2]
        /\ stream[c + 3] = text[c + 3] /\ stream[c + 4] = text[c + 4]
    BY <1>9, <2>1
  <2>3. ToUInt32(stream, c) = ToUInt32(text, c)
    BY <2>2 DEF ToUInt32
  <2> QED BY <1>4, <1>6, <1>7, <1>8, <2>3
<1>11. cursor' = e /\ e <= l /\ delivered' = Append(delivered, SubSeq(stream, c + 4 + 1, e))
  BY <1>5, <1>7, <1>8, <1>10
<1>21. e \in 0..l /\ c + 4 \in 0..l /\ e \in (c + 4)..l /\ e - (c + 4) = s
  <2>1. e <= l
    BY <1>11
  <2> QED BY ONLY <1>20, <1>8, <2>1
<1> DEFINE from == c + 4
           piece == SubSeq(stream, from + 1, e)
<1>12. /\ piece \in Seq(Byte) /\ Len(piece) = s
       /\ \A i \in 1..s : piece[i] = stream[from + i]
  <2>1. from \in 0..Len(stream) /\ e \in from..Len(stream) /\ e - from = s
    BY <1>7, <1>21
  <2> HIDE DEF from
  <2>2. \A q \in from..Len(stream) :
          /\ SubSeq(stream, from + 1, q) \in Seq(Byte)
          /\ Len(SubSeq(stream, from + 1, q)) = q - from
          /\ \A i \in 1..(q - from) : SubSeq(stream, from + 1, q)[i] = stream[from + i]
    BY <1>1, <2>1, SliceProperties
  <2> QED BY <2>1, <2>2
<1> HIDE DEF piece
<1>13. piece = sent[k]
  <2>1. ASSUME NEW i \in 1..s PROVE piece[i] = sent[k][i]
    <3>1. from + i \in 1..e /\ from + i <= l /\ from + i = c + 4 + i
      <4>1. i \in 1..s
        OBVIOUS
      <4> QED BY ONLY <1>20, <1>8, <1>21, <4>1
    <3>2. piece[i] = stream[from + i] /\ stream[from + i] = text[from + i]
      BY <1>9, <1>12, <3>1
    <3>3. text[c + 4 + i] = sent[k][i]
      BY <1>4, <1>7
    <3> QED BY <3>1, <3>2, <3>3
  <2>2. Len(piece) = Len(sent[k]) /\ \A i \in 1..Len(piece) : piece[i] = sent[k][i]
    BY <1>7, <1>12, <2>1
  <2>3. piece \in Seq(Byte) /\ sent[k] \in Seq(Byte)
    BY <1>3, <1>12
  <2> QED BY <2>2, <2>3, SeqEqual
<1>14. delivered' = Append(delivered, piece)
  BY <1>11 DEF piece
<1> QED BY <1>7, <1>11, <1>13, <1>14

(* Up to the end of an intact frame the stream is what was written.        *)
LEMMA AgreesSoFar ==
  ASSUME TcpIInv, NEW text \in Seq(Byte), NEW cuts \in Seq(Nat), Conversation(text, cuts),
         NEW m \in Nat, m < Intact
  PROVE  \A i \in 1..cuts[m + 2] : i <= Len(stream) => stream[i] = text[i]
<1>1. /\ Len(sent) \in Nat /\ torn \in 0..Len(sent)
      /\ Len(stream) \in Nat /\ Len(wire) \in Nat /\ Len(text) \in Nat
  BY LenProperties DEF TcpIInv, ConnectionTypeOK, IInv, TypeOK
<1>2. Len(stream) <= Len(wire) /\ \A i \in 1..Len(stream) : stream[i] = wire[i]
  BY DEF TcpIInv, StartsWith
<1>3. Framed(text, cuts, sent, Kept) /\ Kept \in Nat
  BY <1>1 DEF Conversation, Kept
<1>4. m + 2 \in 1..(Kept + 1) /\ (torn # 0 => m + 2 <= torn /\ torn \in 1..(Kept + 1))
  BY <1>1 DEF Intact, Kept
<1>5. cuts[m + 2] \in Nat /\ (torn # 0 => cuts[m + 2] <= cuts[torn] /\ cuts[torn] \in Nat)
  <2>1. Len(cuts) = Kept + 1 /\ \A j, k \in 1..(Kept + 1) : j <= k => cuts[j] <= cuts[k]
    BY <1>3 DEF Framed
  <2>2. \A k \in 1..(Kept + 1) : cuts[k] \in Nat
    BY <2>1, ElementOfSeq
  <2> QED BY <1>4, <2>1, <2>2
<1> SUFFICES ASSUME NEW i \in 1..cuts[m + 2], i <= Len(stream) PROVE stream[i] = text[i]
  OBVIOUS
<1>6. i \in 1..Len(stream) /\ i \in 1..Len(wire)
  BY <1>1, <1>2, <1>5
<1>7. stream[i] = wire[i]
  BY <1>2, <1>6
<1>8. CASE torn = 0
  <2>1. text = wire \o Pending /\ Pending \in Seq(Byte) /\ wire \in Seq(Byte)
    BY <1>8, PendingIsBytes DEF Conversation, TcpIInv, ConnectionTypeOK
  <2>2. text[i] = wire[i]
    BY <1>6, <2>1, Growth
  <2> QED BY <1>7, <2>2
<1>9. CASE torn # 0
  <2>1. i \in 1..cuts[torn]
    BY <1>5, <1>9
  <2>2. wire[i] = text[i]
    BY <1>9, <2>1 DEF Conversation
  <2> QED BY <1>7, <2>2
<1> QED BY <1>8, <1>9

(* The packet behind those delivered is the next of sent, or comes out of  *)
(* a frame behind the torn one.                                            *)
LEMMA DeliverStep ==
  ASSUME TcpIInv, SinkMayThrow = FALSE, UNCHANGED sender, Abstract!Deliver,
         NEW text \in Seq(Byte), NEW cuts \in Seq(Nat), Conversation(text, cuts), Placement(cuts)
  PROVE  DeliveredInOrder' /\ Placement(cuts)'
<1> USE DEF OSC_STREAM_FRAME_HEADER_SIZE, Abstract!OSC_STREAM_FRAME_HEADER_SIZE
<1> DEFINE m == Len(delivered)
<1>1. /\ sent \in Seq(Seq(Byte)) /\ Len(sent) \in Nat /\ torn \in 0..Len(sent)
      /\ delivered \in Seq(Seq(Byte)) /\ m \in Nat
      /\ Len(stream) \in Nat /\ Len(wire) \in Nat /\ Len(text) \in Nat
  BY LenProperties DEF TcpIInv, ConnectionTypeOK, IInv, TypeOK
<1>2. Intact' = Intact /\ Retried' = Retried /\ sent' = sent
  BY DEF sender, Intact, Retried
<1>3. Intact \in 0..Len(sent) /\ Kept \in Intact..Len(sent)
  BY <1>1 DEF Intact, Kept
<1>4. /\ \A i \in 1..m : i <= Intact => delivered[i] = sent[i]
      /\ m > Intact => Retried
  BY DEF TcpIInv, DeliveredInOrder
<1>5. Len(stream) <= Len(wire) /\ \A i \in 1..Len(stream) : stream[i] = wire[i]
  BY DEF TcpIInv, StartsWith
<1>6. Framed(text, cuts, sent, Kept)
  BY DEF Conversation
<1>7. PICK item \in Seq(Byte) : delivered' = Append(delivered, item)
  <2> DEFINE from == cursor + 4
             size == Abstract!Size
  <2>1. /\ from <= Len(stream) /\ from + size <= Len(stream) /\ cursor' = from + size
        /\ delivered' = Append(delivered, SubSeq(stream, from + 1, cursor'))
    BY DEF Abstract!Deliver, Abstract!FrameArrived, Abstract!HeaderArrived
  <2>2. cursor \in Nat
    BY CursorReceived DEF TcpIInv
  <2>3. size \in Nat
    <3>1. size = ToUInt32(stream, cursor)
      BY DEF Abstract!Size, Abstract!ToUInt32, ToUInt32
    <3>2. stream \in Seq(Byte) /\ cursor + 4 <= Len(stream)
      BY <2>1 DEF TcpIInv, IInv, TypeOK
    <3> QED BY <2>2, <3>1, <3>2, SizeIsNat
  <2> HIDE DEF size
  <2>4. from \in 0..Len(stream) /\ from + size \in from..Len(stream)
    BY <1>1, <2>1, <2>2, <2>3
  <2> HIDE DEF from
  <2>5. SubSeq(stream, from + 1, from + size) \in Seq(Byte)
    BY <2>4, SliceProperties DEF TcpIInv, IInv, TypeOK
  <2> QED BY <2>1, <2>5
<1>8. /\ Len(delivered') = m + 1 /\ delivered'[m + 1] = item
      /\ \A i \in 1..m : delivered'[i] = delivered[i]
  BY <1>1, <1>7
<1> HIDE DEF m
<1>9. CASE m >= Intact /\ Retried
  <2>1. m + 1 > Intact
    BY <1>1, <1>3, <1>9
  <2>2. \A i \in 1..(m + 1) : i <= Intact => i \in 1..m
    BY <1>1, <1>3, <1>9
  <2>3. \A i \in 1..(m + 1) : i <= Intact => delivered'[i] = sent[i]
    BY <1>4, <1>8, <2>2
  <2>4. DeliveredInOrder'
    BY <1>2, <1>8, <1>9, <2>3 DEF DeliveredInOrder
  <2>5. ~(Len(delivered') <= Intact')
    BY <1>1, <1>2, <1>3, <1>8, <2>1
  <2> QED BY <2>4, <2>5 DEF Placement
<1>10. CASE m < Intact
  <2>1. m + 1 \in 1..Kept /\ Kept \in Nat /\ Kept <= Len(sent)
    BY <1>1, <1>3, <1>10
  <2>2. cursor = cuts[m + 1]
    BY <1>1, <1>3, <1>10 DEF Placement, m
  <2>3. \A i \in 1..cuts[m + 2] : i <= Len(stream) => stream[i] = text[i]
    BY AgreesSoFar, <1>1, <1>10 DEF m
  <2>4. (m + 1) + 1 = m + 2
    BY <1>1
  <2>5. cursor' = cuts[m + 2] /\ delivered' = Append(delivered, sent[m + 1])
    <3>1. \A k \in 1..Kept :
            cursor = cuts[k] /\ (\A i \in 1..cuts[k + 1] : i <= Len(stream) => stream[i] = text[i])
            => cursor' = cuts[k + 1] /\ delivered' = Append(delivered, sent[k])
      BY <1>6, <2>1, FrameRead DEF TcpIInv
    <3> QED BY <2>1, <2>2, <2>3, <2>4, <3>1
  <2>6. delivered'[m + 1] = sent[m + 1]
    BY <1>1, <2>5 DEF m
  <2>7. \A i \in 1..(m + 1) : i \in 1..m \/ i = m + 1
    BY <1>1
  <2>8. \A i \in 1..(m + 1) : i <= Intact => delivered'[i] = sent[i]
    BY <1>4, <1>8, <2>6, <2>7
  <2>9. ~(m + 1 > Intact)
    BY <1>1, <1>3, <1>10
  <2>10. DeliveredInOrder'
    BY <1>2, <1>8, <2>8, <2>9 DEF DeliveredInOrder
  <2>11. Placement(cuts)'
    BY <1>8, <2>4, <2>5 DEF Placement
  <2> QED BY <2>10, <2>11
<1>11. CASE m = Intact /\ ~Retried
  <2>1. cursor = cuts[m + 1]
    BY <1>1, <1>11 DEF Placement, m
  <2>2. cursor + 4 <= Len(stream)
    BY DEF Abstract!Deliver, Abstract!FrameArrived, Abstract!HeaderArrived
  <2>3. CASE torn = 0
    <3>1. m = Len(sent) /\ Kept = Len(sent) /\ text = wire \o Pending
      BY <1>11, <2>3 DEF Intact, Kept, Conversation
    <3>2. cuts[Len(sent) + 1] = Len(text)
      BY <1>6, <3>1 DEF Framed
    <3>3. Len(wire) <= Len(text)
      BY <3>1, PendingIsBytes, Growth DEF TcpIInv, ConnectionTypeOK
    <3> QED BY <1>1, <1>5, <2>1, <2>2, <3>1, <3>2, <3>3
  <2>4. CASE torn # 0
    <3>1. m + 1 = torn /\ Kept = torn /\ torn \in 1..torn /\ torn \in Nat /\ torn <= Len(sent)
      BY <1>1, <1>11, <2>4 DEF Intact, Kept
    <3>2. Len(wire) < Len(text) /\ Len(wire) <= Len(text) /\ \A i \in 1..Len(wire) : wire[i] = text[i]
      BY <1>11, <2>4 DEF Conversation, StartsWith
    <3>3. \A i \in 1..Len(stream) : i \in 1..Len(wire)
      BY <1>1, <1>5
    <3>4. \A i \in 1..cuts[torn + 1] : i <= Len(stream) => stream[i] = text[i]
      <4>1. cuts[torn + 1] \in Nat
        BY <1>1, <1>6, <3>1 DEF Framed
      <4>2. \A i \in 1..cuts[torn + 1] : i <= Len(stream) => i \in 1..Len(stream)
        BY <1>1, <4>1
      <4> QED BY <1>5, <3>2, <3>3, <4>2
    <3>5. cuts[torn + 1] <= Len(stream)
      <4>1. Framed(text, cuts, sent, torn)
        BY <1>6, <3>1
      <4>2. cursor = cuts[torn]
        BY <2>1, <3>1
      <4> QED BY <3>1, <3>4, <4>1, <4>2, FrameRead DEF TcpIInv
    <3>6. cuts[torn + 1] = Len(text)
      BY <1>6, <3>1 DEF Framed
    <3> QED BY <1>1, <1>5, <3>2, <3>5, <3>6
  <2> QED BY <2>3, <2>4
<1> QED BY <1>1, <1>3, <1>4, <1>9, <1>10, <1>11

(* A step of the receiver inside Consume.                                  *)
LEMMA ReceiverMoves ==
  ASSUME TcpIInv, ReceiverStep, SinkMayThrow = FALSE
  PROVE  TcpIInv'
<1>1. link' = link /\ wire' = wire /\ UNCHANGED sender /\ [Next]_vars
  BY DEF ReceiverStep, Next
<1>2. IInv' /\ [Abstract!Next]_Abstract!vars
  BY <1>1, NextIInv, NextRefines DEF TcpIInv
<1>3. stream' = stream
  BY DEF ReceiverStep, ConsumeStep, ConsumeReturns, HeaderContiguous, HeaderIncomplete,
         HeaderCompleted, HaveSize, DispatchInPlace, Gather, SinkReturns, SinkThrows
<1>4. StartsWith(wire', stream')
  BY <1>1, <1>3 DEF TcpIInv
<1>5. CASE cursor' = cursor /\ delivered' = delivered
  BY <1>1, <1>2, <1>4, <1>5, ReceiverWaits
<1>6. CASE Abstract!Deliver \/ Abstract!Restart
  <2>1. PICK text \in Seq(Byte), cuts \in Seq(Nat) : Conversation(text, cuts) /\ Placement(cuts)
    BY DEF TcpIInv
  <2>2. /\ sendPc' = sendPc /\ packet' = packet /\ unsent' = unsent /\ sent' = sent /\ torn' = torn
    BY <1>1 DEF sender
  <2>3. Untouched' = Untouched /\ Intact' = Intact /\ Kept' = Kept /\ Retried' = Retried
    BY <2>2 DEF Untouched, Intact, Kept, Retried
  <2>4. Pending' = Pending
    BY <2>2, <2>3 DEF Pending
  <2>5. ConnectionTypeOK' /\ CallOK'
    BY <1>1, <2>2, <2>3 DEF TcpIInv, ConnectionTypeOK, CallOK
  <2>6. Conversation(text, cuts)'
    <3>1. Framed(text, cuts, sent, Kept)'
      BY <2>1, <2>2, <2>3 DEF Conversation, Framed, ToUInt32
    <3>2. (torn = 0 => text = wire \o Pending)'
      BY <1>1, <2>1, <2>2, <2>4 DEF Conversation
    <3>3. (torn # 0 => /\ cuts[torn] <= Len(wire)
                       /\ \A i \in 1..cuts[torn] : wire[i] = text[i]
                       /\ ~Retried => StartsWith(text, wire) /\ Len(wire) < Len(text))'
      BY <1>1, <2>1, <2>2, <2>3 DEF Conversation, StartsWith
    <3> QED BY <3>1, <3>2, <3>3 DEF Conversation
  <2>7. DeliveredInOrder' /\ Placement(cuts)'
    <3>1. CASE Abstract!Deliver
      BY <1>1, <2>1, <3>1, DeliverStep
    <3>2. CASE Abstract!Restart
      <4>1. cursor' = 0 /\ Len(delivered') = 0
        BY <3>2, EmptySeq DEF Abstract!Restart
      <4>2. Intact \in Nat /\ 0 + 1 = 1
        BY LenProperties DEF TcpIInv, ConnectionTypeOK, Intact
      <4>3. cuts[1] = 0
        BY <2>1 DEF Conversation, Framed
      <4>4. DeliveredInOrder'
        BY <2>3, <4>1, <4>2 DEF DeliveredInOrder
      <4> QED BY <4>1, <4>2, <4>3, <4>4 DEF Placement
    <3> QED BY <1>6, <3>1, <3>2
  <2> QED BY <1>2, <1>4, <2>1, <2>5, <2>6, <2>7 DEF TcpIInv
<1> QED BY <1>2, <1>5, <1>6
    DEF Abstract!Next, Abstract!Arrive, Abstract!Fail, Abstract!vars

LEMMA TcpNextIInv ==
  ASSUME TcpIInv, [TcpNext]_tcpVars, SinkMayThrow = FALSE,
         \A p \in Packets : Len(p) \in UInt32
  PROVE  TcpIInv'
<1>1. CASE Connect
  BY <1>1, ConnectStep
<1>2. CASE Close \/ Refuse \/ ConnectionLost \/ UNCHANGED tcpVars
  BY <1>2, LinkStep
<1>3. CASE Send
  BY <1>3, SendStep
<1>4. CASE SendPiece
  BY <1>4, SendPieceStep
<1>5. CASE SendThrows
  BY <1>5, SendThrowsStep
<1>6. CASE HeaderWritten \/ SendReturns
  BY <1>6, SendControlStep
<1>7. CASE Read
  BY <1>7, ReadStep
<1>8. CASE ReceiverStep
  BY <1>8, ReceiverMoves
<1> QED BY <1>1, <1>2, <1>3, <1>4, <1>5, <1>6, <1>7, <1>8 DEF TcpNext, SenderStep

LEMMA TcpInvariance ==
  ASSUME SinkMayThrow = FALSE, \A p \in Packets : Len(p) \in UInt32
  PROVE  TcpSpec => []TcpIInv
<1>1. TcpInit => TcpIInv
  BY FreshIInv, EmptySeq DEF TcpInit, Fresh
<1>2. TcpIInv /\ [TcpNext]_tcpVars => TcpIInv'
  BY TcpNextIInv
<1> QED BY <1>1, <1>2, PTL DEF TcpSpec

-----------------------------------------------------------------------------
(* Safety properties.                                                      *)

(* The listener is called with the packets Send was called with, in order, *)
(* each whole: for any packets, however the kernel cuts the writes and the *)
(* reads, and whenever the connection breaks.  A Send may fail at any byte *)
(* of its frame, with the connection gone or still up: the packets before  *)
(* it are delivered as they were, its own is not delivered in part, and    *)
(* only a packet sent behind it on the same connection may arrive          *)
(* otherwise than it was sent.                                             *)
THEOREM EndToEnd ==
  ASSUME SinkMayThrow = FALSE, \A p \in Packets : Len(p) \in UInt32
  PROVE  TcpSpec => []DeliveredInOrder
<1>1. TcpIInv => DeliveredInOrder
  BY DEF TcpIInv
<1> QED BY <1>1, TcpInvariance, PTL

(* The receiver never holds back a packet that has arrived, whatever the   *)
(* sender and the connection do.                                           *)
THEOREM EndToEndPromptness ==
  ASSUME SinkMayThrow = FALSE, \A p \in Packets : Len(p) \in UInt32
  PROVE  TcpSpec => []NoPacketHeldBack
<1>1. TcpIInv => NoPacketHeldBack
  BY HeldBackNever DEF TcpIInv
<1> QED BY <1>1, TcpInvariance, PTL

-----------------------------------------------------------------------------
(* The receiver's end implements PacketStream.                             *)

LEMMA TcpNextRefines ==
  ASSUME TcpIInv, [TcpNext]_tcpVars, SinkMayThrow = FALSE
  PROVE  [Abstract!Next]_Abstract!vars
<1>1. CASE Connect
  <2>1. /\ stream' = << >> /\ delivered' = << >> /\ pc' = "idle" /\ pos' = 0
        /\ header' = << >> /\ haveHeader' = FALSE
    BY <1>1 DEF Connect
  <2>2. cursor' = pos' - Len(header')
    BY <2>1 DEF cursor
  <2>3. Len(<< >>) = 0 /\ 0 - 0 = 0
    BY EmptySeq
  <2>4. cursor' = 0
    BY <2>1, <2>2, <2>3, Zenon
  <2>5. (pc' = "rejected") = FALSE
    BY <2>1
  <2>6. Abstract!Restart
    BY <2>1, <2>4, <2>5 DEF Abstract!Restart
  <2> QED BY <2>6 DEF Abstract!Next
<1>2. CASE Close \/ Refuse \/ ConnectionLost \/ Send \/ SenderStep \/ SendThrows \/ UNCHANGED tcpVars
  <2>1. UNCHANGED vars
    BY <1>2 DEF Close, Refuse, ConnectionLost, Send, SenderStep, SendPiece, SendThrows,
                HeaderWritten, SendReturns, tcpVars, receiver, vars
  <2> QED BY <2>1, NextRefines DEF TcpIInv
<1>3. CASE Read
  <2>1. PICK n \in Len(stream) + 1..Len(wire) : Consume(SubSeq(wire, Len(stream) + 1, n))
    BY <1>3 DEF Read
  <2> DEFINE chunk == SubSeq(wire, Len(stream) + 1, n)
  <2>2. chunk \in Seq(Byte)
    <3>1. wire \in Seq(Byte) /\ Len(stream) \in 0..Len(wire) /\ n \in Len(stream)..Len(wire)
      BY <2>1, LenProperties DEF TcpIInv, ConnectionTypeOK, IInv, TypeOK
    <3> QED BY <3>1, SliceProperties
  <2>3. Consume(chunk)
    BY <2>1
  <2> HIDE DEF chunk
  <2>4. Len(stream) <= Len(stream') /\ \A i \in 1..Len(stream) : stream'[i] = stream[i]
    BY <2>2, <2>3, Growth DEF Consume, TcpIInv, IInv, TypeOK
  <2>5. pc = "idle" /\ pc' = "loop" /\ delivered' = delivered /\ cursor' = cursor
    BY <2>3 DEF Consume, state, cursor
  <2>6. Abstract!Arrive
    BY <2>4, <2>5 DEF Abstract!Arrive
  <2> QED BY <2>6 DEF Abstract!Next
<1>4. CASE ReceiverStep
  BY <1>4, NextRefines DEF ReceiverStep, Next, TcpIInv
<1> QED BY <1>1, <1>2, <1>3, <1>4 DEF TcpNext

(* With a sender, a connection that breaks and new connections around it,  *)
(* the deframer still delivers exactly the packets of the bytes it read.   *)
THEOREM EndToEndRefinement ==
  ASSUME SinkMayThrow = FALSE, \A p \in Packets : Len(p) \in UInt32
  PROVE  TcpSpec => ImplementsPacketStream
<1>1. TcpInit => Abstract!Init
  <2> SUFFICES ASSUME TcpInit PROVE Abstract!Init
    OBVIOUS
  <2>1. cursor = pos - Len(header) /\ pos = 0 /\ header = << >>
    BY DEF TcpInit, Init, cursor
  <2>2. Len(header) = 0 /\ 0 - 0 = 0
    BY <2>1, EmptySeq
  <2>3. cursor = 0
    BY <2>1, <2>2, Zenon
  <2> QED BY <2>3 DEF TcpInit, Init, Abstract!Init
<1>2. TcpIInv /\ [TcpNext]_tcpVars => [Abstract!Next]_Abstract!vars
  BY TcpNextRefines
<1> QED BY TcpInvariance, <1>1, <1>2, PTL DEF TcpSpec, ImplementsPacketStream, Abstract!Spec

=============================================================================
