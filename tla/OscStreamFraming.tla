-------------------------- MODULE OscStreamFraming --------------------------
(***************************************************************************)
(* The wire format of an OSC byte stream (osctap/osc/OscStreamFraming.h):  *)
(* every packet is preceded by its length, four bytes, big-endian.  A byte *)
(* pointer of the code is a sequence and an offset into it.                *)
(***************************************************************************)
EXTENDS Integers, Sequences

Byte == 0..255

OSC_STREAM_FRAME_HEADER_SIZE == 4

(* The four bytes that follow offset p of s, as a big-endian number.       *)
ToUInt32(s, p) ==
  ((s[p + 1] * 256 + s[p + 2]) * 256 + s[p + 3]) * 256 + s[p + 4]

FromUInt32(x) ==
  LET byte(shift) == (x \div shift) % 256
  IN  << byte(256 * 256 * 256), byte(256 * 256), byte(256), byte(1) >>

WriteOscStreamFrameHeader(packetSize) == FromUInt32(packetSize)

(* What is written to an output buffer of outCapacity bytes: nothing when  *)
(* the frame does not fit.                                                 *)
FrameOscPacket(packet, outCapacity) ==
  IF Len(packet) + OSC_STREAM_FRAME_HEADER_SIZE > outCapacity
  THEN << >>
  ELSE WriteOscStreamFrameHeader(Len(packet)) \o packet

=============================================================================
