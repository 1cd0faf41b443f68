\* Two frames, writes and reads of every length, sends that fail, a
\* connection that breaks.
CONSTANTS
  maxFrameSize <- MCMaxFrameSize
  Inputs = {}
  SinkMayThrow = FALSE
  Packets <- MCPackets
  MaxPackets = 2
  WireCapacity = 6
SPECIFICATION TcpSpec
INVARIANTS
  NoPacketHeldBack
  DeliveredInOrder
PROPERTIES
  ImplementsPacketStream
  ConsumeTerminates
  EverySendDelivered
