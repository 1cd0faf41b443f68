\* The same streams with a sink that may throw at any packet.
CONSTANTS
  maxFrameSize <- MCMaxFrameSize
  Inputs <- MCInputs
  SinkMayThrow = TRUE
SPECIFICATION FairSpec
INVARIANTS
  TypeOK
  BoundedBuffer
PROPERTIES
  ConsumeTerminates
