\* A listener's exception passes through Consume.
CONSTANTS
  maxFrameSize <- MCMaxFrameSize
  Inputs <- MCInputs
  SinkMayThrow = TRUE
SPECIFICATION Spec
INVARIANTS
  EachPacketOnce
