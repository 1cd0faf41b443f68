\* Well-formed and malformed packets, one after the other.
CONSTANTS
  Packets <- MCPackets
  NestingDepths = {1, 2}
  DEFAULT_MAX_BUNDLE_NESTING_DEPTH = 2
  AddressPatterns <- MCAddressPatterns
  Functions = {"f"}
SPECIFICATION Spec
INVARIANTS
  TypeOK
  BoundedRecursion
  DispatchesInOrder
  IterationStaysInside
  StreamFollowsTypeTags
PROPERTIES
  ValidatedPacketsDoNotThrow
