\* Messages in bundles in bundles with every kind of argument, interrupted
\* and cleared anywhere.
CONSTANTS
  Capacity = 62
  Addresses = {3, 4}
  Arguments <- AllArguments
  MaxParts = 5
SPECIFICATION RoundTripSpec
INVARIANTS
  TypeOK
  FitsInBuffer
  PacketIsEncoding
  ReadBack
PROPERTIES
  SizeIsValid
