\* A message with an array inside an array.
CONSTANTS
  Capacity = 62
  Addresses = {3}
  Arguments <- AllArguments
  MaxParts = 5
SPECIFICATION RoundTripSpec
INVARIANTS
  NestedArrayIsOneItem
