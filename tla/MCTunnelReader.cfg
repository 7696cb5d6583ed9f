CONSTANTS
  HeaderBytes = 2
  Radix = 2
  Payload <- MCPayload
  MaxWrites = 2
SPECIFICATION Spec
CHECK_DEADLOCK FALSE
INVARIANT LeftoverKept
