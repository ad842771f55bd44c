SPECIFICATION Spec
CONSTANTS
  Currencies = {"USD", "JPY", "BHD"}
  Calls <- MCCalls
CHECK_DEADLOCK FALSE
INVARIANTS
  SplitsExactly
  RoundsOnce
