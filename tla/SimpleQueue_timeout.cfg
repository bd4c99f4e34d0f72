CONSTANTS
  Getter = {g1}
  Interruptible = {}
  MaxItems = 2
SPECIFICATION SimpleSpec
INVARIANT TimedGetIsTimed
\* Getters may all be waiting for good.
CHECK_DEADLOCK FALSE
