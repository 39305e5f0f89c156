SPECIFICATION FairSpec
CONSTANTS
  NumEvents = 1
  Keys = {k}
  KeyOf <- OneKey
  Charging = {1}
  Runs = {p1}
  BatchLimit = 1
  NoEvent = NoEvent
  MaxFaults = 1
INVARIANT ChargedAtMostOnce
CHECK_DEADLOCK FALSE
