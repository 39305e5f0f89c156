SPECIFICATION InOrderSpec
CONSTANTS
  NumEvents = 2
  Keys = {k}
  KeyOf <- OneKey
  Charging = {}
  Runs = {p1}
  BatchLimit = 2
  NoEvent = NoEvent
  MaxFaults = 1
INVARIANT OrderPerKey
CHECK_DEADLOCK FALSE
