SPECIFICATION FairSpec
CONSTANTS
  NumEvents = 2
  Keys = {k}
  KeyOf <- OneKey
  Charging = {2}
  Runs = {p1, p2}
  BatchLimit = 2
  NoEvent = NoEvent
  MaxFaults = 1
INVARIANTS TypeOK PublishedIsInLog KeyOrderKept ChargedWithRecord PassedIsHandled FeesBoundedByFaults
PROPERTIES EventuallyPublished EventuallyProcessed ImplementsDelivery
CHECK_DEADLOCK FALSE
