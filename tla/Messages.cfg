SPECIFICATION MessagesSpec
CONSTANTS
  w1 = w1
  w2 = w2
  Writers <- TwoWriters
  Size = 8
  Modulus = 64
  Start = 58
  Jobs <- MixedJobs
  Limit = 2
  MaxSpurious = 1
  MessageLimit = 4
  MaxShares = 4
  MaxData = 2
  MaxCloses = 1
  MaxFaults = 1
INVARIANTS StaleExchangeFails DeliveredInOrder NotStuck
PROPERTIES ImplementsQueue WaitersServed
CHECK_DEADLOCK FALSE
