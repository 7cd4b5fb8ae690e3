SPECIFICATION FairSpec
CONSTANTS
  Frame <- MCFrame
  BusCap = 1
  Consumer = {"oms"}
  ChannelCap <- MCChannelCap
  MaxSent = 3
  MaxBacklog = 2
INVARIANT
  DecodedInOrder
PROPERTIES
  QosSpec
  CriticalArrives
