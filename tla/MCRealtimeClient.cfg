CONSTANTS
  a = a
  b = b
  kf = kf
  kg = kg
  kr = kr
  topic = topic
  refused = refused
  Callers <- MCCallers
  Keys <- MCKeys
  Wants <- MCWants
  TopicOf <- MCTopicOf
  Rejected <- MCRejected
  Reconnector = rc
  None = none
  MaxConn = 2
  MaxFaults = 2
  CancelConnect = FALSE
SPECIFICATION FairSpec
CHECK_DEADLOCK FALSE
INVARIANT ConnectionSound
  
