CONSTANTS
  a = a
  b = b
  kf = kf
  kg = kg
  kr = kr
  topic = topic
  refused = refused
  Callers <- MCCallers
  Keys <- MCKeys
  Wants <- MCWants
  TopicOf <- MCTopicOf
  Rejected <- MCRejected
  Reconnector = rc
  None = none
  MaxConn = 2
  MaxFaults = 1
  CancelConnect = TRUE
SPECIFICATION FairSpec
CHECK_DEADLOCK FALSE
PROPERTIES
  SubscribersAnswered
