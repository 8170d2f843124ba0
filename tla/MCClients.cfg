\* Two calls of one key and one without, one token that expires, one failure.
\* A stubborn command with a stubborn helper, two bytes against a limit of one,
\* two Ctrl-C.  A run ends when all have returned.
CONSTANTS
  Calls = {k1, k2, u}
  NoCall = nocall
  Keyed = {k1, k2}
  MaxRetries = 1
  MaxToken = 2
  MaxFaults = 1
  Leader = leader
  Helpers = {h1}
  Stubborn = {leader, h1}
  Quiet = {}
  Detached = {}
  MaxBytes = 1
  MaxWrites = 2
  MaxInterrupts = 2
  Grades = {completion, rules_locked}
SPECIFICATION ClientsSpec
INVARIANTS TransportSound ZeroIsEarned EvidenceHonest
PROPERTIES LatestWins EverythingReturns
CHECK_DEADLOCK FALSE
